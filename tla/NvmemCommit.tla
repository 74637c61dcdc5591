---------------------------- MODULE NvmemCommit ----------------------------
(***************************************************************************)
(* Who may change the TPM's non-volatile memory, and when the changes      *)
(* reach the flash.                                                        *)
(*                                                                         *)
(* common/nvmem.c keeps the TPM data in an SRAM cache behind a lock that a *)
(* write leaves held until the commit.  common/tpm_registers.c stops the   *)
(* commits at every TPM reset, so that the boot time TPM commands are      *)
(* fast, and relies on an event raised from the HOOKS task three seconds   *)
(* later to start them again.  The lock, the TPM task's events, the        *)
(* deferred functions of the HOOKS task and the console commands are all   *)
(* in this module, because each is correct only if the others behave.      *)
(*                                                                         *)
(* The TPM's data is the number of the last write it holds; 0 is an erased *)
(* TPM.  One step of a task ends where a higher priority task, or an       *)
(* interrupt, could change what the task reads next.                       *)
(***************************************************************************)
EXTENDS Naturals, FiniteSets

CONSTANTS
    Deferred,   \* the deferred functions the environment may put to work
    MaxWrites,  \* bound: writes of the TPM data
    MaxEnv      \* bound: interrupts, console inputs and USB packets

DeferredNames == {"reinstate", "ap_off", "tpm_rst", "reboot", "wipe",
                  "usb", "usb_open"}

ASSUME ConstantsAssumption ==
    /\ Deferred \subseteq DeferredNames
    /\ MaxWrites \in Nat
    /\ MaxEnv \in Nat

Tasks == {"HOOKS", "TPM", "CONSOLE"}
NoTask == "TASK_ID_COUNT"
TpmEvents == {"reset", "commit", "alt", "wake"}
RstSteps == {"rst_stop", "rst_commit", "rst_disable", "rst_start"}
HooksSteps == {"loop", "wait_wipe", "wait_reboot", "fwmp", "usb_fwmp",
               "reboot", "system_reset"} \cup RstSteps
TpmSteps == {"preloop", "idle", "cmd", "cmd_nv", "cmd_next", "cmd_fwmp"}
            \cup RstSteps
ConsoleSteps == {"prompt", "dump_lock", "dump", "efs_write", "efs_unlock",
                 "alt_wait"}
AltResults == {"waiting", "running", "done", "interrupted"}

VARIABLES
    nv,         \* nvmem.c: the lock, the commit flags, cache and flash
    pc,         \* where each task is
    evt,        \* local variable of tpm_task(): events still to be handled
    events,     \* event bits of the TPM task
    hooksEvent, \* TPM_EVENT_RESET is set for the HOOKS task
    deferred,   \* deferred functions whose timer is armed
    wipeFirst,  \* argument of tpm_reset_now() in each task
    req,        \* flags of tpm_registers.c: the TPM reset request, and whether
                \* the FIFO holds a command of the AP
    ap,         \* AP state machine: TPM_RST_L level, state, idle action, and
                \* whether "reinstate" may be pending when the AP is off for
                \* three seconds and nothing else delays sleep
    ifUp,       \* the host interface of the TPM is started
    alt,        \* process_result of the alternative path, and "running" while
                \* the TPM task executes its command
    hist,       \* history: the last write of a TPM command, what was asked
                \* for and what was done
    env         \* how many environment steps were taken

vars == <<nv, pc, evt, events, hooksEvent, deferred, wipeFirst, req, ap,
          ifUp, alt, hist, env>>

----------------------------------------------------------------------------
(* common/nvmem.c, each function as the change it makes.                   *)

\* nvmem_lock_cache() returns at once to the owner and waits for the others.
CanLock(t) == nv.task \in {t, NoTask}

nvmem_lock_cache(n, t) == [n EXCEPT !.task = t]

\* Mutant: the lock is released although a write waits for its commit.
nvmem_release_cache_pending(n) ==
    IF ~n.commits_enabled THEN n ELSE [n EXCEPT !.task = NoTask]

\* Mutant: the lock is released although commits are disabled.
nvmem_release_cache_disabled(n) ==
    IF n.write_in_progress THEN n ELSE [n EXCEPT !.task = NoTask]

nvmem_release_cache(n) ==
    IF n.write_in_progress \/ ~n.commits_enabled
    THEN n
    ELSE [n EXCEPT !.task = NoTask]

nvmem_unlock_cache(n) ==
    nvmem_release_cache([n EXCEPT !.write_in_progress = FALSE])

nvmem_save(n) == nvmem_unlock_cache([n EXCEPT !.flash = n.cache])

nvmem_read(n, t) == nvmem_release_cache(nvmem_lock_cache(n, t))

\* nvmem_write() and nvmem_move() within the range of the user's buffer.
nvmem_write(n, t) ==
    [nvmem_lock_cache(n, t) EXCEPT
        !.write_in_progress = TRUE, !.nvmem_updated = TRUE,
        !.cache = n.writes + 1, !.writes = n.writes + 1]

nvmem_commit(n, t) ==
    IF n.task # t THEN n
    ELSE IF ~n.nvmem_updated THEN nvmem_release_cache(n)
    ELSE IF ~n.commits_enabled THEN n
    ELSE [nvmem_save(n) EXCEPT !.nvmem_updated = FALSE]

\* Mutant: the commit comes before the flag is set, and is skipped.
nvmem_enable_commits_late(n, t) ==
    IF n.commits_enabled \/ n.task # t THEN n
    ELSE [nvmem_commit(n, t) EXCEPT !.commits_enabled = TRUE]

nvmem_enable_commits(n, t) ==
    IF n.commits_enabled \/ n.task # t THEN n
    ELSE nvmem_commit([n EXCEPT !.commits_enabled = TRUE], t)

nvmem_disable_commits(n, t) ==
    [nvmem_lock_cache(n, t) EXCEPT !.commits_enabled = FALSE]

\* nvmem_erase_tpm_data(): erases the TPM objects in flash and reads the
\* flash back into the cache; it does not use the lock of nvmem.c.
nvmem_erase_tpm_data(n) == [n EXCEPT !.flash = 0, !.cache = 0]

\* tpm_init() manufactures a TPM that was erased; the data goes to the cache
\* and the commit at the end of tpm_endorse() is skipped.
TPM_Manufacture(n, t) ==
    IF n.cache = 0 THEN nvmem_commit(nvmem_write(n, t), t) ELSE n

\* nvmem_init() with the static initial values of nvmem.c.
nvmem_init(flash, writes) ==
    [task |-> NoTask, write_in_progress |-> FALSE, commits_enabled |-> TRUE,
     nvmem_updated |-> FALSE, cache |-> flash, flash |-> flash,
     writes |-> writes]

----------------------------------------------------------------------------
(* core/cortex-m/task.c: the ready task with the highest priority runs.    *)

Priority(t) == CASE t = "CONSOLE" -> 3 [] t = "TPM" -> 2 [] t = "HOOKS" -> 1

\* Steps that start with nvmem_lock_cache().
LockSteps == {"cmd_nv", "cmd_fwmp", "rst_disable", "fwmp", "usb_fwmp",
              "dump_lock", "efs_write"}

\* The task is descheduled: it waits for time to pass, for input, for an
\* event or for the lock.
Blocked(t) ==
    \/ pc[t] \in {"loop", "prompt", "dump", "alt_wait"}
    \/ pc[t] = "preloop" /\ events = {}
    \/ pc[t] = "idle" /\ events \cup evt = {}
    \/ pc[t] \in {"wait_wipe", "wait_reboot"} /\ ~hooksEvent
    \/ pc[t] \in LockSteps /\ ~CanLock(t)

MayRun(t) == \A u \in Tasks : Priority(u) > Priority(t) => Blocked(u)

At(t, step) == pc[t] = step /\ MayRun(t)

Goto(t, step) == pc' = [pc EXCEPT ![t] = step]

----------------------------------------------------------------------------
(* Start of the firmware: only the flash and the level of TPM_RST_L remain *)
(* of what was.  poll_ap_state() notices an AP that is already running.    *)

BootPc == [t \in Tasks |-> CASE t = "HOOKS" -> "loop" [] t = "TPM" -> "preloop"
                              [] t = "CONSOLE" -> "prompt"]

Boot(flash, writes, rst) ==
    /\ nv' = nvmem_init(flash, writes)
    /\ pc' = BootPc
    /\ evt' = {}
    /\ events' = {}
    /\ hooksEvent' = FALSE
    /\ deferred' = IF rst THEN {"tpm_rst"} ELSE {}
    /\ wipeFirst' = [t \in Tasks |-> FALSE]
    /\ req' = [in_progress |-> FALSE, wipe_requested |-> FALSE,
               waiting |-> FALSE, wipe_ok |-> TRUE, fifo |-> FALSE]
    /\ ap' = [rst |-> rst, state |-> "off", deep_sleep |-> FALSE,
             late |-> FALSE]
    /\ ifUp' = FALSE
    /\ alt' = "done"
    /\ hist' = [written |-> 0, due |-> 0, wiped |-> FALSE]

Init ==
    /\ nv = nvmem_init(0, 0)
    /\ pc = BootPc
    /\ evt = {}
    /\ events = {}
    /\ hooksEvent = FALSE
    /\ deferred = {}
    /\ wipeFirst = [t \in Tasks |-> FALSE]
    /\ req = [in_progress |-> FALSE, wipe_requested |-> FALSE,
              waiting |-> FALSE, wipe_ok |-> TRUE, fifo |-> FALSE]
    /\ ap = [rst |-> FALSE, state |-> "off", deep_sleep |-> FALSE,
             late |-> FALSE]
    /\ ifUp = FALSE
    /\ alt = "done"
    /\ hist = [written |-> 0, due |-> 0, wiped |-> FALSE]
    /\ env = 0

----------------------------------------------------------------------------
(* tpm_reset_now(), run by the TPM task, or by any task that calls         *)
(* tpm_sync_reset().                                                       *)

\* Stop the interface, then erase the TPM data if asked to; the erasure may
\* report an error.
RstStop(t) ==
    /\ At(t, "rst_stop")
    /\ ifUp' = FALSE
    /\ \/ /\ wipeFirst[t]
          /\ nv' = nvmem_erase_tpm_data(nv)
          /\ hist' = [hist EXCEPT !.written = 0, !.due = 0, !.wiped = TRUE]
          /\ req' = [req EXCEPT !.wipe_ok = TRUE]
       \/ /\ wipeFirst[t]
          /\ nv' = nvmem_erase_tpm_data(nv)
          /\ hist' = [hist EXCEPT !.written = 0, !.due = 0, !.wiped = TRUE]
          /\ req' = [req EXCEPT !.wipe_ok = FALSE]
       \/ /\ ~wipeFirst[t]
          /\ req' = [req EXCEPT !.wipe_ok = TRUE]
          /\ UNCHANGED <<nv, hist>>
    /\ Goto(t, "rst_commit")
    /\ UNCHANGED <<evt, events, hooksEvent, deferred, wipeFirst, ap, env, alt>>

\* Save what accumulated while commits were disabled, then clear the data of
\* the TPM library and of tpm_registers.c: wipe_requested, the command FIFO.
RstCommit(t) ==
    /\ At(t, "rst_commit")
    /\ nv' = nvmem_enable_commits(nv, t)
    /\ req' = [req EXCEPT !.wipe_requested = FALSE, !.fifo = FALSE]
    /\ Goto(t, "rst_disable")
    /\ UNCHANGED <<evt, events, hooksEvent, deferred, wipeFirst, ap, ifUp,
                   hist, env, alt>>

\* delay_sleep_by(): a wipe, and a console command, keep the chip awake
\* longer than the three seconds.
SleepDelayed(t) == wipeFirst[t] \/ pc["CONSOLE"] = "alt_wait"

\* The part of tpm_reset_now() from nvmem_disable_commits() to the wake-up of
\* the task that waits for the reset.
DisableAndInit(t) ==
    /\ At(t, "rst_disable")
    /\ CanLock(t)
    /\ nv' = TPM_Manufacture(nvmem_disable_commits(nv, t), t)
    /\ hooksEvent' = (hooksEvent \/ req.waiting)
    /\ req' = [req EXCEPT !.waiting = FALSE]
    /\ ap' = [ap EXCEPT !.late = ap.state # "on" /\ ~SleepDelayed(t)]
    /\ Goto(t, "rst_start")
    /\ UNCHANGED <<evt, events, wipeFirst, ifUp, hist, env, alt>>

\* Mutant: nobody is asked to enable the commits again.
RstDisableNoTimer(t) == DisableAndInit(t) /\ UNCHANGED deferred

\* Disable the commits and arm the timer of reinstate_nvmem_commits().
RstDisable(t) ==
    /\ DisableAndInit(t)
    /\ deferred' = deferred \cup {"reinstate"}

\* The end of a command: a caller of tpm_alt_extension() may go on.
CommandDone == alt' = IF alt = "running" THEN "done" ELSE alt

\* Start the interface.  Back in tpm_task() a reset event is done with, and
\* the other events taken with it are dropped; a command on the alternative
\* path is told so.  Otherwise the reset was a part of a command.
RstStart(t) ==
    /\ At(t, "rst_start")
    /\ ifUp' = TRUE
    /\ \/ /\ t = "TPM"
          /\ "reset" \in evt
          /\ evt' = {}
          /\ alt' = IF "alt" \in evt THEN "interrupted" ELSE alt
       \/ /\ t = "TPM"
          /\ "reset" \notin evt
          /\ CommandDone
          /\ UNCHANGED evt
       \/ /\ t # "TPM"
          /\ UNCHANGED <<evt, alt>>
    /\ Goto(t, IF t = "TPM" THEN "idle" ELSE "loop")
    /\ UNCHANGED <<nv, events, hooksEvent, deferred, wipeFirst, req, ap, hist,
                   env>>

----------------------------------------------------------------------------
(* tpm_task().                                                             *)

\* Before the AP is up only a reset or a command on the alternative path
\* ends the wait; whatever else was requested with the reset is forgotten.
TpmPreloop ==
    /\ At("TPM", "preloop")
    /\ events # {}
    /\ events' = {}
    /\ wipeFirst' = [wipeFirst EXCEPT !["TPM"] = FALSE]
    /\ \/ /\ events \cap {"reset", "alt"} # {}
          /\ evt' = events \cap {"alt"}
          /\ Goto("TPM", "rst_stop")
       \/ /\ events \cap {"reset", "alt"} = {}
          /\ ap.state = "on"
          /\ evt' = events
          /\ Goto("TPM", "rst_stop")
       \/ /\ events \cap {"reset", "alt"} = {}
          /\ ap.state # "on"
          /\ UNCHANGED <<evt, pc>>
    /\ UNCHANGED <<nv, hooksEvent, deferred, req, ap, ifUp, hist, env, alt>>

TpmTakeEvents ==
    /\ At("TPM", "idle")
    /\ evt = {}
    /\ events # {}
    /\ evt' = events
    /\ events' = {}
    /\ UNCHANGED <<nv, pc, hooksEvent, deferred, wipeFirst, req, ap, ifUp,
                   hist, env, alt>>

TpmReset ==
    /\ At("TPM", "idle")
    /\ "reset" \in evt
    /\ wipeFirst' = [wipeFirst EXCEPT !["TPM"] = req.wipe_requested]
    /\ Goto("TPM", "rst_stop")
    /\ UNCHANGED <<nv, evt, events, hooksEvent, deferred, req, ap, ifUp, hist, env,
                   alt>>

TpmCommit ==
    /\ At("TPM", "idle")
    /\ "reset" \notin evt
    /\ "commit" \in evt
    /\ evt' = evt \ {"commit"}
    /\ nv' = nvmem_enable_commits(nv, "TPM")
    /\ UNCHANGED <<pc, events, hooksEvent, deferred, wipeFirst, req, ap, ifUp,
                   hist, env, alt>>

\* A command of the AP is handled before one of the alternative path.  The
\* AP's wake-up is void if a reset emptied the FIFO in the meantime.
TpmCommand ==
    /\ At("TPM", "idle")
    /\ evt \cap {"reset", "commit"} = {}
    /\ \/ /\ "wake" \in evt
          /\ evt' = evt \ {"wake"}
          /\ req' = [req EXCEPT !.fifo = FALSE]
          /\ Goto("TPM", IF req.fifo THEN "cmd" ELSE "idle")
          /\ UNCHANGED alt
       \/ /\ evt = {"alt"}
          /\ evt' = {}
          /\ alt' = "running"
          /\ Goto("TPM", "cmd")
          /\ UNCHANGED req
    /\ UNCHANGED <<nv, events, hooksEvent, deferred, wipeFirst, ap, ifUp, hist,
                   env>>

\* What the command is: a TPM2 command that uses the NV memory, or a vendor
\* command that asks for the TPM to be wiped.
CmdKind ==
    /\ At("TPM", "cmd")
    /\ \E step \in {"cmd_nv", "cmd_fwmp"} : Goto("TPM", step)
    /\ UNCHANGED <<nv, evt, events, hooksEvent, deferred, wipeFirst, req, ap,
                   ifUp, hist, env, alt>>

\* vc_commit_nvmem()
CmdCommitNvmem ==
    /\ At("TPM", "cmd")
    /\ nv' = nvmem_enable_commits(nv, "TPM")
    /\ CommandDone
    /\ Goto("TPM", "idle")
    /\ UNCHANGED <<evt, events, hooksEvent, deferred, wipeFirst, req, ap, ifUp,
                   hist, env>>

\* _plat__NvMemoryRead(), _plat__NvIsDifferent()
CmdRead ==
    /\ At("TPM", "cmd_nv") \/ At("TPM", "cmd_next")
    /\ CanLock("TPM")
    /\ nv' = nvmem_read(nv, "TPM")
    /\ Goto("TPM", "cmd_next")
    /\ UNCHANGED <<evt, events, hooksEvent, deferred, wipeFirst, req, ap, ifUp,
                   hist, env, alt>>

\* _plat__NvMemoryWrite(), _plat__NvMemoryMove()
CmdWrite ==
    /\ At("TPM", "cmd_nv") \/ At("TPM", "cmd_next")
    /\ nv.writes < MaxWrites
    /\ CanLock("TPM")
    /\ nv' = nvmem_write(nv, "TPM")
    /\ hist' = [hist EXCEPT !.written = nv.writes + 1]
    /\ Goto("TPM", "cmd_next")
    /\ UNCHANGED <<evt, events, hooksEvent, deferred, wipeFirst, req, ap, ifUp,
                   env, alt>>

\* The TPM library ends a command that wrote with _plat__NvCommit().
CmdEnd ==
    /\ At("TPM", "cmd_next")
    /\ nv' = nvmem_commit(nv, "TPM")
    /\ CommandDone
    /\ Goto("TPM", "idle")
    /\ UNCHANGED <<evt, events, hooksEvent, deferred, wipeFirst, req, ap, ifUp,
                   hist, env>>

\* vc_factory_reset(), process_response() of RMA and ccd_open() look at the
\* FWMP in the NV memory, then leave the wipe to a deferred function ...
CmdWipeLater ==
    /\ At("TPM", "cmd_fwmp")
    /\ CanLock("TPM")
    /\ "wipe" \in Deferred
    /\ nv' = nvmem_read(nv, "TPM")
    /\ deferred' = deferred \cup {"wipe"}
    /\ CommandDone
    /\ Goto("TPM", "idle")
    /\ UNCHANGED <<evt, events, hooksEvent, wipeFirst, req, ap, ifUp, hist,
                   env>>

\* ... or, when ccd_open() needs no physical presence, wipe at once.
CmdWipeNow ==
    /\ At("TPM", "cmd_fwmp")
    /\ CanLock("TPM")
    /\ nv' = nvmem_read(nv, "TPM")
    /\ wipeFirst' = [wipeFirst EXCEPT !["TPM"] = TRUE]
    /\ Goto("TPM", "rst_stop")
    /\ UNCHANGED <<evt, events, hooksEvent, deferred, req, ap, ifUp, hist, env,
                   alt>>

----------------------------------------------------------------------------
(* Deferred functions of the HOOKS task.                                   *)

Runs(d) ==
    /\ At("HOOKS", "loop")
    /\ d \in deferred

\* The part of tpm_reset_request() up to the wait.
tpm_reset_request(wait, wipe) ==
    /\ req' = [req EXCEPT !.in_progress = TRUE, !.wipe_ok = TRUE,
                          !.wipe_requested = @ \/ wipe,
                          !.waiting = @ \/ wait]
    /\ events' = events \cup {"reset"}

reinstate_nvmem_commits ==
    /\ Runs("reinstate")
    /\ deferred' = deferred \ {"reinstate"}
    /\ events' = events \cup {"commit"}
    /\ UNCHANGED <<nv, pc, evt, hooksEvent, wipeFirst, req, ap, ifUp, hist,
                   env, alt>>

deferred_set_ap_off ==
    /\ Runs("ap_off")
    /\ deferred' = deferred \ {"ap_off"}
    /\ \/ ap.rst /\ UNCHANGED <<nv, ap>>
       \/ /\ ~ap.rst
          /\ nv' = nvmem_enable_commits(nv, "HOOKS")
          /\ ap' = [ap EXCEPT !.state = "off", !.deep_sleep = TRUE]
    /\ UNCHANGED <<pc, evt, events, hooksEvent, wipeFirst, req, ifUp, hist,
                   env, alt>>

\* set_ap_on() and the request for a reset that nobody waits for.
deferred_tpm_rst_isr ==
    /\ Runs("tpm_rst")
    /\ deferred' = deferred \ {"tpm_rst", "ap_off"}
    /\ ap' = [ap EXCEPT !.state = "on", !.deep_sleep = FALSE]
    /\ \/ req.in_progress /\ UNCHANGED <<req, events>>
       \/ ~req.in_progress /\ tpm_reset_request(FALSE, FALSE)
    /\ UNCHANGED <<nv, pc, evt, hooksEvent, wipeFirst, ifUp, hist, env, alt>>

\* Mutant: reboot without waiting for the TPM reset.
deferred_tpm_rst_isr_nowait ==
    /\ Runs("reboot")
    /\ deferred' = deferred \ {"reboot", "ap_off"}
    /\ ap' = [ap EXCEPT !.state = "on", !.deep_sleep = FALSE]
    /\ tpm_reset_request(FALSE, FALSE)
    /\ hist' = [hist EXCEPT !.due = hist.written]
    /\ Goto("HOOKS", "reboot")
    /\ UNCHANGED <<nv, evt, hooksEvent, wipeFirst, ifUp, env, alt>>

\* The same with a reboot posted: reset the TPM, wait, then reboot.
deferred_tpm_rst_isr_reboot ==
    /\ Runs("reboot")
    /\ deferred' = deferred \ {"reboot", "ap_off"}
    /\ ap' = [ap EXCEPT !.state = "on", !.deep_sleep = FALSE]
    /\ \/ /\ req.in_progress
          /\ Goto("HOOKS", "system_reset")
          /\ UNCHANGED <<req, events, hist>>
       \/ /\ ~req.in_progress
          /\ tpm_reset_request(TRUE, FALSE)
          /\ hist' = [hist EXCEPT !.due = hist.written]
          /\ Goto("HOOKS", "wait_reboot")
    /\ UNCHANGED <<nv, evt, hooksEvent, wipeFirst, ifUp, env, alt>>

\* Mutant: a reset that is already scheduled is as good as a wipe.
board_wipe_tpm_busy ==
    /\ Runs("wipe")
    /\ deferred' = deferred \ {"wipe"}
    /\ hist' = [hist EXCEPT !.wiped = FALSE]
    /\ \/ /\ req.in_progress
          /\ Goto("HOOKS", "fwmp")
          /\ UNCHANGED <<req, events>>
       \/ /\ ~req.in_progress
          /\ tpm_reset_request(TRUE, TRUE)
          /\ Goto("HOOKS", "wait_wipe")
    /\ UNCHANGED <<nv, evt, hooksEvent, wipeFirst, ap, ifUp, env, alt>>

\* board_wipe_tpm() up to the wait in tpm_reset_request().
board_wipe_tpm ==
    /\ Runs("wipe")
    /\ deferred' = deferred \ {"wipe"}
    /\ \/ /\ req.in_progress
          /\ Goto("HOOKS", "system_reset")
          /\ UNCHANGED <<req, events, hist>>
       \/ /\ ~req.in_progress
          /\ tpm_reset_request(TRUE, TRUE)
          /\ hist' = [hist EXCEPT !.wiped = FALSE]
          /\ Goto("HOOKS", "wait_wipe")
    /\ UNCHANGED <<nv, evt, hooksEvent, wipeFirst, ap, ifUp, env, alt>>

\* The rest of board_wipe_tpm(): tpm_stop(), tell the TPM task to commit,
\* read the FWMP.
WipeDone ==
    /\ At("HOOKS", "wait_wipe")
    /\ hooksEvent
    /\ hooksEvent' = FALSE
    /\ \/ /\ req.wipe_ok
          /\ ifUp' = FALSE
          /\ req' = [req EXCEPT !.in_progress = FALSE]
          /\ events' = events \cup {"commit"}
          /\ Goto("HOOKS", "fwmp")
       \/ /\ ~req.wipe_ok
          /\ Goto("HOOKS", "system_reset")
          /\ UNCHANGED <<req, ifUp, events>>
    /\ UNCHANGED <<nv, evt, deferred, wipeFirst, ap, hist, env, alt>>

board_fwmp_update_policies ==
    /\ At("HOOKS", "fwmp")
    /\ CanLock("HOOKS")
    /\ nv' = nvmem_read(nv, "HOOKS")
    /\ Goto("HOOKS", "loop")
    /\ UNCHANGED <<evt, events, hooksEvent, deferred, wipeFirst, req, ap, ifUp,
                   hist, env, alt>>

RebootWaitDone ==
    /\ At("HOOKS", "wait_reboot")
    /\ hooksEvent
    /\ hooksEvent' = FALSE
    /\ Goto("HOOKS", "reboot")
    /\ UNCHANGED <<nv, evt, events, deferred, wipeFirst, req, ap, ifUp, hist,
                   env, alt>>

\* Five seconds passed in tpm_reset_request(): both callers reset the chip.
ResetTimeout ==
    /\ pc["HOOKS"] \in {"wait_wipe", "wait_reboot"}
    /\ MayRun("HOOKS")
    /\ ~hooksEvent
    /\ Goto("HOOKS", "system_reset")
    /\ UNCHANGED <<nv, evt, events, hooksEvent, deferred, wipeFirst, req, ap,
                   ifUp, hist, env, alt>>

SystemReset ==
    /\ pc["HOOKS"] \in {"reboot", "system_reset"}
    /\ MayRun("HOOKS")
    /\ Boot(nv.flash, nv.writes, ap.rst)
    /\ UNCHANGED env

\* try_vendor_command() runs the CCD and RMA commands that come over USB
\* here, in the HOOKS task.
UsbCommand ==
    /\ Runs("usb")
    /\ deferred' = deferred \ {"usb"}
    /\ Goto("HOOKS", "usb_fwmp")
    /\ UNCHANGED <<nv, evt, events, hooksEvent, wipeFirst, req, ap, ifUp, hist,
                   env, alt>>

\* ccd_open() reads the FWMP; the command ends there, or it starts the wipe
\* once physical presence is shown, or wipes at once.
UsbFwmp ==
    /\ At("HOOKS", "usb_fwmp")
    /\ CanLock("HOOKS")
    /\ nv' = nvmem_read(nv, "HOOKS")
    /\ \/ /\ Goto("HOOKS", "loop")
          /\ UNCHANGED <<deferred, wipeFirst>>
       \/ /\ "wipe" \in Deferred
          /\ deferred' = deferred \cup {"wipe"}
          /\ Goto("HOOKS", "loop")
          /\ UNCHANGED wipeFirst
       \/ /\ "usb_open" \in Deferred
          /\ wipeFirst' = [wipeFirst EXCEPT !["HOOKS"] = TRUE]
          /\ Goto("HOOKS", "rst_stop")
          /\ UNCHANGED deferred
    /\ UNCHANGED <<evt, events, hooksEvent, req, ap, ifUp, hist, env, alt>>

----------------------------------------------------------------------------
(* Console commands.                                                       *)

\* A line of input; clock_refresh_console_in_use() delays sleep by ten
\* seconds, when a timer that is pending now has expired.
ConsoleInUse ==
    /\ env < MaxEnv
    /\ env' = env + 1
    /\ ap' = [ap EXCEPT !.late = FALSE]

\* command_dump_nvmem(), command_dump_nvcache() and command_ec_comm() of
\* somebody at the console.
ConsoleInput ==
    /\ At("CONSOLE", "prompt")
    /\ ConsoleInUse
    /\ \E step \in {"dump_lock", "efs_write"} : Goto("CONSOLE", step)
    /\ UNCHANGED <<nv, evt, events, hooksEvent, deferred, wipeFirst, req,
                   ifUp, hist, alt>>

DumpStart ==
    /\ At("CONSOLE", "dump_lock")
    /\ CanLock("CONSOLE")
    /\ nv' = nvmem_disable_commits(nv, "CONSOLE")
    /\ Goto("CONSOLE", "dump")
    /\ UNCHANGED <<evt, events, hooksEvent, deferred, wipeFirst, req, ap, ifUp,
                   hist, env, alt>>

DumpEnd ==
    /\ At("CONSOLE", "dump")
    /\ nv' = nvmem_enable_commits(nv, "CONSOLE")
    /\ Goto("CONSOLE", "prompt")
    /\ UNCHANGED <<evt, events, hooksEvent, deferred, wipeFirst, req, ap, ifUp,
                   hist, env, alt>>

\* ec_efs_corrupt_hash() writes the cache and only unlocks it.
EfsWrite ==
    /\ At("CONSOLE", "efs_write")
    /\ CanLock("CONSOLE")
    /\ \/ /\ nv.writes < MaxWrites
          /\ nv' = nvmem_write(nvmem_read(nv, "CONSOLE"), "CONSOLE")
          /\ Goto("CONSOLE", "efs_unlock")
       \/ /\ nv.writes >= MaxWrites
          /\ Goto("CONSOLE", "prompt")
          /\ UNCHANGED nv
    /\ UNCHANGED <<evt, events, hooksEvent, deferred, wipeFirst, req, ap, ifUp,
                   hist, env, alt>>

EfsUnlock ==
    /\ At("CONSOLE", "efs_unlock")
    /\ nv' = nvmem_unlock_cache(nv)
    /\ Goto("CONSOLE", "prompt")
    /\ UNCHANGED <<evt, events, hooksEvent, deferred, wipeFirst, req, ap, ifUp,
                   hist, env, alt>>

\* tpm_alt_extension(): hand a command to the TPM task, look at the result
\* every ten milliseconds, ask again if a TPM reset interrupted it.
tpm_alt_extension ==
    /\ At("CONSOLE", "prompt")
    /\ ConsoleInUse
    /\ alt' = "waiting"
    /\ events' = events \cup {"alt"}
    /\ Goto("CONSOLE", "alt_wait")
    /\ UNCHANGED <<nv, evt, hooksEvent, deferred, wipeFirst, req, ifUp,
                   hist>>

AltPoll ==
    /\ At("CONSOLE", "alt_wait")
    /\ \/ /\ alt = "done"
          /\ Goto("CONSOLE", "prompt")
          /\ UNCHANGED <<alt, events>>
       \/ /\ alt = "interrupted"
          /\ alt' = "waiting"
          /\ events' = events \cup {"alt"}
          /\ UNCHANGED pc
    /\ UNCHANGED <<nv, evt, hooksEvent, deferred, wipeFirst, req, ap, ifUp,
                   hist, env>>

----------------------------------------------------------------------------
(* Interrupts and power.                                                   *)

Interrupt == env < MaxEnv /\ env' = env + 1

tpm_rst_asserted ==
    /\ Interrupt
    /\ ap.rst
    /\ ap' = [ap EXCEPT !.rst = FALSE, !.state = "debouncing",
                       !.late = FALSE]
    /\ deferred' = IF "ap_off" \in Deferred THEN deferred \cup {"ap_off"}
                                            ELSE deferred
    /\ UNCHANGED <<nv, pc, evt, events, hooksEvent, wipeFirst, req, ifUp, hist,
                   alt>>

tpm_rst_deasserted ==
    /\ Interrupt
    /\ ~ap.rst
    /\ ap' = [ap EXCEPT !.rst = TRUE]
    /\ \E d \in {"tpm_rst", "reboot"} \cap Deferred :
          deferred' = deferred \cup {d}
    /\ UNCHANGED <<nv, pc, evt, events, hooksEvent, wipeFirst, req, ifUp, hist,
                   alt>>

\* The AP reads TPM registers and sends a command.
HostCommand ==
    /\ Interrupt
    /\ ap.rst
    /\ ifUp
    /\ req' = [req EXCEPT !.in_progress = FALSE, !.fifo = TRUE]
    /\ events' = events \cup {"wake"}
    /\ UNCHANGED <<nv, pc, evt, hooksEvent, deferred, wipeFirst, ap, ifUp,
                   hist, alt>>

UsbPacket ==
    /\ Interrupt
    /\ "usb" \in Deferred
    /\ deferred' = deferred \cup {"usb"}
    /\ UNCHANGED <<nv, pc, evt, events, hooksEvent, wipeFirst, req, ap, ifUp,
                   hist, alt>>

\* __idle() runs when every task is descheduled; a timer that is not about
\* to expire does not keep it from deep sleep.  deferred_set_ap_off() runs
\* three seconds after TPM_RST_L was asserted, so reinstate_nvmem_commits()
\* is still to come only if the reset was later than that.
DeepSleepReady ==
    /\ ap.deep_sleep
    /\ pc["HOOKS"] = "loop"
    /\ deferred \subseteq (IF ap.late THEN {"reinstate"} ELSE {})
    /\ \A t \in Tasks : Blocked(t)

\* Waking up from deep sleep is a start of the firmware.
DeepSleep ==
    /\ DeepSleepReady
    /\ Boot(nv.flash, nv.writes, ap.rst)
    /\ UNCHANGED env

PowerLoss ==
    /\ Interrupt
    /\ Boot(nv.flash, nv.writes, FALSE)

----------------------------------------------------------------------------
TpmReset_(t) == RstStop(t) \/ RstCommit(t) \/ RstDisable(t) \/ RstStart(t)

TpmTask ==
    \/ TpmReset_("TPM")
    \/ TpmPreloop \/ TpmTakeEvents \/ TpmReset \/ TpmCommit \/ TpmCommand
    \/ CmdKind \/ CmdCommitNvmem \/ CmdRead \/ CmdWrite \/ CmdEnd
    \/ CmdWipeLater \/ CmdWipeNow

HooksTask ==
    \/ TpmReset_("HOOKS")
    \/ reinstate_nvmem_commits \/ deferred_set_ap_off \/ deferred_tpm_rst_isr
    \/ deferred_tpm_rst_isr_reboot \/ board_wipe_tpm \/ WipeDone
    \/ board_fwmp_update_policies \/ RebootWaitDone \/ SystemReset
    \/ UsbCommand \/ UsbFwmp

ConsoleTask == DumpStart \/ DumpEnd \/ EfsWrite \/ EfsUnlock \/ AltPoll

Environment ==
    \/ ConsoleInput \/ tpm_alt_extension \/ tpm_rst_asserted
    \/ tpm_rst_deasserted \/ HostCommand
    \/ UsbPacket \/ DeepSleep \/ PowerLoss \/ ResetTimeout

Next == TpmTask \/ HooksTask \/ ConsoleTask \/ Environment

\* The scheduler runs a task that is ready, and timers expire.
Fairness == WF_vars(TpmTask) /\ WF_vars(HooksTask) /\ WF_vars(ConsoleTask)

Spec == Init /\ [][Next]_vars /\ Fairness

----------------------------------------------------------------------------
(* Properties.                                                             *)

\* The type of the record nv.
NvType(n) ==
    n \in [task : Tasks \cup {NoTask}, write_in_progress : BOOLEAN,
           commits_enabled : BOOLEAN, nvmem_updated : BOOLEAN,
           cache : Nat, flash : Nat, writes : Nat]

PcType(p) ==
    /\ p \in [Tasks -> HooksSteps \cup TpmSteps \cup ConsoleSteps]
    /\ p["HOOKS"] \in HooksSteps
    /\ p["TPM"] \in TpmSteps
    /\ p["CONSOLE"] \in ConsoleSteps

ReqType(r) ==
    r \in [in_progress : BOOLEAN, wipe_requested : BOOLEAN,
           waiting : BOOLEAN, wipe_ok : BOOLEAN, fifo : BOOLEAN]

ApType(a) ==
    a \in [rst : BOOLEAN, state : {"off", "debouncing", "on"},
           deep_sleep : BOOLEAN, late : BOOLEAN]

HistType(h) ==
    h \in [written : Nat, due : Nat, wiped : BOOLEAN]

\* Every variable has its type.
TypeOK ==
    /\ NvType(nv)
    /\ PcType(pc)
    /\ evt \in SUBSET TpmEvents
    /\ events \in SUBSET TpmEvents
    /\ hooksEvent \in BOOLEAN
    /\ deferred \in SUBSET DeferredNames
    /\ wipeFirst \in [Tasks -> BOOLEAN]
    /\ ReqType(req)
    /\ ApType(ap)
    /\ ifUp \in BOOLEAN
    /\ alt \in AltResults
    /\ HistType(hist)
    /\ env \in Nat

\* The flags of nvmem.c and its lock agree: commits are disabled, or a write
\* is waiting for its commit, only while some task holds the lock.
LockCoversPending ==
    nv.write_in_progress \/ ~nv.commits_enabled => nv.task # NoTask

\* A change that a TPM command made to the cache and that is not in flash
\* is covered by the lock: the console cannot get at the cache, and a commit
\* will not take it for "nothing to commit".
UnsavedIsLocked ==
    hist.written > nv.flash =>
        nv.task \in {"TPM", "HOOKS"} /\ nv.nvmem_updated

\* Commits disabled by a reset "need to be reinstated on the same task
\* context": when TPM_EVENT_COMMIT can be raised, it is the TPM task (which
\* gets it), or a console command that ends by itself, that disabled them.
TpmCanReinstate ==
    ~nv.commits_enabled => nv.task = "TPM" \/ pc["CONSOLE"] = "dump"

\* When board_wipe_tpm() goes on after the reset it asked for (it stops the
\* interface and reports "TPM is erased"), the TPM data was erased since it
\* asked.
WipeMeansErased == pc["HOOKS"] = "fwmp" => hist.wiped

\* deferred_tpm_rst_isr() waits for the TPM reset "to make sure nvmem is
\* committed before reboot": what was in the cache when it asked is in flash.
CommittedBeforeReboot ==
    pc["HOOKS"] = "reboot" => nv.flash >= hist.due

\* Nothing that a TPM command wrote is left unsaved when the chip may enter
\* deep sleep.  The call in deferred_set_ap_off() is of no help when the TPM
\* task holds the lock; it is the timer, as long as AP off, that saves.
SavedBeforeDeepSleep == DeepSleepReady => hist.written <= nv.flash

\* Commits disabled by a reset are enabled again.
CommitsReinstated == ~nv.commits_enabled ~> nv.commits_enabled
=============================================================================
