-------------------------------- MODULE Ccd ---------------------------------
(***************************************************************************)
(* Case closed debugging: its state and configuration (common/ccd_config.c)*)
(* and what they decide with it, write protect (board/cr50/wp.c), factory  *)
(* mode (common/factory_mode.c and board/cr50/factory_mode.c), RMA         *)
(* authentication (common/rma_auth.c), and the wipe of the TPM.            *)
(*                                                                         *)
(* A vendor command runs on the TPM task when it comes from the AP ("ap")  *)
(* or from the console ("alt"), and on HOOKS when it comes from USB        *)
(* ("usb").  The callbacks of the physical presence detector and the       *)
(* deferred functions run on HOOKS.  A step ends where a higher priority   *)
(* task could change what is read next; a section under ccd_config_mutex   *)
(* is one step.  The scratch register is read and written in two steps by  *)
(* the hook of a state change and by the battery check; its other updates  *)
(* are one step each.  The AP and EC resets that some of these functions   *)
(* order are not in the model.                                             *)
(***************************************************************************)
EXTENDS PhysicalPresence, WriteProtect

CONSTANTS
    SetCaps,        \* the capabilities that "ccd set" changes
    MaxTries,       \* MAX_AUTHCODE_TRIES
    MaxCommands,    \* bound: commands
    MaxEvents       \* bound: resets, and changes of battery and boot mode

Caps == {"UnlockNoReboot", "UnlockNoShortPP", "OpenNoTPMWipe", "OpenNoLongPP",
         "BatteryBypassPP", "OpenNoDevMode", "OpenFromUSB", "OverrideWP",
         "OverrideBatt"}

ASSUME CcdAssumption ==
    /\ SetCaps \subseteq Caps
    /\ MaxTries \in Nat \ {0}
    /\ MaxCommands \in Nat /\ MaxEvents \in Nat

VARIABLES
    ccd,        \* ccd_state, force_disabled, config, its copy in NVMEM
    wp,         \* write protect, see WriteProtect
    tpm,        \* what the TPM's data says: the firmware management
                \* parameters forbid unlocking, developer mode is on; and
                \* whether its interface is stopped
    wipe,       \* wipe_result; history: the tasks that have decided to open
                \* CCD while the TPM holds data that must be erased first
    bat,        \* the battery, and bp_forced and bp_connect
    rma,        \* an auth code is set; tries_left
    factory,    \* factory_enable_deferred() is due
    loc,        \* per task: the next step, and a register value it has read
    env         \* commands and events left; history: an update of
                \* the register was lost

ccdVars == <<ccd, wp, tpm, wipe, bat, rma, factory, loc, env>>
vars == <<ppVars, pc, ccdVars>>

CapStates == {"Default", "Always", "UnlessLocked", "IfOpened"}

CapDefault ==
    [c \in Caps |->
        IF c \in {"UnlockNoReboot", "UnlockNoShortPP", "BatteryBypassPP"}
          THEN "Always" ELSE "IfOpened"]

Flags == {"TEST_LAB", "FACTORY", "PASSWORD_UNLOCKED", "WP_AT_BOOT",
          "WP_ENABLED", "BATT_AT_BOOT", "BATT_CONNECT"}

\* CCD_RESET_TEST_LAB and CCD_RESET_FACTORY leave these.
DefaultConfig ==
    [caps |-> [c \in Caps |-> "Default"], password |-> FALSE, flags |-> {}]

FactoryConfig ==
    [caps |-> [c \in Caps |-> "Always"], password |-> FALSE,
     flags |-> {"FACTORY", "WP_AT_BOOT"}]

\* One that a user has left: opening and unlocking need a password and
\* physical presence, and the test lab mode is on.
UserConfig ==
    [caps |-> [DefaultConfig.caps EXCEPT !["UnlockNoShortPP"] = "UnlessLocked"],
     password |-> TRUE, flags |-> {"TEST_LAB"}]

\* Long life scratch register 1 after power loss.
ClearedRegister ==
    [asserted |-> FALSE, forcing |-> FALSE, fwmp |-> FALSE, ccd |-> "LOCKED",
     pin |-> TRUE]

Sources == {"ap", "alt", "usb"}

Idle == \A t \in Tasks : pc[t] = "idle"

-----------------------------------------------------------------------------
(* Accessors *)

raw_get_cap(config, c) ==
    IF config.caps[c] = "Default" THEN CapDefault[c] ELSE config.caps[c]

ccd_is_cap_enabled(c) ==
    /\ ~ccd.disabled
    /\ \/ raw_get_cap(ccd.config, c) = "Always"
       \/ raw_get_cap(ccd.config, c) = "UnlessLocked" /\ ccd.state # "LOCKED"
       \/ ccd.state = "OPENED"

\* ccd_get_flag(), for all flags at once.
GetFlags(c) == IF c.disabled THEN {} ELSE c.config.flags

board_battery_is_present(b) == IF b.forced THEN b.connect ELSE b.present

Battery == board_battery_is_present(bat)

set_bp_follow_ccd_config(b, flags) ==
    [b EXCEPT !.forced = "BATT_AT_BOOT" \in flags,
              !.connect = IF "BATT_AT_BOOT" \in flags
                            THEN "BATT_CONNECT" \in flags ELSE @]

\* board_wp_follow_ccd_config(), for a configuration whose flags are these.
board_wp_follow_ccd_config(flags) ==
    /\ bat' = set_bp_follow_ccd_config(bat, flags)
    /\ wp' = set_wp_follow_ccd_config(
                 wp, flags,
                 board_battery_is_present(set_bp_follow_ccd_config(bat, flags)))

-----------------------------------------------------------------------------
(* Steps of a task *)

NoLocals == [next |-> "idle", seen |-> ClearedRegister]

\* Before a step that writes the register comes its read.
Locals(step, next) ==
    [next |-> next,
     seen |-> IF step \in {"notify", "write_on", "write_off"} THEN wp
              ELSE ClearedRegister]

\* Where a task goes on, and after that.
Then(t, step, next) ==
    /\ GoTo(t, step)
    /\ loc' = [loc EXCEPT ![t] = Locals(step, next)]

Continue(t) ==
    /\ IF loc[t].next = "idle" THEN Return(t) ELSE GoTo(t, loc[t].next)
    /\ loc' = [loc EXCEPT ![t] = NoLocals]

Receives(src) ==
    CASE src = "ap"  -> At("TPM", "idle") /\ ~tpm.stopped
      [] src = "alt" -> At("CONSOLE", "idle") /\ At("TPM", "idle")
      [] src = "usb" -> At("HOOKS", "idle")

Runner(src) == IF src = "usb" THEN "HOOKS" ELSE "TPM"

\* A command from src that extension_route_command() lets through goes on at
\* step, and returns after it.
Begin(src, step) ==
    /\ pc' = [pc EXCEPT ![Runner(src)] = step,
                        !["CONSOLE"] = IF src = "alt" THEN "alt" ELSE @]
    /\ loc' = [loc EXCEPT ![Runner(src)] = Locals(step, "idle")]

Input == env.commands > 0 /\ env' = [env EXCEPT !.commands = @ - 1]

Event == env.events > 0 /\ env' = [env EXCEPT !.events = @ - 1]

Command(src) == Receives(src) /\ Input /\ ~ccd.disabled

\* A command line is entered at the console.
Console == At("CONSOLE", "idle") /\ Input

\* ccd_set_state(): the hook is called when the state changes.
ccd_set_state(t, state, next) ==
    /\ ccd' = [ccd EXCEPT !.state = state]
    /\ IF state # ccd.state
         THEN Then(t, "notify", next)
       ELSE IF next = "idle"
         THEN Return(t) /\ UNCHANGED loc
         ELSE Then(t, next, "idle")

\* The scratch register is written after it was read, and what another task
\* has written in between is lost; the signal is a register of its own.
WriteBack(stale, new) ==
    /\ wp' = new
    /\ env' = [env EXCEPT !.torn = @ \/ stale]

\* board_ccd_config_changed(): stores the state where a deep sleep keeps it.
SavedState_opened(t) ==
    IF loc[t].next = "finish" THEN "OPENED" ELSE ccd.state

SavedState(t) == ccd.state

Notify(t) ==
    /\ At(t, "notify")
    /\ WriteBack(loc[t].seen # [wp EXCEPT !.ccd = loc[t].seen.ccd],
                 [loc[t].seen EXCEPT !.pin = wp.pin, !.ccd = SavedState(t)])
    /\ Continue(t)
    /\ UNCHANGED <<ppVars, ccd, tpm, wipe, bat, rma, factory>>

\* ccd_save_config().  Only ccd_disable_factory_mode() stops at an error.
Save(t) ==
    /\ At(t, "save")
    /\ \/ /\ ccd' = [ccd EXCEPT !.nv = ccd.config]
          /\ Then(t, "notify", loc[t].next)
       \/ /\ IF loc[t].next = "df_lock"
               THEN Return(t) /\ loc' = [loc EXCEPT ![t] = NoLocals]
               ELSE Continue(t)
          /\ UNCHANGED ccd
    /\ UNCHANGED <<ppVars, wp, tpm, wipe, bat, rma, factory, env>>

SetConfig(config) == ccd' = [ccd EXCEPT !.config = config]

-----------------------------------------------------------------------------
(* Opening, unlocking, locking *)

OpenAllowed(src) ==
    /\ ccd.state # "OPENED"
    /\ ~tpm.fwmp
    /\ \/ ccd.config.password           \* and the right one is given
       \/ ~Battery
       \/ /\ ccd_is_cap_enabled("OpenNoDevMode") \/ tpm.dev
          /\ ccd_is_cap_enabled("OpenFromUSB") \/ src = "ap"

BatteryBypass == ccd_is_cap_enabled("BatteryBypassPP") /\ ~Battery

OpenStep ==
    IF \/ BatteryBypass
       \/ /\ ccd_is_cap_enabled("OpenNoLongPP")
          /\ ccd_is_cap_enabled("UnlockNoShortPP")
      THEN "sync"
    ELSE IF ccd_is_cap_enabled("OpenNoLongPP") THEN "pp_short" ELSE "pp_long"

\* The rest of a command that wants physical presence: a busy detector is
\* aborted, and the command fails.
AbortOr(src, step) ==
    IF physical_detect_busy
      THEN physical_detect_abort /\ UNCHANGED <<pc, loc>>
      ELSE Begin(src, step) /\ UNCHANGED ppVars

ccd_open(src) ==
    /\ Command(src)
    /\ OpenAllowed(src)
    /\ AbortOr(src, OpenStep)
    /\ UNCHANGED <<ccd, wp, tpm, wipe, bat, rma, factory>>

ccd_unlock(src) ==
    /\ Command(src)
    /\ \/ ccd.state = "OPENED" /\ Begin(src, "unlocked") /\ UNCHANGED ppVars
       \/ /\ ccd.state = "LOCKED" /\ ccd.config.password /\ ~tpm.fwmp
          /\ AbortOr(src, IF \/ BatteryBypass
                             \/ ccd_is_cap_enabled("UnlockNoShortPP")
                            THEN "unlocked" ELSE "pp_unlock")
    /\ UNCHANGED <<ccd, wp, tpm, wipe, bat, rma, factory>>

\* ccd_lock() does nothing else; the hook is a step of its own.
ccd_lock(src) ==
    /\ Command(src)
    /\ ccd.state # "LOCKED"
    /\ ccd' = [ccd EXCEPT !.state = "LOCKED"]
    /\ Begin(src, "notify")
    /\ UNCHANGED <<ppVars, wp, tpm, wipe, bat, rma, factory>>

StartDetection(t) ==
    /\ \E step \in {"pp_long", "pp_short", "pp_unlock"} :
          /\ At(t, step)
          /\ IF physical_detect_busy
               THEN Return(t) /\ UNCHANGED ppVars
               ELSE physical_detect_start(t, step = "pp_long",
                        IF step = "pp_unlock" THEN "unlock" ELSE "open")
    /\ UNCHANGED ccdVars

\* ccd_open_done(): must the TPM be wiped?
OpenDone(t) ==
    /\ \/ At(t, "sync")
       \/ t = "HOOKS" /\ At(t, "callback") /\ pp.callback = "open"
    /\ LET next == IF pc[t] = "sync" THEN "idle" ELSE "finish"
       IN  IF ccd_is_cap_enabled("OpenNoTPMWipe")
             THEN /\ Then(t, "opened", next)
                  /\ wipe' = [wipe EXCEPT !.old = @ \ {t}]
             ELSE /\ Then(t, IF pc[t] = "sync" THEN "sync_wipe" ELSE "wipe",
                          next)
                  /\ wipe' = [wipe EXCEPT !.old = @ \cup {t}]
    /\ UNCHANGED <<ppVars, ccd, wp, tpm, bat, rma, factory, env>>

Opened(t) ==
    /\ At(t, "opened")
    /\ ccd_set_state(t, "OPENED", loc[t].next)
    /\ UNCHANGED <<ppVars, wp, tpm, wipe, bat, rma, factory, env>>

ccd_unlock_done(t) ==
    /\ \/ At(t, "unlocked")
       \/ t = "HOOKS" /\ At(t, "callback") /\ pp.callback = "unlock"
    /\ ccd_set_state(t, "UNLOCKED",
                     IF pc[t] = "unlocked" THEN "idle" ELSE "finish")
    /\ UNCHANGED <<ppVars, wp, tpm, wipe, bat, rma, factory, env>>

-----------------------------------------------------------------------------
(* Wiping the TPM *)

\* tpm_reset_now(true): the interface starts again.  An erase that fails may
\* have deleted some of the data.
Erase(ok) ==
    /\ \E f \in {FALSE, tpm.fwmp}, d \in {FALSE, tpm.dev} :
          /\ ok => ~f /\ ~d
          /\ tpm' = [fwmp |-> f, dev |-> d, stopped |-> FALSE]
    /\ wipe' = [result |-> ok, old |-> IF ok THEN {} ELSE wipe.old]

\* tpm_sync_reset(), called by ccd_open_done() on the task of the command.
tpm_sync_reset(t) ==
    /\ At(t, "sync_wipe")
    /\ \E ok \in BOOLEAN : Erase(ok)
    /\ GoTo(t, "sync_result")
    /\ UNCHANGED <<ppVars, ccd, wp, bat, rma, factory, loc, env>>

SyncResult_ignored(t) ==
    /\ At(t, "sync_result")
    /\ GoTo(t, "opened")
    /\ UNCHANGED <<ppVars, ccdVars>>

SyncResult(t) ==
    /\ At(t, "sync_result")
    /\ IF wipe.result THEN GoTo(t, "opened") ELSE Return(t)
    /\ UNCHANGED <<ppVars, ccdVars>>

\* The TPM task does what tpm_reset_request(true, true) asked for.
TpmWipe ==
    /\ pc["HOOKS"] = "wipe"
    /\ At("TPM", "idle")
    /\ \E ok \in BOOLEAN : Erase(ok)
    /\ GoTo("HOOKS", "wiped")
    /\ UNCHANGED <<ppVars, ccd, wp, bat, rma, factory, loc, env>>

\* board_wipe_tpm(): the wipe was successful.  The AP may have used the TPM
\* between the wipe and tpm_stop().
WipeStop ==
    /\ At("HOOKS", "wiped")
    /\ wipe.result
    /\ tpm' = [tpm EXCEPT !.stopped = TRUE]
    /\ GoTo("HOOKS", "policy")
    /\ UNCHANGED <<ppVars, ccd, wp, wipe, bat, rma, factory, loc, env>>

WipePolicy ==
    /\ At("HOOKS", "policy")
    /\ wp' = board_fwmp_update_policies(wp, tpm.fwmp, GetFlags(ccd), Battery)
    /\ GoTo("HOOKS", IF loc["HOOKS"].next = "idle" THEN "factory"
                     ELSE "opened")
    /\ UNCHANGED <<ppVars, ccd, tpm, wipe, bat, rma, factory, loc, env>>

-----------------------------------------------------------------------------
(* Changes of the configuration *)

\* ccd_reset_config() without CCD_RESET_UNLOCKED_ONLY: the test lab flag is
\* kept.
ResetConfig(config) ==
    [config EXCEPT !.flags = @ \cup (ccd.config.flags \cap {"TEST_LAB"})]

\* ccd_reset_config() with CCD_RESET_UNLOCKED_ONLY.
ResetUnlocked ==
    LET c == ccd.config
        set == "PASSWORD_UNLOCKED" \in c.flags
    IN  [caps |-> [x \in Caps |-> IF raw_get_cap(c, x) = "IfOpened"
                                    THEN c.caps[x] ELSE "Default"],
         password |-> c.password /\ ~set,
         flags |-> c.flags \ {"PASSWORD_UNLOCKED"}]

ccd_reset_config(base) ==
    /\ SetConfig(ResetConfig(base))
    /\ board_wp_follow_ccd_config(base.flags)

\* command_ccd_reset(), and the part of ccd_disable_factory_mode() that calls
\* it.
ResetCommand(t, base, next) ==
    \/ /\ ccd.state = "OPENED"
       /\ ccd_reset_config(base)
       /\ Then(t, "save", next)
    \/ /\ ccd.state = "UNLOCKED"
       /\ SetConfig(ResetUnlocked)
       /\ Then(t, "save", next)
       /\ UNCHANGED <<wp, bat>>

command_ccd_reset ==
    /\ Console
    /\ \E base \in {DefaultConfig, FactoryConfig} :
          ResetCommand("CONSOLE", base, "idle")
    /\ UNCHANGED <<ppVars, tpm, wipe, rma, factory>>

MaySet_unlocked(c, new) == ccd.state # "LOCKED"

MaySet(c, new) ==
    /\ ccd.state # "LOCKED"
    /\ ccd.state = "UNLOCKED" =>
          "IfOpened" \notin {new, raw_get_cap(ccd.config, c)}

command_ccd_set ==
    /\ Console
    /\ \E c \in SetCaps, new \in CapStates :
          /\ MaySet(c, new)
          /\ new # ccd.config.caps[c]
          /\ SetConfig([ccd.config EXCEPT !.caps[c] = new])
    /\ Then("CONSOLE", "save", "idle")
    /\ UNCHANGED <<ppVars, wp, tpm, wipe, bat, rma, factory>>

\* ccd_password(), from the AP only.  When the digest cannot be computed the
\* salt stays, and is a password.
ccd_password ==
    /\ Command("ap")
    /\ ccd.state # "LOCKED"
    /\ \/ /\ ccd.config.password
          /\ SetConfig([ccd.config EXCEPT !.password = FALSE,
                                          !.flags = @ \ {"PASSWORD_UNLOCKED"}])
          /\ Begin("ap", "save")
       \/ /\ ~ccd.config.password
          /\ SetConfig([ccd.config EXCEPT !.password = TRUE,
                            !.flags = IF ccd.state = "UNLOCKED"
                                        THEN @ \cup {"PASSWORD_UNLOCKED"}
                                        ELSE @ \ {"PASSWORD_UNLOCKED"}])
          /\ Begin("ap", "save")
    /\ UNCHANGED <<ppVars, wp, tpm, wipe, bat, rma, factory>>

ccd_password_fails ==
    /\ At("TPM", "idle") /\ ~tpm.stopped
    /\ ~ccd.disabled /\ ccd.state # "LOCKED" /\ ~ccd.config.password
    /\ env.commands > 0
    /\ env' = [env EXCEPT !.commands = @ - 1]
    /\ SetConfig([ccd.config EXCEPT !.password = TRUE])
    /\ UNCHANGED <<ppVars, pc, wp, tpm, wipe, bat, rma, factory, loc>>

\* command_ccd_testlab()
TestlabOpen ==
    /\ Console
    /\ "TEST_LAB" \in GetFlags(ccd)
    /\ ccd.state # "OPENED"
    /\ ccd_set_state("CONSOLE", "OPENED", "idle")
    /\ UNCHANGED <<ppVars, wp, tpm, wipe, bat, rma, factory>>

TestlabChange ==
    /\ Console
    /\ ccd.state = "OPENED"
    /\ physical_detect_start("CONSOLE", FALSE, "testlab")
    /\ UNCHANGED <<ccd, wp, tpm, wipe, bat, rma, factory, loc>>

ccd_testlab_toggle ==
    /\ At("HOOKS", "callback") /\ pp.callback = "testlab"
    /\ SetConfig([ccd.config EXCEPT
                    !.flags = IF "TEST_LAB" \in @ THEN @ \ {"TEST_LAB"}
                              ELSE @ \cup {"TEST_LAB"}])
    /\ Then("HOOKS", "save", "finish")
    /\ UNCHANGED <<ppVars, wp, tpm, wipe, bat, rma, factory, env>>

-----------------------------------------------------------------------------
(* Factory mode and RMA *)

\* vc_factory_reset()
vc_factory_reset ==
    /\ Command("ap")
    /\ ~Battery /\ ~tpm.fwmp /\ ~ccd.config.password
    /\ factory' = TRUE
    /\ UNCHANGED <<ppVars, pc, ccd, wp, tpm, wipe, bat, rma, loc>>

\* get_challenge(): the old code is cleared first.
get_challenge(src) ==
    /\ Command(src)
    /\ rma' = [rma EXCEPT !.code = FALSE]
    /\ Begin(src, "challenge")
    /\ UNCHANGED <<ppVars, ccd, wp, tpm, wipe, bat, factory>>

rma_create_challenge(t) ==
    /\ At(t, "challenge")
    /\ rma' \in {rma, [code |-> TRUE, tries |-> MaxTries]}
    /\ Return(t)
    /\ UNCHANGED <<ppVars, ccd, wp, tpm, wipe, bat, factory, loc, env>>

\* process_response() and rma_try_authcode()
process_response(src) ==
    /\ Command(src)
    /\ rma.tries > 0 /\ rma.code
    /\ \E right \in BOOLEAN :
          LET left == IF right THEN 0 ELSE rma.tries - 1
          IN  /\ rma' = [code |-> left > 0, tries |-> left]
              /\ factory' = (factory \/ right)
    /\ UNCHANGED <<ppVars, pc, ccd, wp, tpm, wipe, bat, loc>>

\* factory_enable_deferred(); reset_required_ is never set.
factory_enable_deferred ==
    /\ At("HOOKS", "idle")
    /\ factory
    /\ factory' = FALSE
    /\ wipe' = [wipe EXCEPT !.old = @ \cup {"HOOKS"}]
    /\ Then("HOOKS", "wipe", "idle")
    /\ UNCHANGED <<ppVars, ccd, wp, tpm, bat, rma, env>>

FactoryReset ==
    /\ At("HOOKS", "factory")
    /\ ccd_reset_config(FactoryConfig)
    /\ Then("HOOKS", "save", "idle")
    /\ UNCHANGED <<ppVars, tpm, wipe, rma, factory, env>>

\* ccd_disable_factory_mode(): opens, resets, locks.
ccd_disable_factory_mode ==
    /\ Command("ap")
    /\ ~ccd.config.password
    /\ \/ BatteryBypass
       \/ \A c \in {"OpenNoTPMWipe", "UnlockNoReboot", "OpenNoLongPP",
                    "UnlockNoShortPP"} : ccd_is_cap_enabled(c)
    /\ ccd_set_state("TPM", "OPENED", "df_reset")
    /\ UNCHANGED <<ppVars, wp, tpm, wipe, bat, rma, factory>>

DisableReset ==
    /\ At("TPM", "df_reset")
    /\ ResetCommand("TPM", DefaultConfig, "df_lock")
    /\ UNCHANGED <<ppVars, tpm, wipe, rma, factory, env>>

DisableLock ==
    /\ At("TPM", "df_lock")
    /\ ccd_set_state("TPM", "LOCKED", "df_wp")
    /\ UNCHANGED <<ppVars, wp, tpm, wipe, bat, rma, factory, env>>

DisableWp ==
    /\ At("TPM", "df_wp")
    /\ board_wp_follow_ccd_config(GetFlags(ccd))
    /\ SetConfig([ccd.config EXCEPT !.flags = @ \ {"FACTORY"}])
    /\ Return("TPM")
    /\ UNCHANGED <<ppVars, tpm, wipe, rma, factory, loc, env>>

-----------------------------------------------------------------------------
(* Write protect and battery *)

\* command_wp().  With "follow" the value is whatever was on the stack.
command_wp ==
    /\ Console
    /\ ccd_is_cap_enabled("OverrideWP") /\ ~wp.fwmp
    /\ \E forced, val, atboot \in BOOLEAN :
          /\ wp' = force_write_protect(wp, forced, val, Battery)
          /\ IF atboot
               THEN /\ SetConfig([ccd.config EXCEPT !.flags =
                          (@ \ {"WP_AT_BOOT", "WP_ENABLED"})
                             \cup (IF forced THEN {"WP_AT_BOOT"} ELSE {})
                             \cup (IF val THEN {"WP_ENABLED"} ELSE {})])
                    /\ Then("CONSOLE", "save", "idle")
               ELSE UNCHANGED <<ccd, pc, loc>>
    /\ UNCHANGED <<ppVars, tpm, wipe, bat, rma, factory>>

\* The value check_wp_battery_presence() wants, if it wants one.
WantsMirror(b) == ~wp.fwmp /\ ~wp.forcing /\ board_battery_is_present(b) # wp.pin

\* command_bpforce()
command_bpforce ==
    /\ Console
    /\ ccd_is_cap_enabled("OverrideBatt")
    /\ \E forced, val, atboot \in BOOLEAN :
          /\ forced \/ val
          /\ bat' = [bat EXCEPT !.forced = forced, !.connect = val]
          /\ IF atboot
               THEN /\ SetConfig([ccd.config EXCEPT !.flags =
                          (@ \ {"BATT_AT_BOOT", "BATT_CONNECT"})
                             \cup (IF forced THEN {"BATT_AT_BOOT"} ELSE {})
                             \cup (IF val THEN {"BATT_CONNECT"} ELSE {})])
                    /\ Then("CONSOLE", "save", "idle")
               ELSE UNCHANGED <<ccd, pc, loc>>
    /\ wp' = IF WantsMirror(bat')
               THEN set_wp_state(wp, board_battery_is_present(bat')) ELSE wp
    /\ UNCHANGED <<ppVars, tpm, wipe, rma, factory>>

\* check_wp_battery_presence(), every second, up to the call of
\* set_wp_state().
check_wp_battery_presence ==
    /\ At("HOOKS", "idle")
    /\ WantsMirror(bat)
    /\ GoTo("HOOKS", IF Battery THEN "wp_on" ELSE "wp_off")
    /\ UNCHANGED <<ppVars, ccdVars>>

\* set_wp_state() on HOOKS: reads the register ...
MirrorRead ==
    /\ \E on \in BOOLEAN :
          /\ At("HOOKS", IF on THEN "wp_on" ELSE "wp_off")
          /\ Then("HOOKS", IF on THEN "write_on" ELSE "write_off", "idle")
    /\ UNCHANGED <<ppVars, ccd, wp, tpm, wipe, bat, rma, factory, env>>

\* ... and writes it.
MirrorWrite ==
    /\ \E on \in BOOLEAN :
          /\ At("HOOKS", IF on THEN "write_on" ELSE "write_off")
          /\ WriteBack(loc["HOOKS"].seen # wp,
                       set_wp_state(loc["HOOKS"].seen, on))
    /\ Continue("HOOKS")
    /\ UNCHANGED <<ppVars, ccd, tpm, wipe, bat, rma, factory>>

\* vc_set_wp()
vc_set_wp ==
    /\ Command("ap")
    /\ ~wp.pin
    /\ wp' = set_wp_state(wp, TRUE)
    /\ UNCHANGED <<ppVars, pc, ccd, tpm, wipe, bat, rma, factory, loc>>

\* The AP writes the firmware management parameters ...
FwmpWrite ==
    /\ Command("ap")
    /\ \E lock \in BOOLEAN : tpm' = [tpm EXCEPT !.fwmp = lock]
    /\ Begin("ap", "fwmp")
    /\ UNCHANGED <<ppVars, ccd, wp, wipe, bat, rma, factory>>

\* ... and _plat__NvInformIndexDataChanged() updates the policies.
FwmpInform ==
    /\ At("TPM", "fwmp")
    /\ wp' = board_fwmp_update_policies(wp, tpm.fwmp, GetFlags(ccd), Battery)
    /\ Return("TPM")
    /\ UNCHANGED <<ppVars, ccd, tpm, wipe, bat, rma, factory, loc, env>>

\* Deleting the space informs nobody.
FwmpUndefine ==
    /\ Command("ap")
    /\ tpm.fwmp
    /\ tpm' = [tpm EXCEPT !.fwmp = FALSE]
    /\ UNCHANGED <<ppVars, pc, ccd, wp, wipe, bat, rma, factory, loc>>

-----------------------------------------------------------------------------
(* The world outside, and resets *)

BatteryChange ==
    /\ Event
    /\ bat' = [bat EXCEPT !.present = ~@]
    /\ UNCHANGED <<ppVars, pc, ccd, wp, tpm, wipe, rma, factory, loc>>

DevMode ==
    /\ Receives("ap") /\ Event
    /\ tpm' = [tpm EXCEPT !.dev = ~@]
    /\ UNCHANGED <<ppVars, pc, ccd, wp, wipe, bat, rma, factory, loc>>

\* The AP comes out of reset, and the TPM is reset with it.
ApReset ==
    /\ At("HOOKS", "idle") /\ pc["TPM"] = "idle"
    /\ tpm.stopped
    /\ tpm' = [tpm EXCEPT !.stopped = FALSE]
    /\ UNCHANGED <<ppVars, pc, ccd, wp, wipe, bat, rma, factory, loc, env>>

\* ccd_load_config(): the configuration of another version is dropped, and
\* even the test lab flag is lost, because ccd_get_flag() is 0 before the
\* configuration is loaded.
ccd_load_config(sameVersion) == IF sameVersion THEN ccd.nv ELSE DefaultConfig

\* board_init(), with register the value of the scratch register.
Boot(register, resumed, sameVersion) ==
    /\ \E disabled \in BOOLEAN :
          LET config == ccd_load_config(sameVersion)
              state == IF resumed /\ ~disabled THEN register.ccd ELSE "LOCKED"
              new == [state |-> state, disabled |-> disabled,
                      config |-> config, nv |-> config]
              b == set_bp_follow_ccd_config([bat EXCEPT !.forced = FALSE],
                                            GetFlags(new))
          IN  /\ ccd' = new
              /\ bat' = b
              /\ wp' = init_wp_state(
                           [register EXCEPT !.ccd = state, !.pin = TRUE],
                           tpm.fwmp, GetFlags(new),
                           board_battery_is_present(b), resumed)
    /\ tpm' = [tpm EXCEPT !.stopped = FALSE]
    /\ wipe' = [result |-> TRUE, old |-> {}]
    /\ rma' = [code |-> FALSE, tries |-> 0]
    /\ factory' = FALSE
    /\ pc' = [t \in Tasks |-> "idle"]
    /\ loc' = [t \in Tasks |-> NoLocals]
    /\ pp' = PpInit
    /\ timer' = TimersOff
    /\ chk' = NoPress
    /\ presses' = 0

\* board_wipe_tpm(): the wipe failed, or tpm_reset_request() did.
WipeFails ==
    /\ \/ At("HOOKS", "wiped") /\ ~wipe.result
       \/ At("HOOKS", "wipe")
    /\ Boot(wp, FALSE, TRUE)
    /\ UNCHANGED env

PowerLoss ==
    /\ Event
    /\ \E sameVersion \in BOOLEAN : Boot(ClearedRegister, FALSE, sameVersion)

DeepSleep ==
    /\ Event
    /\ Idle /\ ~pp.capture /\ ~factory
    /\ Boot(wp, TRUE, TRUE)

\* The firmware starts: with no configuration in NVMEM, in the factory or
\* elsewhere, or with that of a user.
Init ==
    /\ \E config \in {DefaultConfig, FactoryConfig, UserConfig} :
          /\ ccd = [state |-> "LOCKED", disabled |-> FALSE, config |-> config,
                    nv |-> config]
          /\ wp = init_wp_state(ClearedRegister, FALSE, config.flags, TRUE,
                                FALSE)
    /\ tpm \in [fwmp : {FALSE}, dev : BOOLEAN, stopped : {FALSE}]
    /\ wipe = [result |-> TRUE, old |-> {}]
    /\ bat = [present |-> TRUE, forced |-> FALSE, connect |-> FALSE]
    /\ rma = [code |-> FALSE, tries |-> 0]
    /\ factory = FALSE
    /\ pc = [t \in Tasks |-> "idle"]
    /\ loc = [t \in Tasks |-> NoLocals]
    /\ env = [commands |-> MaxCommands, events |-> MaxEvents, torn |-> FALSE]
    /\ pp = PpInit
    /\ timer = TimersOff
    /\ chk = NoPress
    /\ presses = 0

-----------------------------------------------------------------------------

\* Steps that a task takes by itself.
TaskStep(t) ==
    \/ (StartCapture(t) \/ StartTimeout(t)) /\ UNCHANGED ccdVars
    \/ StartDetection(t) \/ OpenDone(t) \/ Opened(t) \/ ccd_unlock_done(t)
    \/ tpm_sync_reset(t) \/ SyncResult(t)
    \/ rma_create_challenge(t)
    \/ Save(t) \/ Notify(t)

HooksStep ==
    \/ PpStep /\ UNCHANGED ccdVars
    \/ ccd_testlab_toggle \/ WipeStop \/ WipePolicy \/ WipeFails
    \/ factory_enable_deferred \/ FactoryReset
    \/ check_wp_battery_presence \/ MirrorRead \/ MirrorWrite

TpmStep ==
    TpmWipe \/ DisableReset \/ DisableLock \/ DisableWp \/ FwmpInform

Commands ==
    \/ \E src \in Sources :
          \/ ccd_open(src) \/ ccd_unlock(src) \/ ccd_lock(src)
          \/ get_challenge(src) \/ process_response(src)
    \/ ccd_password \/ ccd_password_fails
    \/ command_ccd_reset \/ command_ccd_set
    \/ TestlabOpen \/ TestlabChange
    \/ vc_factory_reset \/ ccd_disable_factory_mode
    \/ command_wp \/ command_bpforce \/ vc_set_wp
    \/ FwmpWrite \/ FwmpUndefine

Outside ==
    \/ physical_detect_press /\ UNCHANGED ccdVars
    \/ Tick /\ UNCHANGED ccdVars
    \/ BatteryChange \/ DevMode \/ ApReset \/ PowerLoss \/ DeepSleep

Next ==
    \/ \E t \in Tasks : TaskStep(t)
    \/ HooksStep \/ TpmStep \/ Commands \/ Outside

Spec == Init /\ [][Next]_vars

-----------------------------------------------------------------------------
(* Properties *)

Steps == {"idle", "alt", "capture", "timeout", "prompt", "press", "done",
          "finish", "callback", "pp_long", "pp_short", "pp_unlock", "sync",
          "sync_wipe", "sync_result", "wipe", "wiped", "policy", "opened",
          "unlocked", "factory", "save", "notify", "challenge", "df_reset",
          "df_lock", "df_wp", "wp_on", "wp_off",
          "write_on", "write_off", "fwmp"}

WpType == [asserted : BOOLEAN, forcing : BOOLEAN, fwmp : BOOLEAN,
           ccd : {"LOCKED", "UNLOCKED", "OPENED"}, pin : BOOLEAN]

\* Every variable has its type; the button is counted at most up to the presses asked for.
TypeOK ==
    /\ PpTypeOK
    /\ pc \in [Tasks -> Steps]
    /\ ccd.state \in {"LOCKED", "UNLOCKED", "OPENED"}
    /\ ccd.disabled \in BOOLEAN
    /\ \A c \in {ccd.config, ccd.nv} :
          /\ DOMAIN c = {"caps", "password", "flags"}
          /\ c.caps \in [Caps -> CapStates]
          /\ c.password \in BOOLEAN
          /\ c.flags \subseteq Flags
    /\ wp \in WpType
    /\ tpm \in [fwmp : BOOLEAN, dev : BOOLEAN, stopped : BOOLEAN]
    /\ wipe \in [result : BOOLEAN, old : SUBSET Tasks]
    /\ bat \in [present : BOOLEAN, forced : BOOLEAN, connect : BOOLEAN]
    /\ rma \in [code : BOOLEAN, tries : 0 .. MaxTries]
    /\ factory \in BOOLEAN
    /\ \A t \in Tasks : loc[t].next \in Steps /\ loc[t].seen \in WpType
    /\ env \in [commands : 0 .. MaxCommands, events : 0 .. MaxEvents, torn : BOOLEAN]

\* CCD opens, and factory mode begins, only when the TPM's data is erased,
\* unless the configuration says that it need not be: a wipe that fails, on
\* whichever task, opens nothing (ccd_open_done(), board_wipe_tpm()).
WipedBeforeOpen ==
    \A t \in Tasks : pc[t] \in {"opened", "factory"} => t \notin wipe.old

\* While the firmware management parameters in the TPM forbid unlocking, the
\* write protect signal is asserted, whatever the battery, the console and
\* the configuration want (set_wp_state(), board_fwmp_check_wp_policy()).
NothingDisablesWp ==
    tpm.fwmp /\ pc["TPM"] # "fwmp" => wp.fwmp /\ wp.asserted /\ wp.pin

\* The same, unless two tasks have updated the scratch register at the same
\* time (set_wp_state(), board_write_prop(), board_ccd_config_changed()).
FwmpKeepsWp == NothingDisablesWp \/ env.torn

\* The state that a deep sleep would keep is the current one once the hooks
\* have run, although hooks of several tasks run in any order, unless an
\* update of the register was lost (board_ccd_config_changed()).
SleepKeepsState ==
    (\A t \in Tasks : pc[t] # "notify") => wp.ccd = ccd.state \/ env.torn

\* What requires CCD to be opened is relaxed only while it is opened, or by
\* factory mode after the TPM's data was erased, or by a restart.
IfOpenedProtected ==
    [][\A c \in Caps :
          /\ raw_get_cap(ccd.config, c) = "IfOpened"
          /\ raw_get_cap(ccd'.config, c) # "IfOpened"
          => \/ ccd.state = "OPENED"
             \/ pc["HOOKS"] = "factory" /\ "HOOKS" \notin wipe.old
             \/ PowerLoss \/ DeepSleep \/ WipeFails]_vars
=============================================================================
