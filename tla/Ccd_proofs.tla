----------------------------- MODULE Ccd_proofs -----------------------------
(***************************************************************************)
(* Proofs about Ccd and PhysicalPresence for every number of presses, all  *)
(* intervals, and any number of commands, events and tries.                *)
(***************************************************************************)
EXTENDS Ccd, TLAPS

\* The types of the state of CCD, each variable as a set.
CcdStates == {"LOCKED", "UNLOCKED", "OPENED"}

Config == [caps : [Caps -> CapStates], password : BOOLEAN, flags : SUBSET Flags]

CcdType == [state : CcdStates, disabled : BOOLEAN, config : Config, nv : Config]

BatType == [present : BOOLEAN, forced : BOOLEAN, connect : BOOLEAN]

TpmType == [fwmp : BOOLEAN, dev : BOOLEAN, stopped : BOOLEAN]

WipeType == [result : BOOLEAN, old : SUBSET Tasks]

EnvType == [commands : Nat, events : Nat, torn : BOOLEAN]

\* The steps that a hook or a save returns to.
Nexts == {"idle", "finish", "df_reset", "df_lock", "df_wp"}

LocType == [next : Nexts, seen : WpType]

ControlTyped == pc \in [Tasks -> Steps] /\ loc \in [Tasks -> LocType]

DataTyped ==
    /\ ccd \in CcdType
    /\ wp \in WpType
    /\ tpm \in TpmType
    /\ wipe \in WipeType
    /\ bat \in BatType
    /\ env \in EnvType

----------------------------------------------------------------------------
(* Write protect.                                                          *)

\* The register and the signal agree with a note that the firmware management
\* parameters forbid unlocking.
Holds(w) == w \in WpType /\ (w.fwmp => w.asserted /\ w.pin)

\* r is w with another signal, which gives way to the parameters.
Resets(w, r) == Holds(r) /\ r.fwmp = w.fwmp /\ r.ccd = w.ccd

\* r is w after the parameters were looked at.
Notes(w, lock, r) ==
    /\ r \in WpType /\ r.fwmp = lock /\ r.ccd = w.ccd
    /\ Holds(w) => Holds(r)

\* Whether a flag is set is a truth value.
LEMMA FlagIsBoolean == ASSUME NEW x, NEW S PROVE (x \in S) \in BOOLEAN
OBVIOUS

\* set_wp_state() gives way to the firmware management parameters, and leaves
\* the other bits of the register alone.
LEMMA SetWp ==
    ASSUME NEW w \in WpType, NEW a \in BOOLEAN
    PROVE  Resets(w, set_wp_state(w, a))
BY DEF set_wp_state, WpType, Resets, Holds

\* So does force_write_protect() ...
LEMMA ForceWp ==
    ASSUME NEW w \in WpType, NEW force \in BOOLEAN, NEW en \in BOOLEAN,
           NEW battery \in BOOLEAN
    PROVE  Resets(w, force_write_protect(w, force, en, battery))
<1> DEFINE v == [w EXCEPT !.forcing = force]
<1>1. v \in WpType /\ v.fwmp = w.fwmp /\ v.ccd = w.ccd
  BY DEF WpType
<1>2. ASSUME NEW a \in BOOLEAN PROVE Resets(w, set_wp_state(v, a))
  <2> HIDE DEF v
  <2> QED
    BY <1>1, SetWp DEF Resets
<1> QED
  BY <1>2 DEF force_write_protect

\* ... and set_wp_follow_ccd_config().
LEMMA FollowConfig ==
    ASSUME NEW w \in WpType, NEW flags, NEW battery \in BOOLEAN
    PROVE  Resets(w, set_wp_follow_ccd_config(w, flags, battery))
<1>1. TRUE \in BOOLEAN /\ FALSE \in BOOLEAN /\ ("WP_ENABLED" \in flags) \in BOOLEAN
  BY FlagIsBoolean
<1> QED
  BY <1>1, ForceWp, Zenon DEF set_wp_follow_ccd_config

\* board_fwmp_check_wp_policy() takes over what the parameters say, and asserts
\* the signal if they forbid unlocking.  It skips that when the signal and the
\* register agree already.
LEMMA CheckPolicy ==
    ASSUME NEW w \in WpType, NEW lock \in BOOLEAN, NEW battery \in BOOLEAN
    PROVE  Notes(w, lock, board_fwmp_check_wp_policy(w, lock, battery))
<1> DEFINE noted == [w EXCEPT !.fwmp = lock]
<1>1. noted \in WpType /\ noted.fwmp = lock /\ noted.ccd = w.ccd
      /\ noted.asserted = w.asserted /\ noted.pin = w.pin
  BY DEF WpType
<1>2. board_fwmp_check_wp_policy(w, lock, battery) =
        IF lock /\ (~w.pin \/ lock # w.fwmp)
          THEN force_write_protect(noted, TRUE, TRUE, battery) ELSE noted
  BY Zenon DEF board_fwmp_check_wp_policy
<1>3. Resets(noted, force_write_protect(noted, TRUE, TRUE, battery))
  BY <1>1, ForceWp
<1>4. w.fwmp \in BOOLEAN /\ w.pin \in BOOLEAN
  BY DEF WpType
<1> HIDE DEF noted
<1>5. CASE lock /\ (~w.pin \/ lock # w.fwmp)
  BY <1>1, <1>2, <1>3, <1>5 DEF Resets, Notes, Holds
<1>6. CASE ~(lock /\ (~w.pin \/ lock # w.fwmp))
  <2>1. lock => w.fwmp
    BY <1>4, <1>6
  <2> QED
    BY <1>1, <1>2, <1>4, <1>6, <2>1 DEF Holds, Notes
<1> QED
  BY <1>5, <1>6

\* The same for the update of all policies, ...
LEMMA UpdatePolicies ==
    ASSUME NEW w \in WpType, NEW lock \in BOOLEAN, NEW flags,
           NEW battery \in BOOLEAN
    PROVE  Notes(w, lock, board_fwmp_update_policies(w, lock, flags, battery))
<1> DEFINE checked == board_fwmp_check_wp_policy(w, lock, battery)
<1>1. Notes(w, lock, checked)
  BY CheckPolicy, Zenon
<1>2. board_fwmp_update_policies(w, lock, flags, battery) =
        IF w.fwmp /\ ~lock
          THEN set_wp_follow_ccd_config(checked, flags, battery) ELSE checked
  BY Zenon DEF board_fwmp_update_policies
<1> HIDE DEF checked
<1>3. Resets(checked, set_wp_follow_ccd_config(checked, flags, battery))
  BY <1>1, FollowConfig DEF Notes
<1>4. Notes(w, lock, set_wp_follow_ccd_config(checked, flags, battery))
  BY <1>1, <1>3 DEF Notes, Resets, Holds
<1> QED
  BY <1>1, <1>2, <1>4, Zenon

\* ... and for the start of the firmware, which also keeps the saved CCD state.
LEMMA InitWp ==
    ASSUME NEW w \in WpType, NEW lock \in BOOLEAN, NEW flags,
           NEW battery \in BOOLEAN, NEW resumed \in BOOLEAN
    PROVE  Notes(w, lock, init_wp_state(w, lock, flags, battery, resumed))
<1> DEFINE checked == board_fwmp_check_wp_policy(w, lock, battery)
           value == IF checked.forcing THEN checked.asserted ELSE battery
<1>1. Notes(w, lock, checked)
  BY CheckPolicy, Zenon
<1>2. init_wp_state(w, lock, flags, battery, resumed) =
        IF checked.fwmp THEN set_wp_state(checked, TRUE)
        ELSE IF ~resumed THEN set_wp_follow_ccd_config(checked, flags, battery)
        ELSE set_wp_state(checked, value)
  BY Zenon DEF init_wp_state
<1> HIDE DEF checked
<1>3. value \in BOOLEAN
  BY <1>1 DEF WpType, Notes, Holds
<1> HIDE DEF value
<1>4. Resets(checked, set_wp_follow_ccd_config(checked, flags, battery))
      /\ Resets(checked, set_wp_state(checked, TRUE))
      /\ Resets(checked, set_wp_state(checked, value))
  BY <1>1, <1>3, FollowConfig, SetWp DEF Notes
<1>5. \A r : Resets(checked, r) => Notes(w, lock, r)
  BY <1>1 DEF Notes, Resets, Holds
<1> QED
  BY <1>2, <1>4, <1>5, Zenon

----------------------------------------------------------------------------
(* The steps of the tasks.                                                 *)

\* Task t is at step s after the step of the system.  Of the other tasks only
\* the console can be affected, when it hands a command to the TPM task or
\* gets the answer.
Moves(t, s) ==
    /\ pc' \in [Tasks -> Steps]
    /\ pc'[t] = s
    /\ \A u \in Tasks \ {t} :
          \/ pc'[u] = pc[u]
          \/ u = "CONSOLE" /\ {pc[u], pc'[u]} \subseteq {"idle", "alt"}

\* Task t has new locals, next among them.
Remembers(t, next) ==
    /\ loc' \in [Tasks -> LocType]
    /\ loc'[t].next = next
    /\ \A u \in Tasks \ {t} : loc'[u] = loc[u]

\* What goes on is one of the steps there are.
LEMMA NextsAreSteps == Nexts \subseteq Steps
BY DEF Nexts, Steps

\* The cleared register is a register.
LEMMA ClearedIsTyped == ClearedRegister \in WpType
BY DEF ClearedRegister, WpType

\* What a task remembers between two steps has its type.
LEMMA LocalsTyped ==
    ASSUME wp \in WpType, NEW s, NEW next \in Nexts
    PROVE  /\ Locals(s, next) \in LocType /\ Locals(s, next).next = next
           /\ s \in {"notify", "write_on", "write_off"} => Locals(s, next).seen = wp
           /\ NoLocals \in LocType /\ NoLocals.next = "idle"
BY ClearedIsTyped DEF Locals, NoLocals, LocType, Nexts

\* GoTo() and Return() move one task.
LEMMA GoToMoves ==
    ASSUME ControlTyped, NEW t \in Tasks, NEW s \in Steps, GoTo(t, s)
    PROVE  Moves(t, s)
BY DEF ControlTyped, GoTo, Moves

\* The end of a command frees the console that waits for it.
LEMMA ReturnMoves ==
    ASSUME ControlTyped, NEW t \in Tasks, Return(t)
    PROVE  Moves(t, "idle")
<1>1. "CONSOLE" \in Tasks /\ "idle" \in Steps
  BY DEF Tasks, Steps
<1>2. pc' \in [Tasks -> Steps]
  BY <1>1 DEF ControlTyped, Return
<1>3. pc'[t] = "idle"
  BY <1>1 DEF ControlTyped, Return
<1>4. \A u \in Tasks \ {t} :
          \/ pc'[u] = pc[u]
          \/ u = "CONSOLE" /\ pc[u] = "alt" /\ pc'[u] = "idle"
  BY <1>1 DEF ControlTyped, Return
<1> QED
  BY <1>2, <1>3, <1>4 DEF Moves

\* Then() and Continue() also set what the task remembers.
LEMMA ThenMoves ==
    ASSUME ControlTyped, wp \in WpType, NEW t \in Tasks, NEW s \in Steps,
           NEW next \in Nexts, Then(t, s, next)
    PROVE  Moves(t, s) /\ Remembers(t, next)
<1>1. Moves(t, s)
  BY GoToMoves DEF Then
<1>2. Remembers(t, next)
  BY LocalsTyped DEF Then, ControlTyped, Remembers
<1> QED
  BY <1>1, <1>2

\* A step that has a next one goes on there and forgets it.
LEMMA ContinueMoves ==
    ASSUME ControlTyped, wp \in WpType, NEW t \in Tasks, Continue(t)
    PROVE  Moves(t, loc[t].next) /\ Remembers(t, "idle")
<1>1. loc[t].next \in Nexts
  BY DEF ControlTyped, LocType
<1>2. Moves(t, loc[t].next)
  BY <1>1, NextsAreSteps, GoToMoves, ReturnMoves DEF Continue
<1>3. "idle" \in Nexts
  BY DEF Nexts
<1>4. Remembers(t, "idle")
  BY <1>3, LocalsTyped DEF Continue, ControlTyped, Remembers
<1> QED
  BY <1>2, <1>4

\* A command moves the task that runs it.
LEMMA BeginMoves ==
    ASSUME ControlTyped, wp \in WpType, NEW src \in Sources, Receives(src),
           NEW s \in Steps, Begin(src, s)
    PROVE  /\ Runner(src) \in {"HOOKS", "TPM"} /\ pc[Runner(src)] = "idle"
           /\ Moves(Runner(src), s) /\ Remembers(Runner(src), "idle")
<1>1. Runner(src) \in {"HOOKS", "TPM"} /\ Runner(src) \in Tasks
      /\ "CONSOLE" \in Tasks /\ "alt" \in Steps
  BY DEF Runner, Tasks, Steps
<1>2. pc[Runner(src)] = "idle" /\ (src = "alt" => pc["CONSOLE"] = "idle")
  BY DEF Receives, Runner, At, Sources
<1>3. pc' \in [Tasks -> Steps] /\ pc'[Runner(src)] = s
  BY <1>1 DEF ControlTyped, Begin
<1>4. \A u \in Tasks \ {Runner(src)} :
          \/ pc'[u] = pc[u]
          \/ u = "CONSOLE" /\ pc[u] = "idle" /\ pc'[u] = "alt"
  BY <1>1, <1>2 DEF ControlTyped, Begin
<1>5. Remembers(Runner(src), "idle")
  <2>1. "idle" \in Nexts
    BY DEF Nexts
  <2> QED
    BY <1>1, <2>1, LocalsTyped DEF Begin, ControlTyped, Remembers
<1> QED
  BY <1>1, <1>2, <1>3, <1>4, <1>5 DEF Moves

\* ccd_set_state() moves its task to the hook when the state changes,
\* otherwise past it.
LEMMA SetStateMoves ==
    ASSUME ControlTyped, wp \in WpType, ccd \in CcdType, NEW t \in Tasks,
           NEW state \in CcdStates, NEW next \in Nexts,
           ccd_set_state(t, state, next)
    PROVE  /\ ccd' \in CcdType /\ ccd'.state = state /\ ccd'.config = ccd.config
           /\ \/ Moves(t, "notify") /\ Remembers(t, next)
              \/ /\ state = ccd.state /\ Moves(t, next)
                 /\ UNCHANGED loc \/ Remembers(t, "idle")
<1>1. ccd' \in CcdType /\ ccd'.state = state /\ ccd'.config = ccd.config
  BY DEF ccd_set_state, CcdType
<1>2. "notify" \in Steps /\ next \in Steps /\ "idle" \in Nexts
  BY DEF Steps, Nexts
<1>3. CASE state # ccd.state
  BY <1>1, <1>2, <1>3, ThenMoves DEF ccd_set_state
<1>4. CASE state = ccd.state /\ next = "idle"
  BY <1>1, <1>4, ReturnMoves DEF ccd_set_state
<1>5. CASE state = ccd.state /\ next # "idle"
  BY <1>1, <1>2, <1>5, ThenMoves DEF ccd_set_state
<1> QED
  BY <1>3, <1>4, <1>5

----------------------------------------------------------------------------
(* The data.                                                               *)

Typed == ControlTyped /\ DataTyped

\* The battery is there or not, and the configuration may say so.
LEMMA BatteryTyped ==
    ASSUME NEW b \in BatType, NEW flags
    PROVE  /\ board_battery_is_present(b) \in BOOLEAN
           /\ set_bp_follow_ccd_config(b, flags) \in BatType
<1>1. board_battery_is_present(b) \in BOOLEAN
  BY DEF BatType, board_battery_is_present
<1>2. ("BATT_AT_BOOT" \in flags) \in BOOLEAN /\ ("BATT_CONNECT" \in flags) \in BOOLEAN
  BY FlagIsBoolean
<1>3. set_bp_follow_ccd_config(b, flags) \in BatType
  BY <1>2 DEF BatType, set_bp_follow_ccd_config
<1> QED
  BY <1>1, <1>3

\* The configurations that a reset leaves.
LEMMA ConfigsTyped ==
    /\ DefaultConfig \in Config /\ FactoryConfig \in Config /\ UserConfig \in Config
    /\ ccd \in CcdType =>
          /\ \A base \in Config : ResetConfig(base) \in Config
          /\ ResetUnlocked \in Config
<1>1. DefaultConfig \in Config
  BY DEF DefaultConfig, Config, CapStates
<1>2. FactoryConfig \in Config
  BY DEF FactoryConfig, Config, CapStates, Flags
<1>3. UserConfig \in Config
  <2>1. "UnlockNoShortPP" \in Caps /\ DefaultConfig.caps \in [Caps -> CapStates]
    BY DEF Caps, DefaultConfig, CapStates
  <2>2. [DefaultConfig.caps EXCEPT !["UnlockNoShortPP"] = "UnlessLocked"]
          \in [Caps -> CapStates]
    BY <2>1 DEF CapStates
  <2> QED
    BY <2>2 DEF UserConfig, Config, Flags
<1>4. ASSUME ccd \in CcdType, NEW base \in Config
      PROVE  ResetConfig(base) \in Config
  BY <1>4 DEF ResetConfig, Config, CcdType, Flags
<1>5. ASSUME ccd \in CcdType PROVE ResetUnlocked \in Config
  <2> DEFINE c == ccd.config
             caps == [x \in Caps |-> IF raw_get_cap(c, x) = "IfOpened"
                                       THEN c.caps[x] ELSE "Default"]
             flags == c.flags \ {"PASSWORD_UNLOCKED"}
             password == c.password /\ "PASSWORD_UNLOCKED" \notin c.flags
  <2>1. caps \in [Caps -> CapStates]
    BY <1>5 DEF Config, CcdType, CapStates
  <2>2. flags \in SUBSET Flags
    BY <1>5 DEF Config, CcdType
  <2>3. password \in BOOLEAN
    OBVIOUS
  <2>4. ResetUnlocked = [caps |-> caps, password |-> password, flags |-> flags]
    BY DEF ResetUnlocked
  <2> HIDE DEF caps, password, flags
  <2> QED
    BY <2>1, <2>2, <2>3, <2>4 DEF Config
<1> QED
  BY <1>1, <1>2, <1>3, <1>4, <1>5

\* A change of the configuration leaves the CCD state alone.
LEMMA SetConfigTyped ==
    ASSUME ccd \in CcdType, NEW config \in Config, SetConfig(config)
    PROVE  ccd' \in CcdType /\ ccd'.state = ccd.state /\ ccd'.config = config
BY DEF SetConfig, CcdType

\* Inputs are counted, and nothing else.
LEMMA InputTyped ==
    ASSUME env \in EnvType, Input \/ Event
    PROVE  env' \in EnvType /\ env'.torn = env.torn
BY DEF Input, Event, EnvType

\* Whatever follows the configuration keeps the register's note.
LEMMA WpFollowTyped ==
    ASSUME wp \in WpType, bat \in BatType, NEW flags, board_wp_follow_ccd_config(flags)
    PROVE  bat' \in BatType /\ Resets(wp, wp')
BY BatteryTyped, FollowConfig DEF board_wp_follow_ccd_config

\* The firmware starts in the state that its register, its configuration and
\* the parameters say.
LEMMA BootEffect ==
    ASSUME DataTyped, NEW register \in WpType, NEW resumed \in BOOLEAN,
           NEW sameVersion \in BOOLEAN, Boot(register, resumed, sameVersion)
    PROVE  /\ ControlTyped' /\ \A t \in Tasks : pc'[t] = "idle"
           /\ ccd' \in CcdType /\ bat' \in BatType
           /\ wp' \in WpType /\ wp'.fwmp = tpm.fwmp /\ wp'.ccd = ccd'.state
           /\ Holds(register) => Holds(wp')
           /\ tpm' \in TpmType /\ tpm'.fwmp = tpm.fwmp
           /\ wipe' = [result |-> TRUE, old |-> {}]
<1>1. ControlTyped' /\ \A t \in Tasks : pc'[t] = "idle"
  <2>1. NoLocals \in LocType /\ "idle" \in Steps
    BY LocalsTyped, ClearedIsTyped DEF NoLocals, LocType, Nexts, Steps
  <2> QED
    BY <2>1 DEF Boot, ControlTyped
<1>2. tpm' \in TpmType /\ tpm'.fwmp = tpm.fwmp
      /\ wipe' = [result |-> TRUE, old |-> {}]
  BY DEF Boot, DataTyped, TpmType
<1>3. PICK disabled \in BOOLEAN :
        LET config == ccd_load_config(sameVersion)
            state == IF resumed /\ ~disabled THEN register.ccd ELSE "LOCKED"
            new == [state |-> state, disabled |-> disabled,
                    config |-> config, nv |-> config]
            b == set_bp_follow_ccd_config([bat EXCEPT !.forced = FALSE],
                                          GetFlags(new))
        IN  /\ ccd' = new
            /\ bat' = b
            /\ wp' = init_wp_state([register EXCEPT !.ccd = state, !.pin = TRUE],
                                   tpm.fwmp, GetFlags(new),
                                   board_battery_is_present(b), resumed)
  BY DEF Boot
<1> DEFINE state == IF resumed /\ ~disabled THEN register.ccd ELSE "LOCKED"
           start == [register EXCEPT !.ccd = state, !.pin = TRUE]
<1>4. state \in CcdStates
  BY DEF WpType, CcdStates
<1>5. ccd_load_config(sameVersion) \in Config
  BY ConfigsTyped DEF ccd_load_config, DataTyped, CcdType
<1>6. ccd' \in CcdType /\ ccd'.state = state
  BY <1>3, <1>4, <1>5 DEF CcdType
<1>7. [bat EXCEPT !.forced = FALSE] \in BatType
  BY DEF DataTyped, BatType
<1>8. bat' \in BatType /\ board_battery_is_present(bat') \in BOOLEAN
  BY <1>3, <1>7, BatteryTyped
<1>9. start \in WpType /\ start.ccd = state /\ (Holds(register) => Holds(start))
  BY <1>4 DEF WpType, CcdStates, Holds
<1>10. wp' = init_wp_state(start, tpm.fwmp, GetFlags(ccd'),
                           board_battery_is_present(bat'), resumed)
  BY <1>3
<1>11. tpm.fwmp \in BOOLEAN
  BY DEF DataTyped, TpmType
<1> HIDE DEF start, state
<1>12. Notes(start, tpm.fwmp, wp')
  BY <1>8, <1>9, <1>10, <1>11, InitWp
<1> QED
  BY <1>1, <1>2, <1>6, <1>8, <1>9, <1>12 DEF Notes

\* The tasks stay on the steps there are.
LEMMA ControlStep ==
    ASSUME Typed, [Next]_vars
    PROVE  ControlTyped'
<1> USE DEF Typed
<1>1. ControlTyped /\ wp \in WpType /\ ccd \in CcdType
  BY DEF DataTyped
<1>2. \A t \in Tasks, s \in Steps :
        Moves(t, s) => /\ Remembers(t, "idle") => ControlTyped'
                       /\ \A next \in Nexts : Remembers(t, next) => ControlTyped'
                       /\ UNCHANGED loc => ControlTyped'
  BY DEF Moves, Remembers, ControlTyped
<1>3. UNCHANGED <<pc, loc>> => ControlTyped'
  BY DEF ControlTyped
<1>4. \A t \in Tasks : loc[t].next \in Nexts
  BY DEF ControlTyped, LocType
<1>5. Tasks = {"HOOKS", "TPM", "CONSOLE"} /\ Nexts \subseteq Steps
      /\ Sources = {"ap", "alt", "usb"} /\ CcdStates = {"LOCKED", "UNLOCKED", "OPENED"}
  BY NextsAreSteps DEF Tasks, Sources, CcdStates
<1> USE <1>1, <1>2, <1>3, <1>4, <1>5 DEF Steps, Nexts
<1>6. ASSUME NEW t \in Tasks, StartCapture(t) /\ UNCHANGED ccdVars
      PROVE  ControlTyped'
  BY <1>6, GoToMoves DEF StartCapture, ccdVars
<1>7. ASSUME NEW t \in Tasks, StartTimeout(t) /\ UNCHANGED ccdVars
      PROVE  ControlTyped'
  BY <1>7, ReturnMoves DEF StartTimeout, ccdVars
<1>8. ASSUME NEW t \in Tasks, StartDetection(t) PROVE ControlTyped'
  BY <1>8, GoToMoves, ReturnMoves DEF StartDetection, physical_detect_start,
     ccdVars
<1>9. ASSUME NEW t \in Tasks, OpenDone(t) PROVE ControlTyped'
  BY <1>9, ThenMoves DEF OpenDone, ccdVars
<1>10. ASSUME NEW t \in Tasks, Opened(t) PROVE ControlTyped'
  BY <1>10, SetStateMoves DEF Opened, ccdVars
<1>11. ASSUME NEW t \in Tasks, ccd_unlock_done(t) PROVE ControlTyped'
  BY <1>11, SetStateMoves DEF ccd_unlock_done, ccdVars
<1>12. ASSUME NEW t \in Tasks, tpm_sync_reset(t) PROVE ControlTyped'
  BY <1>12, GoToMoves DEF tpm_sync_reset, ccdVars
<1>13. ASSUME NEW t \in Tasks, SyncResult(t) PROVE ControlTyped'
  BY <1>13, GoToMoves, ReturnMoves DEF SyncResult, ccdVars
<1>14. ASSUME NEW t \in Tasks, rma_create_challenge(t) PROVE ControlTyped'
  BY <1>14, ReturnMoves DEF rma_create_challenge, ccdVars
<1>15. ASSUME NEW t \in Tasks, Save(t) PROVE ControlTyped'
  <2>1. CASE ccd' = [ccd EXCEPT !.nv = ccd.config] /\ Then(t, "notify", loc[t].next)
    BY <2>1, ThenMoves
  <2>2. CASE Return(t) /\ loc' = [loc EXCEPT ![t] = NoLocals]
    BY <2>2, ReturnMoves, LocalsTyped DEF Moves, ControlTyped
  <2>3. CASE Continue(t)
    BY <2>3, ContinueMoves
  <2> QED
    BY <1>15, <2>1, <2>2, <2>3 DEF Save
<1>16. ASSUME NEW t \in Tasks, Notify(t) PROVE ControlTyped'
  BY <1>16, ContinueMoves DEF Notify, ccdVars
<1>17. ASSUME PromptCall /\ UNCHANGED ccdVars PROVE ControlTyped'
  BY <1>17, GoToMoves DEF PromptCall, Call, ccdVars
<1>18. ASSUME physical_detect_prompt /\ UNCHANGED ccdVars PROVE ControlTyped'
  BY <1>18, ReturnMoves DEF physical_detect_prompt, ccdVars
<1>19. ASSUME PressCall /\ UNCHANGED ccdVars PROVE ControlTyped'
  BY <1>19, GoToMoves DEF PressCall, Call, ccdVars
<1>20. ASSUME physical_detect_check_press /\ UNCHANGED ccdVars
       PROVE  ControlTyped'
  BY <1>20, ReturnMoves DEF physical_detect_check_press, ccdVars
<1>21. ASSUME DoneCall /\ UNCHANGED ccdVars PROVE ControlTyped'
  BY <1>21, GoToMoves DEF DoneCall, Call, ccdVars
<1>22. ASSUME physical_detect_done /\ UNCHANGED ccdVars PROVE ControlTyped'
  BY <1>22, GoToMoves DEF physical_detect_done, ccdVars
<1>23. ASSUME DoneFinish /\ UNCHANGED ccdVars PROVE ControlTyped'
  BY <1>23, ReturnMoves DEF DoneFinish, ccdVars
<1>24. ASSUME ccd_testlab_toggle PROVE ControlTyped'
  BY <1>24, ThenMoves DEF ccd_testlab_toggle, ccdVars
<1>25. ASSUME WipeStop PROVE ControlTyped'
  BY <1>25, GoToMoves DEF WipeStop, ccdVars
<1>26. ASSUME WipePolicy PROVE ControlTyped'
  BY <1>26, GoToMoves DEF WipePolicy, ccdVars
<1>27. ASSUME factory_enable_deferred PROVE ControlTyped'
  BY <1>27, ThenMoves DEF factory_enable_deferred, ccdVars
<1>28. ASSUME FactoryReset PROVE ControlTyped'
  BY <1>28, ThenMoves DEF FactoryReset, ccdVars
<1>29. ASSUME check_wp_battery_presence PROVE ControlTyped'
  BY <1>29, GoToMoves DEF check_wp_battery_presence, ccdVars
<1>30. ASSUME MirrorRead PROVE ControlTyped'
  BY <1>30, ThenMoves DEF MirrorRead, ccdVars
<1>31. ASSUME MirrorWrite PROVE ControlTyped'
  BY <1>31, ContinueMoves DEF MirrorWrite, ccdVars
<1>32. ASSUME TpmWipe PROVE ControlTyped'
  BY <1>32, GoToMoves DEF TpmWipe, ccdVars
<1>33. ASSUME DisableReset PROVE ControlTyped'
  BY <1>33, ThenMoves DEF DisableReset, ResetCommand, ccdVars
<1>34. ASSUME DisableLock PROVE ControlTyped'
  BY <1>34, SetStateMoves DEF DisableLock, ccdVars
<1>35. ASSUME DisableWp PROVE ControlTyped'
  BY <1>35, ReturnMoves DEF DisableWp, ccdVars
<1>36. ASSUME FwmpInform PROVE ControlTyped'
  BY <1>36, ReturnMoves DEF FwmpInform, ccdVars
<1>37. ASSUME NEW src \in Sources, ccd_open(src) PROVE ControlTyped'
  BY <1>37, BeginMoves DEF ccd_open, AbortOr, Command, OpenStep, ccdVars
<1>38. ASSUME NEW src \in Sources, ccd_unlock(src) PROVE ControlTyped'
  BY <1>38, BeginMoves DEF ccd_unlock, AbortOr, Command, ccdVars
<1>39. ASSUME NEW src \in Sources, ccd_lock(src) PROVE ControlTyped'
  BY <1>39, BeginMoves DEF ccd_lock, Command, ccdVars
<1>40. ASSUME NEW src \in Sources, get_challenge(src) PROVE ControlTyped'
  BY <1>40, BeginMoves DEF get_challenge, Command, ccdVars
<1>41. ASSUME ccd_password PROVE ControlTyped'
  BY <1>41, BeginMoves DEF ccd_password, Command, ccdVars
<1>42. ASSUME command_ccd_reset PROVE ControlTyped'
  BY <1>42, ThenMoves DEF command_ccd_reset, ResetCommand, ccdVars
<1>43. ASSUME command_ccd_set PROVE ControlTyped'
  BY <1>43, ThenMoves DEF command_ccd_set, ccdVars
<1>44. ASSUME TestlabOpen PROVE ControlTyped'
  BY <1>44, SetStateMoves DEF TestlabOpen, ccdVars
<1>45. ASSUME TestlabChange PROVE ControlTyped'
  BY <1>45, GoToMoves DEF TestlabChange, physical_detect_start, ccdVars
<1>46. ASSUME ccd_disable_factory_mode PROVE ControlTyped'
  BY <1>46, SetStateMoves DEF ccd_disable_factory_mode, ccdVars
<1>47. ASSUME command_wp PROVE ControlTyped'
  BY <1>47, ThenMoves DEF command_wp, ccdVars
<1>48. ASSUME command_bpforce PROVE ControlTyped'
  BY <1>48, ThenMoves DEF command_bpforce, ccdVars
<1>49. ASSUME FwmpWrite PROVE ControlTyped'
  BY <1>49, BeginMoves DEF FwmpWrite, Command, ccdVars
<1>50. CASE WipeFails \/ PowerLoss \/ DeepSleep
  BY <1>50, BootEffect, ClearedIsTyped DEF WipeFails, PowerLoss, DeepSleep,
     DataTyped
<1>51. CASE UNCHANGED <<pc, loc>>
  BY <1>51
<1> HIDE DEF Steps, Nexts
<1> QED
  BY <1>6, <1>7, <1>8, <1>9, <1>10, <1>11, <1>12, <1>13, <1>14, <1>15, <1>16,
     <1>17, <1>18, <1>19, <1>20, <1>21, <1>22, <1>23, <1>24, <1>25, <1>26,
     <1>27, <1>28, <1>29, <1>30, <1>31, <1>32, <1>33, <1>34, <1>35, <1>36,
     <1>37, <1>38, <1>39, <1>40, <1>41, <1>42, <1>43, <1>44, <1>45, <1>46,
     <1>47, <1>48, <1>49, <1>50, <1>51 DEF Next, TaskStep, HooksStep, PpStep,
     TpmStep, Commands, Outside, process_response, ccd_password_fails,
     vc_factory_reset, vc_set_wp, FwmpUndefine, physical_detect_press, Tick,
     BatteryChange, DevMode, ApReset, vars, ccdVars

\* A wipe ends in a result; no data is left if it succeeds, and it never makes
\* up parameters.
LEMMA EraseEffect ==
    ASSUME DataTyped, NEW ok \in BOOLEAN, Erase(ok)
    PROVE  /\ tpm' \in TpmType /\ (tpm'.fwmp => tpm.fwmp)
           /\ wipe' \in WipeType /\ wipe'.result = ok
           /\ wipe'.old = IF ok THEN {} ELSE wipe.old
<1>1. PICK f \in {FALSE, tpm.fwmp}, d \in {FALSE, tpm.dev} :
          tpm' = [fwmp |-> f, dev |-> d, stopped |-> FALSE]
  BY DEF Erase
<1>2. f \in BOOLEAN /\ d \in BOOLEAN /\ (f => tpm.fwmp)
  BY DEF DataTyped, TpmType
<1>3. tpm' \in TpmType /\ (tpm'.fwmp => tpm.fwmp)
  BY <1>1, <1>2 DEF TpmType
<1>4. wipe' = [result |-> ok, old |-> IF ok THEN {} ELSE wipe.old]
  BY DEF Erase
<1>5. wipe' \in WipeType /\ wipe'.result = ok
      /\ wipe'.old = IF ok THEN {} ELSE wipe.old
  BY <1>4 DEF DataTyped, WipeType
<1> QED
  BY <1>3, <1>5

\* The inputs that are left stay numbers, and a lost update is not forgotten.
LEMMA EnvStep ==
    ASSUME Typed, [Next]_vars
    PROVE  env' \in EnvType /\ (env.torn => env'.torn)
<1>1. CASE Input \/ Event
  BY <1>1, InputTyped DEF Typed, DataTyped
<1>2. ASSUME NEW t \in Tasks, Notify(t)
      PROVE  env' \in EnvType /\ (env.torn => env'.torn)
  BY <1>2 DEF Notify, WriteBack, Typed, DataTyped, EnvType
<1>3. ASSUME MirrorWrite PROVE env' \in EnvType /\ (env.torn => env'.torn)
  BY <1>3 DEF MirrorWrite, WriteBack, Typed, DataTyped, EnvType
<1>4. ASSUME ccd_password_fails
      PROVE  env' \in EnvType /\ (env.torn => env'.torn)
  BY <1>4 DEF ccd_password_fails, Typed, DataTyped, EnvType
<1>5. CASE WipeFails \/ UNCHANGED env
  BY <1>5 DEF WipeFails, Typed, DataTyped, EnvType
<1> QED
  BY <1>1, <1>2, <1>3, <1>4, <1>5 DEF Next, TaskStep, HooksStep, PpStep,
     TpmStep, Commands, Outside, StartCapture, StartTimeout, StartDetection,
     OpenDone, Opened, ccd_unlock_done, tpm_sync_reset, SyncResult,
     rma_create_challenge, Save, PromptCall, physical_detect_prompt,
     PressCall, physical_detect_check_press, DoneCall, physical_detect_done,
     DoneFinish, ccd_testlab_toggle, WipeStop, WipePolicy, WipeFails,
     factory_enable_deferred, FactoryReset, check_wp_battery_presence,
     MirrorRead, TpmWipe, DisableReset, DisableLock, DisableWp, FwmpInform,
     ccd_open, ccd_unlock, ccd_lock, get_challenge, process_response,
     ccd_password, command_ccd_reset, ResetCommand, ccd_reset_config,
     command_ccd_set, TestlabOpen,
     TestlabChange, vc_factory_reset, ccd_disable_factory_mode, command_wp,
     command_bpforce, vc_set_wp, FwmpWrite, FwmpUndefine,
     physical_detect_press, Tick, BatteryChange, DevMode, ApReset, PowerLoss,
     DeepSleep, vars, ccdVars, Command, Console

\* The battery.
LEMMA BatStep ==
    ASSUME Typed, [Next]_vars
    PROVE  bat' \in BatType
<1>1. CASE \E flags : board_wp_follow_ccd_config(flags)
  BY <1>1, WpFollowTyped DEF Typed, DataTyped
<1>2. ASSUME command_bpforce PROVE bat' \in BatType
  BY <1>2 DEF command_bpforce, Typed, DataTyped, BatType
<1>3. ASSUME BatteryChange PROVE bat' \in BatType
  BY <1>3 DEF BatteryChange, Typed, DataTyped, BatType
<1>4. CASE WipeFails \/ PowerLoss \/ DeepSleep
  BY <1>4, BootEffect, ClearedIsTyped DEF WipeFails, PowerLoss, DeepSleep,
     Typed, DataTyped
<1>5. CASE UNCHANGED bat
  BY <1>5 DEF Typed, DataTyped
<1> QED
  BY <1>1, <1>2, <1>3, <1>4, <1>5 DEF Next, TaskStep, HooksStep, PpStep,
     TpmStep, Commands, Outside, StartCapture, StartTimeout, StartDetection,
     OpenDone, Opened, ccd_unlock_done, tpm_sync_reset, SyncResult,
     rma_create_challenge, Save, Notify, PromptCall, physical_detect_prompt,
     PressCall, physical_detect_check_press, DoneCall, physical_detect_done,
     DoneFinish, ccd_testlab_toggle, WipeStop, WipePolicy,
     factory_enable_deferred, FactoryReset, check_wp_battery_presence,
     MirrorRead, MirrorWrite, TpmWipe, DisableReset, DisableLock, DisableWp,
     FwmpInform, ccd_open, ccd_unlock, ccd_lock, get_challenge,
     process_response, ccd_password, ccd_password_fails, command_ccd_reset,
     ResetCommand, ccd_reset_config,
     command_ccd_set, TestlabOpen, TestlabChange, vc_factory_reset,
     ccd_disable_factory_mode, command_wp, vc_set_wp, FwmpWrite, FwmpUndefine,
     physical_detect_press, Tick, DevMode, ApReset, vars, ccdVars, Command,
     Console

\* The TPM's data.
LEMMA TpmStepTyped ==
    ASSUME Typed, [Next]_vars
    PROVE  tpm' \in TpmType
<1>1. CASE \E ok \in BOOLEAN : Erase(ok)
  BY <1>1, EraseEffect DEF Typed
<1>2. ASSUME WipeStop PROVE tpm' \in TpmType
  BY <1>2 DEF WipeStop, Typed, DataTyped, TpmType
<1>3. ASSUME FwmpWrite PROVE tpm' \in TpmType
  BY <1>3 DEF FwmpWrite, Typed, DataTyped, TpmType
<1>4. ASSUME FwmpUndefine PROVE tpm' \in TpmType
  BY <1>4 DEF FwmpUndefine, Typed, DataTyped, TpmType
<1>5. ASSUME DevMode PROVE tpm' \in TpmType
  BY <1>5 DEF DevMode, Typed, DataTyped, TpmType
<1>6. ASSUME ApReset PROVE tpm' \in TpmType
  BY <1>6 DEF ApReset, Typed, DataTyped, TpmType
<1>7. CASE WipeFails \/ PowerLoss \/ DeepSleep
  BY <1>7, BootEffect, ClearedIsTyped DEF WipeFails, PowerLoss, DeepSleep,
     Typed, DataTyped
<1>8. CASE UNCHANGED tpm
  BY <1>8 DEF Typed, DataTyped
<1> QED
  BY <1>1, <1>2, <1>3, <1>4, <1>5, <1>6, <1>7, <1>8 DEF Next, TaskStep,
     HooksStep, PpStep, TpmStep, Commands, Outside, StartCapture,
     StartTimeout, StartDetection, OpenDone, Opened, ccd_unlock_done,
     tpm_sync_reset, SyncResult, rma_create_challenge, Save, Notify,
     PromptCall, physical_detect_prompt, PressCall,
     physical_detect_check_press, DoneCall, physical_detect_done, DoneFinish,
     ccd_testlab_toggle, WipePolicy, factory_enable_deferred, FactoryReset,
     check_wp_battery_presence, MirrorRead, MirrorWrite, TpmWipe,
     DisableReset, DisableLock, DisableWp, FwmpInform, ccd_open, ccd_unlock,
     ccd_lock, get_challenge, process_response, ccd_password,
     ccd_password_fails, command_ccd_reset, command_ccd_set, TestlabOpen,
     TestlabChange, vc_factory_reset, ccd_disable_factory_mode, command_wp,
     command_bpforce, vc_set_wp, physical_detect_press, Tick, BatteryChange,
     vars, ccdVars, Command, Console

\* The wipe.
LEMMA WipeStepTyped ==
    ASSUME Typed, [Next]_vars
    PROVE  wipe' \in WipeType
<1>1. CASE \E ok \in BOOLEAN : Erase(ok)
  BY <1>1, EraseEffect DEF Typed
<1>2. ASSUME NEW t \in Tasks, OpenDone(t) PROVE wipe' \in WipeType
  BY <1>2 DEF OpenDone, Typed, DataTyped, WipeType
<1>3. ASSUME factory_enable_deferred PROVE wipe' \in WipeType
  <2>1. "HOOKS" \in Tasks
    BY DEF Tasks
  <2> QED
    BY <1>3, <2>1 DEF factory_enable_deferred, Typed, DataTyped, WipeType
<1>4. CASE WipeFails \/ PowerLoss \/ DeepSleep
  <2>1. wipe' = [result |-> TRUE, old |-> {}]
    BY <1>4, BootEffect, ClearedIsTyped DEF WipeFails, PowerLoss, DeepSleep,
       Typed, DataTyped
  <2> QED
    BY <2>1 DEF WipeType
<1>5. CASE UNCHANGED wipe
  BY <1>5 DEF Typed, DataTyped
<1> QED
  BY <1>1, <1>2, <1>3, <1>4, <1>5 DEF Next, TaskStep, HooksStep, PpStep,
     TpmStep, Commands, Outside, StartCapture, StartTimeout, StartDetection,
     Opened, ccd_unlock_done, tpm_sync_reset, SyncResult,
     rma_create_challenge, Save, Notify, PromptCall, physical_detect_prompt,
     PressCall, physical_detect_check_press, DoneCall, physical_detect_done,
     DoneFinish, ccd_testlab_toggle, WipeStop, WipePolicy, FactoryReset,
     check_wp_battery_presence, MirrorRead, MirrorWrite, TpmWipe,
     DisableReset, DisableLock, DisableWp, FwmpInform, ccd_open, ccd_unlock,
     ccd_lock, get_challenge, process_response, ccd_password,
     ccd_password_fails, command_ccd_reset, command_ccd_set, TestlabOpen,
     TestlabChange, vc_factory_reset, ccd_disable_factory_mode, command_wp,
     command_bpforce, vc_set_wp, FwmpWrite, FwmpUndefine,
     physical_detect_press, Tick, BatteryChange, DevMode, ApReset, vars,
     ccdVars, Command, Console

\* What a step may do to the register, unless an update of it is lost: the
\* signal gives way to the parameters, the note of them changes to what they
\* say, and the saved state to the current one.
RegisterKept ==
    /\ Holds(wp) => Holds(wp')
    /\ wp'.fwmp = wp.fwmp \/ (wp'.fwmp = tpm.fwmp /\ tpm'.fwmp = tpm.fwmp)
    /\ wp'.ccd = wp.ccd \/ wp'.ccd = ccd'.state

\* Every step leaves a register, and keeps it unless an update is lost.
LEMMA RegisterStep ==
    ASSUME Typed, [Next]_vars
    PROVE  wp' \in WpType /\ (RegisterKept \/ env'.torn)
<1> DEFINE G == wp' \in WpType /\ (RegisterKept \/ env'.torn)
<1>1. wp \in WpType /\ bat \in BatType /\ Battery \in BOOLEAN /\ tpm.fwmp \in BOOLEAN
      /\ tpm \in TpmType /\ env \in EnvType
  BY BatteryTyped DEF Typed, DataTyped, Battery, TpmType
<1>2. Resets(wp, wp') => G
  BY DEF Resets, Holds, RegisterKept
<1>3. Notes(wp, tpm.fwmp, wp') /\ UNCHANGED tpm => G
  BY DEF Notes, RegisterKept
<1>4. TRUE \in BOOLEAN
  BY Zenon
<1>5. ASSUME NEW t \in Tasks, Notify(t)
      PROVE  wp' \in WpType /\ (RegisterKept \/ env'.torn)
  <2> DEFINE seen == loc[t].seen
  <2>1. seen \in WpType /\ ccd.state \in CcdStates
    BY DEF Typed, ControlTyped, DataTyped, LocType, CcdType
  <2>2. /\ wp' = [seen EXCEPT !.pin = wp.pin, !.ccd = ccd.state]
        /\ env' = [env EXCEPT !.torn = @ \/ seen # [wp EXCEPT !.ccd = seen.ccd]]
        /\ UNCHANGED <<ccd, tpm>>
    BY <1>5 DEF Notify, WriteBack, SavedState
  <2>3. wp' \in WpType
    BY <1>1, <2>1, <2>2 DEF WpType, CcdStates
  <2>4. CASE seen = [wp EXCEPT !.ccd = seen.ccd]
    <3>1. seen.fwmp = wp.fwmp /\ seen.asserted = wp.asserted
      BY <1>1, <2>4 DEF WpType
    <3>2. wp'.fwmp = wp.fwmp /\ wp'.asserted = wp.asserted /\ wp'.pin = wp.pin
          /\ wp'.ccd = ccd'.state
      BY <2>1, <2>2, <3>1 DEF WpType
    <3> QED
      BY <2>3, <3>2 DEF Holds, RegisterKept
  <2>5. CASE seen # [wp EXCEPT !.ccd = seen.ccd]
    BY <1>1, <2>2, <2>3, <2>5 DEF EnvType
  <2> QED
    BY <2>4, <2>5
<1>6. ASSUME MirrorWrite PROVE wp' \in WpType /\ (RegisterKept \/ env'.torn)
  <2> DEFINE seen == loc["HOOKS"].seen
  <2>1. seen \in WpType
    BY DEF Typed, ControlTyped, LocType, Tasks
  <2>2. PICK on \in BOOLEAN :
          /\ wp' = set_wp_state(seen, on)
          /\ env' = [env EXCEPT !.torn = @ \/ seen # wp]
    BY <1>6 DEF MirrorWrite, WriteBack
  <2> HIDE DEF seen
  <2>3. Resets(seen, wp')
    BY <2>1, <2>2, SetWp
  <2>4. CASE seen = wp
    BY <1>2, <2>3, <2>4
  <2>5. CASE seen # wp
    BY <1>1, <2>2, <2>3, <2>5 DEF EnvType, Resets, Holds
  <2> QED
    BY <2>4, <2>5
<1>7. CASE \E flags : board_wp_follow_ccd_config(flags)
  BY <1>7, <1>1, <1>2, WpFollowTyped
<1>8. ASSUME WipePolicy PROVE wp' \in WpType /\ (RegisterKept \/ env'.torn)
  <2>1. Notes(wp, tpm.fwmp, wp')
    BY <1>8, <1>1, UpdatePolicies DEF WipePolicy
  <2> QED
    BY <1>8, <1>3, <2>1 DEF WipePolicy
<1>9. ASSUME FwmpInform PROVE wp' \in WpType /\ (RegisterKept \/ env'.torn)
  <2>1. Notes(wp, tpm.fwmp, wp')
    BY <1>9, <1>1, UpdatePolicies DEF FwmpInform
  <2> QED
    BY <1>9, <1>3, <2>1 DEF FwmpInform
<1>10. ASSUME command_wp PROVE wp' \in WpType /\ (RegisterKept \/ env'.torn)
  BY <1>10, <1>1, <1>2, ForceWp DEF command_wp
<1>11. ASSUME command_bpforce
       PROVE  wp' \in WpType /\ (RegisterKept \/ env'.torn)
  <2>1. board_battery_is_present(bat') \in BOOLEAN
    BY BatStep, BatteryTyped
  <2>2. Resets(wp, set_wp_state(wp, board_battery_is_present(bat')))
    BY <1>1, <2>1, SetWp
  <2>3. UNCHANGED wp => G
    BY <1>1 DEF RegisterKept, Holds
  <2> QED
    BY <1>11, <1>2, <2>2, <2>3 DEF command_bpforce
<1>12. ASSUME vc_set_wp PROVE wp' \in WpType /\ (RegisterKept \/ env'.torn)
  BY <1>12, <1>1, <1>2, <1>4, SetWp DEF vc_set_wp
<1>13. CASE WipeFails \/ PowerLoss \/ DeepSleep
  <2>1. \E register \in {wp, ClearedRegister}, resumed \in BOOLEAN, same \in BOOLEAN :
          Boot(register, resumed, same)
    BY <1>13 DEF WipeFails, PowerLoss, DeepSleep
  <2>2. Holds(ClearedRegister)
    BY ClearedIsTyped DEF ClearedRegister, Holds
  <2>3. PICK register \in {wp, ClearedRegister}, resumed \in BOOLEAN, same \in BOOLEAN :
          Boot(register, resumed, same)
    BY <2>1
  <2>4. register \in WpType /\ (Holds(wp) => Holds(register))
    BY <1>1, <2>2, ClearedIsTyped
  <2>5. /\ wp' \in WpType /\ wp'.fwmp = tpm.fwmp /\ wp'.ccd = ccd'.state
        /\ Holds(register) => Holds(wp')
        /\ tpm'.fwmp = tpm.fwmp
    BY <2>3, <2>4, BootEffect DEF Typed
  <2> QED
    BY <2>4, <2>5 DEF RegisterKept
<1>14. CASE UNCHANGED wp
  BY <1>14, <1>1 DEF RegisterKept, Holds
<1> QED
  BY <1>5, <1>6, <1>7, <1>8, <1>9, <1>10, <1>11, <1>12, <1>13, <1>14 DEF Next,
     TaskStep, HooksStep, PpStep, TpmStep, Commands, Outside, StartCapture,
     StartTimeout, StartDetection, OpenDone, Opened, ccd_unlock_done,
     tpm_sync_reset, SyncResult, rma_create_challenge, Save, PromptCall,
     physical_detect_prompt, PressCall, physical_detect_check_press, DoneCall,
     physical_detect_done, DoneFinish, ccd_testlab_toggle, WipeStop,
     factory_enable_deferred, FactoryReset, check_wp_battery_presence,
     MirrorRead, TpmWipe, DisableReset, DisableLock, DisableWp, ccd_open,
     ccd_unlock, ccd_lock, get_challenge, process_response, ccd_password,
     ccd_password_fails, command_ccd_reset, ResetCommand, ccd_reset_config,
     command_ccd_set, TestlabOpen,
     TestlabChange, vc_factory_reset, ccd_disable_factory_mode, FwmpWrite,
     FwmpUndefine, physical_detect_press, Tick, BatteryChange, DevMode,
     ApReset, vars, ccdVars, Command, Console

\* CCD has a state and a configuration.
LEMMA CcdStep ==
    ASSUME Typed, [Next]_vars
    PROVE  ccd' \in CcdType
<1> USE DEF Typed, DataTyped
<1>1. \A config \in Config : SetConfig(config) => ccd' \in CcdType
  BY SetConfigTyped
<1>2. \A base \in Config : ResetConfig(base) \in Config
  BY ConfigsTyped
<1>3. ResetUnlocked \in Config /\ DefaultConfig \in Config /\ FactoryConfig \in Config
  BY ConfigsTyped
<1>4. ccd \in CcdType /\ ccd.config \in Config /\ "TEST_LAB" \in Flags
  BY DEF CcdType, Flags
<1>5. Tasks = {"HOOKS", "TPM", "CONSOLE"} /\ CcdStates = {"LOCKED", "UNLOCKED", "OPENED"}
      /\ {"idle", "finish", "df_reset", "df_wp"} \subseteq Nexts
      /\ \A t \in Tasks : loc[t].next \in Nexts
  BY DEF Tasks, CcdStates, Nexts, ControlTyped, LocType
<1>6. ASSUME NEW t \in Tasks, Save(t) PROVE ccd' \in CcdType
  BY <1>6, <1>4 DEF Save, CcdType
<1>7. ASSUME NEW t \in Tasks, Opened(t) PROVE ccd' \in CcdType
  BY <1>7, <1>5, SetStateMoves DEF Opened
<1>8. ASSUME NEW t \in Tasks, ccd_unlock_done(t) PROVE ccd' \in CcdType
  BY <1>8, <1>5, SetStateMoves DEF ccd_unlock_done
<1>9. ASSUME TestlabOpen PROVE ccd' \in CcdType
  BY <1>9, <1>5, SetStateMoves DEF TestlabOpen
<1>10. ASSUME ccd_disable_factory_mode PROVE ccd' \in CcdType
  BY <1>10, <1>5, SetStateMoves DEF ccd_disable_factory_mode
<1>11. ASSUME DisableLock PROVE ccd' \in CcdType
  BY <1>11, <1>5, SetStateMoves DEF DisableLock
<1>12. ASSUME NEW src \in Sources, ccd_lock(src) PROVE ccd' \in CcdType
  BY <1>12, <1>4 DEF ccd_lock, CcdType, CcdStates
<1>13. ASSUME command_ccd_reset PROVE ccd' \in CcdType
  BY <1>13, <1>1, <1>2, <1>3 DEF command_ccd_reset, ResetCommand,
     ccd_reset_config
<1>14. ASSUME DisableReset PROVE ccd' \in CcdType
  BY <1>14, <1>1, <1>2, <1>3 DEF DisableReset, ResetCommand, ccd_reset_config
<1>15. ASSUME FactoryReset PROVE ccd' \in CcdType
  BY <1>15, <1>1, <1>2, <1>3 DEF FactoryReset, ccd_reset_config
<1>16. ASSUME command_ccd_set PROVE ccd' \in CcdType
  <2>1. PICK c \in SetCaps, new \in CapStates :
          SetConfig([ccd.config EXCEPT !.caps[c] = new])
    BY <1>16 DEF command_ccd_set
  <2>2. [ccd.config EXCEPT !.caps[c] = new] \in Config
    BY <1>4, CcdAssumption DEF Config
  <2> QED
    BY <1>1, <2>1, <2>2
<1>17. ASSUME ccd_password PROVE ccd' \in CcdType
  <2>1. \A p \in BOOLEAN, flags \in SUBSET Flags :
          [ccd.config EXCEPT !.password = p, !.flags = flags] \in Config
    BY <1>4 DEF Config
  <2>2. ccd.config.flags \ {"PASSWORD_UNLOCKED"} \in SUBSET Flags
        /\ ccd.config.flags \cup {"PASSWORD_UNLOCKED"} \in SUBSET Flags
    BY <1>4 DEF Config, Flags
  <2>3. TRUE \in BOOLEAN /\ FALSE \in BOOLEAN
    BY Zenon
  <2> DEFINE off == ccd.config.flags \ {"PASSWORD_UNLOCKED"}
             on == IF ccd.state = "UNLOCKED"
                     THEN ccd.config.flags \cup {"PASSWORD_UNLOCKED"} ELSE off
  <2>4. \/ SetConfig([ccd.config EXCEPT !.password = FALSE, !.flags = off])
        \/ SetConfig([ccd.config EXCEPT !.password = TRUE, !.flags = on])
    BY <1>17 DEF ccd_password
  <2>5. on \in SUBSET Flags /\ off \in SUBSET Flags
    BY <2>2
  <2> HIDE DEF on, off
  <2> QED
    BY <1>1, <2>1, <2>3, <2>4, <2>5
<1>18. ASSUME ccd_password_fails PROVE ccd' \in CcdType
  <2>1. [ccd.config EXCEPT !.password = TRUE] \in Config
    BY <1>4 DEF Config
  <2> QED
    BY <1>18, <1>1, <2>1 DEF ccd_password_fails
<1>19. ASSUME ccd_testlab_toggle PROVE ccd' \in CcdType
  <2>1. [ccd.config EXCEPT
             !.flags = IF "TEST_LAB" \in @ THEN @ \ {"TEST_LAB"}
                       ELSE @ \cup {"TEST_LAB"}] \in Config
    BY <1>4 DEF Config
  <2> QED
    BY <1>19, <1>1, <2>1 DEF ccd_testlab_toggle
<1>20. ASSUME DisableWp PROVE ccd' \in CcdType
  <2>1. [ccd.config EXCEPT !.flags = @ \ {"FACTORY"}] \in Config
    BY <1>4 DEF Config
  <2> QED
    BY <1>20, <1>1, <2>1 DEF DisableWp
<1>21. ASSUME command_wp PROVE ccd' \in CcdType
  <2>1. \E config \in Config : SetConfig(config) \/ UNCHANGED ccd
    <3>1. \A flags \in SUBSET Flags : [ccd.config EXCEPT !.flags = flags] \in Config
      BY <1>4 DEF Config
    <3>2. {"WP_AT_BOOT", "WP_ENABLED"} \subseteq Flags /\ ccd.config.flags \subseteq Flags
      BY <1>4 DEF Config, Flags
    <3> QED
      BY <1>21, <1>4, <3>1, <3>2 DEF command_wp
  <2> QED
    BY <1>1, <1>4, <2>1
<1>22. ASSUME command_bpforce PROVE ccd' \in CcdType
  <2>1. \E config \in Config : SetConfig(config) \/ UNCHANGED ccd
    <3>1. \A flags \in SUBSET Flags : [ccd.config EXCEPT !.flags = flags] \in Config
      BY <1>4 DEF Config
    <3>2. {"BATT_AT_BOOT", "BATT_CONNECT"} \subseteq Flags /\ ccd.config.flags \subseteq Flags
      BY <1>4 DEF Config, Flags
    <3> QED
      BY <1>22, <1>4, <3>1, <3>2 DEF command_bpforce
  <2> QED
    BY <1>1, <1>4, <2>1
<1>23. CASE WipeFails \/ PowerLoss \/ DeepSleep
  BY <1>23, BootEffect, ClearedIsTyped DEF WipeFails, PowerLoss, DeepSleep
<1>24. CASE UNCHANGED ccd
  BY <1>24, <1>4
<1> QED
  BY <1>6, <1>7, <1>8, <1>9, <1>10, <1>11, <1>12, <1>13, <1>14, <1>15, <1>16,
     <1>17, <1>18, <1>19, <1>20, <1>21, <1>22, <1>23, <1>24 DEF Next,
     TaskStep, HooksStep, PpStep, TpmStep, Commands, Outside, StartCapture,
     StartTimeout, StartDetection, OpenDone, tpm_sync_reset, SyncResult,
     rma_create_challenge, Notify, PromptCall, physical_detect_prompt,
     PressCall, physical_detect_check_press, DoneCall, physical_detect_done,
     DoneFinish, WipeStop, WipePolicy, factory_enable_deferred,
     check_wp_battery_presence, MirrorRead, MirrorWrite, TpmWipe, FwmpInform,
     ccd_open, ccd_unlock, get_challenge, process_response, TestlabChange,
     vc_factory_reset, vc_set_wp, FwmpWrite, FwmpUndefine,
     physical_detect_press, Tick, BatteryChange, DevMode, ApReset, vars,
     ccdVars, Command, Console

\* The types of the variables of CCD are invariant.
THEOREM CcdTypes == Spec => []Typed
<1>1. Init => Typed
  <2> SUFFICES ASSUME Init PROVE Typed
    OBVIOUS
  <2>1. ControlTyped
    BY LocalsTyped, ClearedIsTyped DEF Init, ControlTyped, Steps, Nexts,
       NoLocals, LocType
  <2>2. PICK config \in {DefaultConfig, FactoryConfig, UserConfig} :
          /\ ccd = [state |-> "LOCKED", disabled |-> FALSE, config |-> config,
                    nv |-> config]
          /\ wp = init_wp_state(ClearedRegister, FALSE, config.flags, TRUE, FALSE)
    BY DEF Init
  <2>3. ccd \in CcdType
    BY <2>2, ConfigsTyped DEF CcdType, CcdStates
  <2>4. TRUE \in BOOLEAN /\ FALSE \in BOOLEAN
    BY Zenon
  <2>5. wp \in WpType
    BY <2>2, <2>4, InitWp, ClearedIsTyped DEF Notes
  <2>6. tpm \in TpmType
    BY DEF Init, TpmType
  <2>7. wipe \in WipeType /\ bat \in BatType
    BY DEF Init, WipeType, BatType
  <2>8. env \in EnvType
    BY CcdAssumption DEF Init, EnvType
  <2> QED
    BY <2>1, <2>3, <2>5, <2>6, <2>7, <2>8 DEF Typed, DataTyped
<1>2. Typed /\ [Next]_vars => Typed'
  <2> SUFFICES ASSUME Typed, [Next]_vars PROVE Typed'
    OBVIOUS
  <2>1. ControlTyped'
    BY ControlStep
  <2> QED
    BY <2>1, CcdStep, RegisterStep, TpmStepTyped, WipeStepTyped, BatStep,
       EnvStep
       DEF Typed, DataTyped
<1> QED
  BY <1>1, <1>2, PTL DEF Spec

\* The firmware starts again.
Restart == WipeFails \/ PowerLoss \/ DeepSleep

\* Steps that are left, and steps that are reached, in one way only.
Left == {"notify", "fwmp", "capture", "timeout", "press", "done"}

Reached == {"opened", "factory", "policy", "sync_result", "wiped", "callback",
            "press"}

Flow(u) ==
    pc'[u] # pc[u] =>
        /\ pc[u] = "notify" => Notify(u)
        /\ pc[u] = "fwmp" => FwmpInform
        /\ pc[u] = "capture" => StartCapture(u)
        /\ pc[u] = "timeout" => StartTimeout(u)
        /\ pc[u] = "press" => u = "HOOKS" /\ physical_detect_check_press
        /\ pc[u] = "done" => u = "HOOKS" /\ physical_detect_done
        /\ pc'[u] \in {"opened", "factory", "policy", "sync_result", "wiped"} =>
              \/ OpenDone(u) \/ tpm_sync_reset(u) \/ SyncResult(u)
              \/ u = "HOOKS" /\ (TpmWipe \/ WipeStop \/ WipePolicy)
        /\ pc'[u] = "callback" => u = "HOOKS" /\ physical_detect_done
        /\ pc'[u] = "press" => u = "HOOKS" /\ PressCall

\* How the tasks go through their steps.
LEMMA FlowStep ==
    ASSUME Typed, [Next]_vars
    PROVE  Restart \/ \A u \in Tasks : Flow(u)
<1>1. ControlTyped /\ wp \in WpType /\ ccd \in CcdType
  BY DEF Typed, DataTyped
<1>2. \A t \in Tasks, s \in Steps :
        Moves(t, s) => \A u \in Tasks \ {t} : Flow(u)
  BY DEF Moves, Flow
<1>3. \A t \in Tasks, s \in Steps :
        Moves(t, s) /\ pc[t] \notin Left /\ s \notin Reached
          => \A u \in Tasks : Flow(u)
  BY <1>2 DEF Moves, Left, Reached, Flow
<1>4. \A t \in Tasks : loc[t].next \in Nexts
  BY DEF Typed, ControlTyped, LocType
<1>5. Tasks = {"HOOKS", "TPM", "CONSOLE"} /\ Nexts \subseteq Steps
      /\ Sources = {"ap", "alt", "usb"} /\ CcdStates = {"LOCKED", "UNLOCKED", "OPENED"}
      /\ Nexts \cap Reached = {}
  BY NextsAreSteps DEF Tasks, Sources, CcdStates, Nexts, Reached
<1>6. UNCHANGED pc => \A u \in Tasks : Flow(u)
  BY DEF Flow
<1>7. ASSUME NEW t \in Tasks, StartCapture(t) /\ UNCHANGED ccdVars
      PROVE  \A u \in Tasks : Flow(u)
  <2>1. pc[t] \in {"capture"}
        /\ \E s \in {"timeout"} : s \in Steps /\ Moves(t, s)
    BY <1>7, <1>1, <1>4, <1>5, GoToMoves DEF StartCapture, At, Steps, Nexts
  <2>2. Flow(t)
    BY <1>7, <2>1 DEF Flow, Moves, Nexts
  <2> QED
    BY <1>2, <1>5, <2>1, <2>2
<1>8. ASSUME NEW t \in Tasks, StartTimeout(t) /\ UNCHANGED ccdVars
      PROVE  \A u \in Tasks : Flow(u)
  <2>1. pc[t] \in {"timeout"} /\ \E s \in {"idle"} : s \in Steps /\ Moves(t, s)
    BY <1>8, <1>1, <1>4, <1>5, ReturnMoves DEF StartTimeout, At, Steps, Nexts
  <2>2. Flow(t)
    BY <1>8, <2>1 DEF Flow, Moves, Nexts
  <2> QED
    BY <1>2, <1>5, <2>1, <2>2
<1>9. ASSUME NEW t \in Tasks, StartDetection(t) PROVE \A u \in Tasks : Flow(u)
  BY <1>9, <1>1, <1>3, <1>4, <1>5, <1>6, GoToMoves, ReturnMoves DEF
     StartDetection, physical_detect_start, At, Console, Steps, Nexts, Left,
     Reached
<1>10. ASSUME NEW t \in Tasks, OpenDone(t) PROVE \A u \in Tasks : Flow(u)
  <2>1. pc[t] \in {"sync", "callback"}
        /\ \E s \in {"opened", "sync_wipe", "wipe"} : s \in Steps /\ Moves(t, s)
    BY <1>10, <1>1, <1>4, <1>5, ThenMoves DEF OpenDone, At, Steps, Nexts
  <2>2. Flow(t)
    BY <1>10, <2>1 DEF Flow, Moves, Nexts
  <2> QED
    BY <1>2, <1>5, <2>1, <2>2
<1>11. ASSUME NEW t \in Tasks, Opened(t) PROVE \A u \in Tasks : Flow(u)
  BY <1>11, <1>1, <1>3, <1>4, <1>5, <1>6, SetStateMoves DEF Opened, At,
     Console, Steps, Nexts, Left, Reached
<1>12. ASSUME NEW t \in Tasks, ccd_unlock_done(t) PROVE \A u \in Tasks : Flow(u)
  BY <1>12, <1>1, <1>3, <1>4, <1>5, <1>6, SetStateMoves DEF ccd_unlock_done,
     At, Console, Steps, Nexts, Left, Reached
<1>13. ASSUME NEW t \in Tasks, tpm_sync_reset(t) PROVE \A u \in Tasks : Flow(u)
  <2>1. pc[t] \in {"sync_wipe"}
        /\ \E s \in {"sync_result"} : s \in Steps /\ Moves(t, s)
    BY <1>13, <1>1, <1>4, <1>5, GoToMoves DEF tpm_sync_reset, At, Steps, Nexts
  <2>2. Flow(t)
    BY <1>13, <2>1 DEF Flow, Moves, Nexts
  <2> QED
    BY <1>2, <1>5, <2>1, <2>2
<1>14. ASSUME NEW t \in Tasks, SyncResult(t) PROVE \A u \in Tasks : Flow(u)
  <2>1. pc[t] \in {"sync_result"}
        /\ \E s \in {"opened", "idle"} : s \in Steps /\ Moves(t, s)
    BY <1>14, <1>1, <1>4, <1>5, GoToMoves, ReturnMoves DEF SyncResult, At,
       Steps, Nexts
  <2>2. Flow(t)
    BY <1>14, <2>1 DEF Flow, Moves, Nexts
  <2> QED
    BY <1>2, <1>5, <2>1, <2>2
<1>15. ASSUME NEW t \in Tasks, rma_create_challenge(t)
       PROVE  \A u \in Tasks : Flow(u)
  BY <1>15, <1>1, <1>3, <1>4, <1>5, <1>6, ReturnMoves DEF
     rma_create_challenge, At, Console, Steps, Nexts, Left, Reached
<1>16. ASSUME NEW t \in Tasks, Save(t) PROVE \A u \in Tasks : Flow(u)
  BY <1>16, <1>1, <1>3, <1>4, <1>5, <1>6, ThenMoves, ReturnMoves,
     ContinueMoves DEF Save, At, Console, Steps, Nexts, Left, Reached
<1>17. ASSUME NEW t \in Tasks, Notify(t) PROVE \A u \in Tasks : Flow(u)
  <2>1. pc[t] \in {"notify"} /\ \E s \in Nexts : s \in Steps /\ Moves(t, s)
    BY <1>17, <1>1, <1>4, <1>5, ContinueMoves DEF Notify, At, Steps, Nexts
  <2>2. Flow(t)
    BY <1>17, <2>1 DEF Flow, Moves, Nexts
  <2> QED
    BY <1>2, <1>5, <2>1, <2>2
<1>18. ASSUME PromptCall /\ UNCHANGED ccdVars PROVE \A u \in Tasks : Flow(u)
  BY <1>18, <1>1, <1>3, <1>4, <1>5, <1>6, GoToMoves DEF PromptCall, Call, At,
     Console, Steps, Nexts, Left, Reached
<1>19. ASSUME physical_detect_prompt /\ UNCHANGED ccdVars
       PROVE  \A u \in Tasks : Flow(u)
  BY <1>19, <1>1, <1>3, <1>4, <1>5, <1>6, ReturnMoves DEF
     physical_detect_prompt, At, Console, Steps, Nexts, Left, Reached
<1>20. ASSUME PressCall /\ UNCHANGED ccdVars PROVE \A u \in Tasks : Flow(u)
  <2>1. pc["HOOKS"] \in {"idle"}
        /\ \E s \in {"press"} : s \in Steps /\ Moves("HOOKS", s)
    BY <1>20, <1>1, <1>4, <1>5, GoToMoves DEF PressCall, Call, At, Steps, Nexts
  <2>2. Flow("HOOKS")
    BY <1>20, <2>1 DEF Flow, Moves, Nexts
  <2> QED
    BY <1>2, <1>5, <2>1, <2>2
<1>21. ASSUME physical_detect_check_press /\ UNCHANGED ccdVars
       PROVE  \A u \in Tasks : Flow(u)
  <2>1. pc["HOOKS"] \in {"press"}
        /\ \E s \in {"idle"} : s \in Steps /\ Moves("HOOKS", s)
    BY <1>21, <1>1, <1>4, <1>5, ReturnMoves DEF physical_detect_check_press,
       At, Steps, Nexts
  <2>2. Flow("HOOKS")
    BY <1>21, <2>1 DEF Flow, Moves, Nexts
  <2> QED
    BY <1>2, <1>5, <2>1, <2>2
<1>22. ASSUME DoneCall /\ UNCHANGED ccdVars PROVE \A u \in Tasks : Flow(u)
  BY <1>22, <1>1, <1>3, <1>4, <1>5, <1>6, GoToMoves DEF DoneCall, Call, At,
     Console, Steps, Nexts, Left, Reached
<1>23. ASSUME physical_detect_done /\ UNCHANGED ccdVars
       PROVE  \A u \in Tasks : Flow(u)
  <2>1. pc["HOOKS"] \in {"done"}
        /\ \E s \in {"finish", "callback"} : s \in Steps /\ Moves("HOOKS", s)
    BY <1>23, <1>1, <1>4, <1>5, GoToMoves DEF physical_detect_done, At, Steps,
       Nexts
  <2>2. Flow("HOOKS")
    BY <1>23, <2>1 DEF Flow, Moves, Nexts
  <2> QED
    BY <1>2, <1>5, <2>1, <2>2
<1>24. ASSUME DoneFinish /\ UNCHANGED ccdVars PROVE \A u \in Tasks : Flow(u)
  BY <1>24, <1>1, <1>3, <1>4, <1>5, <1>6, ReturnMoves DEF DoneFinish, At,
     Console, Steps, Nexts, Left, Reached
<1>25. ASSUME ccd_testlab_toggle PROVE \A u \in Tasks : Flow(u)
  BY <1>25, <1>1, <1>3, <1>4, <1>5, <1>6, ThenMoves DEF ccd_testlab_toggle,
     At, Console, Steps, Nexts, Left, Reached
<1>26. ASSUME WipeStop PROVE \A u \in Tasks : Flow(u)
  <2>1. pc["HOOKS"] \in {"wiped"}
        /\ \E s \in {"policy"} : s \in Steps /\ Moves("HOOKS", s)
    BY <1>26, <1>1, <1>4, <1>5, GoToMoves DEF WipeStop, At, Steps, Nexts
  <2>2. Flow("HOOKS")
    BY <1>26, <2>1 DEF Flow, Moves, Nexts
  <2> QED
    BY <1>2, <1>5, <2>1, <2>2
<1>27. ASSUME WipePolicy PROVE \A u \in Tasks : Flow(u)
  <2>1. pc["HOOKS"] \in {"policy"}
        /\ \E s \in {"factory", "opened"} : s \in Steps /\ Moves("HOOKS", s)
    BY <1>27, <1>1, <1>4, <1>5, GoToMoves DEF WipePolicy, At, Steps, Nexts
  <2>2. Flow("HOOKS")
    BY <1>27, <2>1 DEF Flow, Moves, Nexts
  <2> QED
    BY <1>2, <1>5, <2>1, <2>2
<1>28. ASSUME factory_enable_deferred PROVE \A u \in Tasks : Flow(u)
  BY <1>28, <1>1, <1>3, <1>4, <1>5, <1>6, ThenMoves DEF
     factory_enable_deferred, At, Console, Steps, Nexts, Left, Reached
<1>29. ASSUME FactoryReset PROVE \A u \in Tasks : Flow(u)
  BY <1>29, <1>1, <1>3, <1>4, <1>5, <1>6, ThenMoves DEF FactoryReset, At,
     Console, Steps, Nexts, Left, Reached
<1>30. ASSUME check_wp_battery_presence PROVE \A u \in Tasks : Flow(u)
  BY <1>30, <1>1, <1>3, <1>4, <1>5, <1>6, GoToMoves DEF
     check_wp_battery_presence, At, Console, Steps, Nexts, Left, Reached
<1>31. ASSUME MirrorRead PROVE \A u \in Tasks : Flow(u)
  BY <1>31, <1>1, <1>3, <1>4, <1>5, <1>6, ThenMoves DEF MirrorRead, At,
     Console, Steps, Nexts, Left, Reached
<1>32. ASSUME MirrorWrite PROVE \A u \in Tasks : Flow(u)
  BY <1>32, <1>1, <1>3, <1>4, <1>5, <1>6, ContinueMoves DEF MirrorWrite, At,
     Console, Steps, Nexts, Left, Reached
<1>33. ASSUME TpmWipe PROVE \A u \in Tasks : Flow(u)
  <2>1. pc["HOOKS"] \in {"wipe"}
        /\ \E s \in {"wiped"} : s \in Steps /\ Moves("HOOKS", s)
    BY <1>33, <1>1, <1>4, <1>5, GoToMoves DEF TpmWipe, At, Steps, Nexts
  <2>2. Flow("HOOKS")
    BY <1>33, <2>1 DEF Flow, Moves, Nexts
  <2> QED
    BY <1>2, <1>5, <2>1, <2>2
<1>34. ASSUME DisableReset PROVE \A u \in Tasks : Flow(u)
  BY <1>34, <1>1, <1>3, <1>4, <1>5, <1>6, ThenMoves DEF DisableReset,
     ResetCommand, At, Console, Steps, Nexts, Left, Reached
<1>35. ASSUME DisableLock PROVE \A u \in Tasks : Flow(u)
  BY <1>35, <1>1, <1>3, <1>4, <1>5, <1>6, SetStateMoves DEF DisableLock, At,
     Console, Steps, Nexts, Left, Reached
<1>36. ASSUME DisableWp PROVE \A u \in Tasks : Flow(u)
  BY <1>36, <1>1, <1>3, <1>4, <1>5, <1>6, ReturnMoves DEF DisableWp, At,
     Console, Steps, Nexts, Left, Reached
<1>37. ASSUME FwmpInform PROVE \A u \in Tasks : Flow(u)
  <2>1. pc["TPM"] \in {"fwmp"}
        /\ \E s \in {"idle"} : s \in Steps /\ Moves("TPM", s)
    BY <1>37, <1>1, <1>4, <1>5, ReturnMoves DEF FwmpInform, At, Steps, Nexts
  <2>2. Flow("TPM")
    BY <1>37, <2>1 DEF Flow, Moves, Nexts
  <2> QED
    BY <1>2, <1>5, <2>1, <2>2
<1>38. ASSUME NEW src \in Sources, ccd_open(src) PROVE \A u \in Tasks : Flow(u)
  BY <1>38, <1>1, <1>3, <1>4, <1>5, <1>6, BeginMoves DEF ccd_open, AbortOr,
     Command, OpenStep, At, Console, Steps, Nexts, Left, Reached
<1>39. ASSUME NEW src \in Sources, ccd_unlock(src)
       PROVE  \A u \in Tasks : Flow(u)
  BY <1>39, <1>1, <1>3, <1>4, <1>5, <1>6, BeginMoves DEF ccd_unlock, AbortOr,
     Command, At, Console, Steps, Nexts, Left, Reached
<1>40. ASSUME NEW src \in Sources, ccd_lock(src) PROVE \A u \in Tasks : Flow(u)
  BY <1>40, <1>1, <1>3, <1>4, <1>5, <1>6, BeginMoves DEF ccd_lock, Command,
     At, Console, Steps, Nexts, Left, Reached
<1>41. ASSUME NEW src \in Sources, get_challenge(src)
       PROVE  \A u \in Tasks : Flow(u)
  BY <1>41, <1>1, <1>3, <1>4, <1>5, <1>6, BeginMoves DEF get_challenge,
     Command, At, Console, Steps, Nexts, Left, Reached
<1>42. ASSUME ccd_password PROVE \A u \in Tasks : Flow(u)
  BY <1>42, <1>1, <1>3, <1>4, <1>5, <1>6, BeginMoves DEF ccd_password,
     Command, At, Console, Steps, Nexts, Left, Reached
<1>43. ASSUME command_ccd_reset PROVE \A u \in Tasks : Flow(u)
  BY <1>43, <1>1, <1>3, <1>4, <1>5, <1>6, ThenMoves DEF command_ccd_reset,
     ResetCommand, At, Console, Steps, Nexts, Left, Reached
<1>44. ASSUME command_ccd_set PROVE \A u \in Tasks : Flow(u)
  BY <1>44, <1>1, <1>3, <1>4, <1>5, <1>6, ThenMoves DEF command_ccd_set, At,
     Console, Steps, Nexts, Left, Reached
<1>45. ASSUME TestlabOpen PROVE \A u \in Tasks : Flow(u)
  BY <1>45, <1>1, <1>3, <1>4, <1>5, <1>6, SetStateMoves DEF TestlabOpen, At,
     Console, Steps, Nexts, Left, Reached
<1>46. ASSUME TestlabChange PROVE \A u \in Tasks : Flow(u)
  BY <1>46, <1>1, <1>3, <1>4, <1>5, <1>6, GoToMoves DEF TestlabChange,
     physical_detect_start, At, Console, Steps, Nexts, Left, Reached
<1>47. ASSUME ccd_disable_factory_mode PROVE \A u \in Tasks : Flow(u)
  BY <1>47, <1>1, <1>3, <1>4, <1>5, <1>6, SetStateMoves DEF
     ccd_disable_factory_mode, At, Command, Receives, Console, Steps, Nexts,
     Left, Reached
<1>48. ASSUME command_wp PROVE \A u \in Tasks : Flow(u)
  BY <1>48, <1>1, <1>3, <1>4, <1>5, <1>6, ThenMoves DEF command_wp, At,
     Console, Steps, Nexts, Left, Reached
<1>49. ASSUME command_bpforce PROVE \A u \in Tasks : Flow(u)
  BY <1>49, <1>1, <1>3, <1>4, <1>5, <1>6, ThenMoves DEF command_bpforce, At,
     Console, Steps, Nexts, Left, Reached
<1>50. ASSUME FwmpWrite PROVE \A u \in Tasks : Flow(u)
  BY <1>50, <1>1, <1>3, <1>4, <1>5, <1>6, BeginMoves DEF FwmpWrite, Command,
     At, Console, Steps, Nexts, Left, Reached
<1>51. CASE UNCHANGED pc
  BY <1>51, <1>6
<1> QED
  BY <1>7, <1>8, <1>9, <1>10, <1>11, <1>12, <1>13, <1>14, <1>15, <1>16, <1>17,
     <1>18, <1>19, <1>20, <1>21, <1>22, <1>23, <1>24, <1>25, <1>26, <1>27,
     <1>28, <1>29, <1>30, <1>31, <1>32, <1>33, <1>34, <1>35, <1>36, <1>37,
     <1>38, <1>39, <1>40, <1>41, <1>42, <1>43, <1>44, <1>45, <1>46, <1>47,
     <1>48, <1>49, <1>50, <1>51 DEF Restart, Next, TaskStep, HooksStep, PpStep,
     TpmStep, Commands, Outside, process_response,
     ccd_password_fails, vc_factory_reset, vc_set_wp, FwmpUndefine,
     physical_detect_press, Tick, BatteryChange, DevMode, ApReset, vars,
     ccdVars, Command, Console

----------------------------------------------------------------------------
(* Wiping before opening.                                                  *)

\* What is known after a restart, whatever its cause.
LEMMA RestartEffect ==
    ASSUME Typed, Restart
    PROVE  /\ \A t \in Tasks : pc'[t] = "idle"
           /\ wp'.fwmp = tpm.fwmp /\ wp'.ccd = ccd'.state
           /\ tpm'.fwmp = tpm.fwmp
           /\ wipe' = [result |-> TRUE, old |-> {}]
BY BootEffect, ClearedIsTyped
   DEF Restart, WipeFails, PowerLoss, DeepSleep, Typed, DataTyped

\* A task that is to open CCD has no data of the TPM left to erase; one whose
\* wipe has just ended has none if the result says so.
WipeInv ==
    \A t \in Tasks :
        /\ pc[t] \in {"opened", "factory", "policy"} => t \notin wipe.old
        /\ pc[t] \in {"sync_result", "wiped"} /\ wipe.result => t \notin wipe.old

OldKept ==
    /\ \A t \in wipe'.old : t \in wipe.old \/ pc'[t] \in {"wipe", "sync_wipe"}
    /\ wipe'.result => wipe.result \/ wipe'.old = {}

\* Data to erase appears with the decision to wipe; a good result means that
\* there is none.
LEMMA OldStep ==
    ASSUME Typed, [Next]_vars
    PROVE  OldKept
<1>1. CASE \E ok \in BOOLEAN : Erase(ok)
  BY <1>1, EraseEffect DEF Typed, OldKept
<1>2. ASSUME NEW t \in Tasks, OpenDone(t) PROVE OldKept
  <2>1. pc[t] \in {"sync", "callback"} => \/ pc'[t] \in {"wipe", "sync_wipe"}
                                          \/ wipe' = [wipe EXCEPT !.old = @ \ {t}]
    BY <1>2 DEF OpenDone, Then, GoTo, Typed, ControlTyped
  <2>2. \A u \in wipe'.old : u \in wipe.old \/ (u = t /\ wipe' # [wipe EXCEPT !.old = @ \ {t}])
    BY <1>2 DEF OpenDone, Typed, DataTyped, WipeType
  <2>3. pc[t] \in {"sync", "callback"} /\ wipe'.result = wipe.result
    BY <1>2 DEF OpenDone, At, Typed, DataTyped, WipeType
  <2> QED
    BY <2>1, <2>2, <2>3 DEF OldKept
<1>3. ASSUME factory_enable_deferred PROVE OldKept
  <2>1. pc'["HOOKS"] = "wipe"
    BY <1>3 DEF factory_enable_deferred, Then, GoTo, Typed, ControlTyped, Tasks
  <2>2. wipe'.old = wipe.old \cup {"HOOKS"} /\ wipe'.result = wipe.result
    BY <1>3 DEF factory_enable_deferred, Typed, DataTyped, WipeType
  <2> QED
    BY <2>1, <2>2 DEF OldKept
<1>4. CASE WipeFails \/ PowerLoss \/ DeepSleep
  <2>1. wipe' = [result |-> TRUE, old |-> {}]
    BY <1>4, RestartEffect DEF Restart
  <2> QED
    BY <2>1 DEF OldKept
<1>5. CASE UNCHANGED wipe
  BY <1>5 DEF OldKept
<1> QED
  BY <1>1, <1>2, <1>3, <1>4, <1>5 DEF Next, TaskStep, HooksStep, PpStep,
     TpmStep, Commands, Outside, StartCapture, StartTimeout, StartDetection,
     Opened, ccd_unlock_done, tpm_sync_reset, SyncResult,
     rma_create_challenge, Save, Notify, PromptCall, physical_detect_prompt,
     PressCall, physical_detect_check_press, DoneCall, physical_detect_done,
     DoneFinish, ccd_testlab_toggle, WipeStop, WipePolicy, FactoryReset,
     check_wp_battery_presence, MirrorRead, MirrorWrite, TpmWipe,
     DisableReset, DisableLock, DisableWp, FwmpInform, ccd_open, ccd_unlock,
     ccd_lock, get_challenge, process_response, ccd_password,
     ccd_password_fails, command_ccd_reset, command_ccd_set, TestlabOpen,
     TestlabChange, vc_factory_reset, ccd_disable_factory_mode, command_wp,
     command_bpforce, vc_set_wp, FwmpWrite, FwmpUndefine,
     physical_detect_press, Tick, BatteryChange, DevMode, ApReset, vars,
     ccdVars, Command, Console

\* Each way to open CCD passes the result of a wipe.
LEMMA WipeInvStep == Typed /\ WipeInv /\ [Next]_vars => WipeInv'
<1> SUFFICES ASSUME Typed, WipeInv, [Next]_vars PROVE WipeInv'
  OBVIOUS
<1>1. CASE Restart
  <2>1. \A t \in Tasks : pc'[t] = "idle"
    BY <1>1, RestartEffect
  <2> QED
    BY <2>1 DEF WipeInv
<1>2. CASE \A u \in Tasks : Flow(u)
  <2> SUFFICES ASSUME NEW t \in Tasks,
                      pc'[t] \in {"opened", "factory", "policy"}
                        \/ (pc'[t] \in {"sync_result", "wiped"} /\ wipe'.result)
               PROVE  t \notin wipe'.old
    BY DEF WipeInv
  <2>1. CASE pc'[t] = pc[t]
    BY <2>1, OldStep DEF OldKept, WipeInv
  <2>2. CASE pc'[t] # pc[t]
    <3>1. \/ OpenDone(t) \/ tpm_sync_reset(t) \/ SyncResult(t)
          \/ (t = "HOOKS" /\ (TpmWipe \/ WipeStop \/ WipePolicy))
      BY <1>2, <2>2 DEF Flow
    <3>2. CASE OpenDone(t)
      <4>1. \/ pc'[t] \in {"wipe", "sync_wipe"}
            \/ wipe' = [wipe EXCEPT !.old = @ \ {t}]
        BY <3>2 DEF OpenDone, Then, GoTo, Typed, ControlTyped
      <4> QED
        BY <4>1 DEF Typed, DataTyped, WipeType
    <3>3. CASE tpm_sync_reset(t) \/ (t = "HOOKS" /\ TpmWipe)
      <4>1. pc'[t] \in {"sync_result", "wiped"} /\ \E ok \in BOOLEAN : Erase(ok)
        BY <3>3 DEF tpm_sync_reset, TpmWipe, GoTo, Typed, ControlTyped
      <4> QED
        BY <4>1, EraseEffect DEF Typed
    <3>4. CASE SyncResult(t)
      <4>1. pc[t] = "sync_result" /\ UNCHANGED wipe
            /\ (wipe.result \/ Moves(t, "idle"))
        BY <3>4, ReturnMoves DEF SyncResult, At, ccdVars, Typed
      <4> QED
        BY <4>1 DEF WipeInv, Moves
    <3>5. CASE t = "HOOKS" /\ WipeStop
      BY <3>5 DEF WipeStop, At, WipeInv
    <3>6. CASE t = "HOOKS" /\ WipePolicy
      BY <3>6 DEF WipePolicy, At, WipeInv
    <3> QED
      BY <3>1, <3>2, <3>3, <3>4, <3>5, <3>6
  <2> QED
    BY <2>1, <2>2
<1> QED
  BY <1>1, <1>2, FlowStep

\* CCD opens, and factory mode begins, only when nothing of the TPM's data that
\* had to be erased is left, whichever tasks wipe at the same time and however
\* their wipes fail.
THEOREM OpensOnlyWiped == Spec => []WipedBeforeOpen
<1>1. Init => WipeInv
  BY DEF Init, WipeInv
<1>2. WipeInv => WipedBeforeOpen
  BY DEF WipeInv, WipedBeforeOpen
<1> QED
  BY <1>1, <1>2, WipeInvStep, CcdTypes, PTL DEF Spec

----------------------------------------------------------------------------
(* Write protect and deep sleep.                                           *)

\* The note of the parameters is in the register once the TPM task has told
\* the firmware, and holds, unless an update of the register was lost.
FwmpInv ==
    \/ env.torn
    \/ /\ Holds(wp)
       /\ tpm.fwmp /\ pc["TPM"] # "fwmp" => wp.fwmp

\* Only a write of the parameters makes them forbid unlocking.
LEMMA ParametersStep ==
    ASSUME Typed, [Next]_vars
    PROVE  tpm'.fwmp => tpm.fwmp \/ pc'["TPM"] = "fwmp"
<1>1. CASE \E ok \in BOOLEAN : Erase(ok)
  BY <1>1, EraseEffect DEF Typed
<1>2. ASSUME FwmpWrite
      PROVE  tpm'.fwmp => tpm.fwmp \/ pc'["TPM"] = "fwmp"
  <2>1. Begin("ap", "fwmp")
    BY <1>2 DEF FwmpWrite
  <2>2. pc' = [pc EXCEPT !["TPM"] = "fwmp", !["CONSOLE"] = @]
    BY <2>1 DEF Begin, Runner
  <2> QED
    BY <2>2 DEF Typed, ControlTyped, Tasks
<1>3. CASE UNCHANGED tpm \/ (\E d, st : tpm' = [tpm EXCEPT !.dev = d]
                                  \/ tpm' = [tpm EXCEPT !.stopped = st])
  BY <1>3 DEF Typed, DataTyped, TpmType
<1>4. ASSUME FwmpUndefine
      PROVE  tpm'.fwmp => tpm.fwmp \/ pc'["TPM"] = "fwmp"
  BY <1>4 DEF FwmpUndefine, Typed, DataTyped, TpmType
<1>5. CASE WipeFails \/ PowerLoss \/ DeepSleep
  BY <1>5, RestartEffect DEF Restart
<1> QED
  BY <1>1, <1>2, <1>3, <1>4, <1>5 DEF Next, TaskStep, HooksStep, PpStep,
     TpmStep, Commands, Outside, StartCapture, StartTimeout, StartDetection,
     OpenDone, Opened, ccd_unlock_done, tpm_sync_reset, SyncResult,
     rma_create_challenge, Save, Notify, PromptCall, physical_detect_prompt,
     PressCall, physical_detect_check_press, DoneCall, physical_detect_done,
     DoneFinish, ccd_testlab_toggle, WipeStop, WipePolicy,
     factory_enable_deferred, FactoryReset, check_wp_battery_presence,
     MirrorRead, MirrorWrite, TpmWipe, DisableReset, DisableLock, DisableWp,
     FwmpInform, ccd_open, ccd_unlock, ccd_lock, get_challenge,
     process_response, ccd_password, ccd_password_fails, command_ccd_reset,
     command_ccd_set, TestlabOpen, TestlabChange, vc_factory_reset,
     ccd_disable_factory_mode, command_wp, command_bpforce, vc_set_wp,
     physical_detect_press, Tick, BatteryChange, DevMode, ApReset, vars,
     ccdVars, Command, Console

\* The note goes with the parameters.
LEMMA FwmpInvStep == Typed /\ FwmpInv /\ [Next]_vars => FwmpInv'
<1> SUFFICES ASSUME Typed, FwmpInv, [Next]_vars, ~env'.torn PROVE FwmpInv'
  BY DEF FwmpInv
<1>1. ~env.torn /\ RegisterKept
  BY EnvStep, RegisterStep
<1>2. Holds(wp')
  BY <1>1 DEF FwmpInv, RegisterKept
<1>3. ASSUME tpm'.fwmp, pc'["TPM"] # "fwmp" PROVE wp'.fwmp
  <2>1. CASE Restart
    BY <1>3, <2>1, RestartEffect
  <2>2. CASE pc["TPM"] # "fwmp"
    BY <1>1, <1>3, <2>2, ParametersStep DEF FwmpInv, RegisterKept
  <2>3. CASE ~Restart /\ pc["TPM"] = "fwmp"
    <3>1. FwmpInform
      BY <1>3, <2>3, FlowStep DEF Flow, Tasks
    <3>2. wp \in WpType /\ tpm.fwmp \in BOOLEAN /\ Battery \in BOOLEAN
      BY BatteryTyped DEF Typed, DataTyped, TpmType, Battery
    <3>3. Notes(wp, tpm.fwmp, wp')
      BY <3>1, <3>2, UpdatePolicies DEF FwmpInform
    <3> QED
      BY <1>3, <3>1, <3>3 DEF FwmpInform, Notes
  <2> QED
    BY <2>1, <2>2, <2>3
<1> QED
  BY <1>2, <1>3 DEF FwmpInv

\* The firmware starts with a locked CCD and a register that says so.
LEMMA InitRegister ==
    Init => Notes(ClearedRegister, FALSE, wp) /\ ccd.state = "LOCKED"
<1> SUFFICES ASSUME Init
             PROVE  Notes(ClearedRegister, FALSE, wp) /\ ccd.state = "LOCKED"
  OBVIOUS
<1>1. PICK config \in {DefaultConfig, FactoryConfig, UserConfig} :
        /\ ccd = [state |-> "LOCKED", disabled |-> FALSE, config |-> config,
                  nv |-> config]
        /\ wp = init_wp_state(ClearedRegister, FALSE, config.flags, TRUE, FALSE)
  BY DEF Init
<1>2. TRUE \in BOOLEAN /\ FALSE \in BOOLEAN
  BY Zenon
<1>3. \A flags : Notes(ClearedRegister, FALSE,
                       init_wp_state(ClearedRegister, FALSE, flags, TRUE, FALSE))
  BY <1>2, InitWp, ClearedIsTyped
<1> QED
  BY <1>1, <1>3

\* While the firmware management parameters forbid unlocking, the write protect
\* signal is asserted, whatever the battery, the console, a wipe or a restart
\* want, as long as no two tasks write the scratch register at the same time.
THEOREM FwmpHoldsWp == Spec => []FwmpKeepsWp
<1>1. Init => FwmpInv
  <2> SUFFICES ASSUME Init PROVE FwmpInv
    OBVIOUS
  <2>2. Holds(ClearedRegister)
    BY ClearedIsTyped DEF ClearedRegister, Holds
  <2>3. Holds(wp)
    BY <2>2, InitRegister DEF Notes
  <2>4. ~tpm.fwmp
    BY DEF Init
  <2> QED
    BY <2>3, <2>4 DEF FwmpInv
<1>2. FwmpInv => FwmpKeepsWp
  BY DEF FwmpInv, FwmpKeepsWp, NothingDisablesWp, Holds
<1> QED
  BY <1>1, <1>2, FwmpInvStep, CcdTypes, PTL DEF Spec

StateTold ==
    \/ ccd'.state = ccd.state
    \/ \E t \in Tasks : pc'[t] = "notify"
    \/ Restart

\* The state changes on the way to the hook that saves it, or at a restart.
LEMMA StateStep ==
    ASSUME Typed, [Next]_vars
    PROVE  StateTold
<1>1. Tasks = {"HOOKS", "TPM", "CONSOLE"} /\ CcdStates = {"LOCKED", "UNLOCKED", "OPENED"}
      /\ {"idle", "finish", "df_reset", "df_wp"} \subseteq Nexts
      /\ \A t \in Tasks : loc[t].next \in Nexts
  BY DEF Tasks, CcdStates, Nexts, Typed, ControlTyped, LocType
<1>2. ControlTyped /\ wp \in WpType /\ ccd \in CcdType
  BY DEF Typed, DataTyped
<1>3. ASSUME NEW t \in Tasks, Opened(t) PROVE StateTold
  BY <1>3, <1>1, <1>2, SetStateMoves DEF Opened, Moves, StateTold
<1>4. ASSUME NEW t \in Tasks, ccd_unlock_done(t) PROVE StateTold
  BY <1>4, <1>1, <1>2, SetStateMoves DEF ccd_unlock_done, Moves, StateTold
<1>5. ASSUME TestlabOpen PROVE StateTold
  BY <1>5, <1>1, <1>2, SetStateMoves DEF TestlabOpen, Moves, StateTold
<1>6. ASSUME ccd_disable_factory_mode PROVE StateTold
  BY <1>6, <1>1, <1>2, SetStateMoves DEF ccd_disable_factory_mode, Moves,
     StateTold
<1>7. ASSUME DisableLock PROVE StateTold
  BY <1>7, <1>1, <1>2, SetStateMoves DEF DisableLock, Moves, StateTold
<1>8. ASSUME NEW src \in Sources, ccd_lock(src) PROVE StateTold
  <2>1. "notify" \in Steps
    BY DEF Steps
  <2> QED
    BY <1>8, <1>1, <1>2, <2>1, BeginMoves DEF ccd_lock, Command, Moves,
       StateTold
<1>9. CASE \E config : SetConfig(config)
  BY <1>9, <1>2 DEF SetConfig, CcdType, StateTold
<1>10. ASSUME NEW t \in Tasks, Save(t) PROVE StateTold
  BY <1>10, <1>2 DEF Save, CcdType, StateTold
<1>11. CASE WipeFails \/ PowerLoss \/ DeepSleep
  BY <1>11 DEF Restart, StateTold
<1>12. CASE UNCHANGED ccd
  BY <1>12 DEF StateTold
<1> QED
  BY <1>3, <1>4, <1>5, <1>6, <1>7, <1>8, <1>9, <1>10, <1>11, <1>12 DEF Next,
     TaskStep, HooksStep, PpStep, TpmStep, Commands, Outside, StartCapture,
     StartTimeout, StartDetection, OpenDone, tpm_sync_reset, SyncResult,
     rma_create_challenge, Notify, PromptCall, physical_detect_prompt,
     PressCall, physical_detect_check_press, DoneCall, physical_detect_done,
     DoneFinish, ccd_testlab_toggle, WipeStop, WipePolicy,
     factory_enable_deferred, FactoryReset, check_wp_battery_presence,
     MirrorRead, MirrorWrite, TpmWipe, DisableReset, DisableWp, FwmpInform,
     ccd_open, ccd_unlock, get_challenge, process_response, ccd_password,
     ccd_password_fails, command_ccd_reset, ResetCommand, ccd_reset_config,
     command_ccd_set, TestlabChange,
     vc_factory_reset, command_wp, command_bpforce, vc_set_wp, FwmpWrite,
     FwmpUndefine, physical_detect_press, Tick, BatteryChange, DevMode,
     ApReset, vars, ccdVars, Command, Console


\* The state that a deep sleep keeps is the one that is in force once the hooks
\* have run.
THEOREM SleepKeeps == Spec => []SleepKeepsState
<1>1. Init => SleepKeepsState
  <2> SUFFICES ASSUME Init PROVE wp.ccd = ccd.state
    BY DEF SleepKeepsState
  <2> QED
    BY InitRegister DEF Notes, ClearedRegister
<1>2. Typed /\ SleepKeepsState /\ [Next]_vars => SleepKeepsState'
  <2> SUFFICES ASSUME Typed, SleepKeepsState, [Next]_vars, ~env'.torn,
                      \A t \in Tasks : pc'[t] # "notify"
               PROVE  wp'.ccd = ccd'.state
    BY DEF SleepKeepsState
  <2>1. ~env.torn /\ RegisterKept /\ StateTold
    BY EnvStep, RegisterStep, StateStep
  <2>2. CASE Restart
    BY <2>2, RestartEffect
  <2>3. CASE ~Restart /\ \A t \in Tasks : pc[t] # "notify"
    BY <2>1, <2>3 DEF SleepKeepsState, RegisterKept, StateTold
  <2>4. ASSUME ~Restart, NEW t \in Tasks, pc[t] = "notify"
        PROVE  wp'.ccd = ccd'.state
    <3>1. Notify(t)
      BY <2>4, FlowStep DEF Flow
    <3>2. wp' = [loc[t].seen EXCEPT !.pin = wp.pin, !.ccd = ccd.state] /\ UNCHANGED ccd
      BY <3>1 DEF Notify, WriteBack, SavedState
    <3>3. loc[t].seen \in WpType
      BY DEF Typed, ControlTyped, LocType
    <3> QED
      BY <3>2, <3>3 DEF WpType
  <2> QED
    BY <2>2, <2>3, <2>4
<1> QED
  BY <1>1, <1>2, CcdTypes, PTL DEF Spec

----------------------------------------------------------------------------
(* Capabilities.                                                           *)

\* What requires CCD to be opened still does.
CapsKept ==
    \A c \in Caps : raw_get_cap(ccd.config, c) = "IfOpened"
                      => raw_get_cap(ccd'.config, c) = "IfOpened"

ConfigGuarded ==
    CapsKept \/ ccd.state = "OPENED" \/ FactoryReset \/ Restart

\* The configuration is relaxed by whoever may do so.
LEMMA ConfigStep ==
    ASSUME Typed, [Next]_vars
    PROVE  ConfigGuarded
<1>1. Tasks = {"HOOKS", "TPM", "CONSOLE"} /\ CcdStates = {"LOCKED", "UNLOCKED", "OPENED"}
      /\ {"idle", "finish", "df_reset", "df_wp"} \subseteq Nexts
      /\ \A t \in Tasks : loc[t].next \in Nexts
  BY DEF Tasks, CcdStates, Nexts, Typed, ControlTyped, LocType
<1>2. ControlTyped /\ wp \in WpType /\ ccd \in CcdType /\ ccd.config \in Config
  BY DEF Typed, DataTyped, CcdType
<1>3. ccd'.config.caps = ccd.config.caps => CapsKept
  BY DEF CapsKept, raw_get_cap
<1>4. \A config : SetConfig(config) => ccd'.config = config
  BY <1>2 DEF SetConfig, CcdType
<1>5. ASSUME SetConfig(ResetUnlocked) PROVE CapsKept
  <2>1. \A x \in Caps : ResetUnlocked.caps[x] = IF raw_get_cap(ccd.config, x) = "IfOpened"
                                                 THEN ccd.config.caps[x] ELSE "Default"
    BY DEF ResetUnlocked
  <2> QED
    BY <1>4, <1>5, <2>1 DEF CapsKept, raw_get_cap
<1> USE DEF ConfigGuarded
<1>6. ASSUME NEW t \in Tasks, Opened(t) PROVE ConfigGuarded
  BY <1>6, <1>1, <1>2, <1>3, SetStateMoves DEF Opened
<1>7. ASSUME NEW t \in Tasks, ccd_unlock_done(t) PROVE ConfigGuarded
  BY <1>7, <1>1, <1>2, <1>3, SetStateMoves DEF ccd_unlock_done
<1>8. ASSUME TestlabOpen PROVE ConfigGuarded
  BY <1>8, <1>1, <1>2, <1>3, SetStateMoves DEF TestlabOpen
<1>9. ASSUME ccd_disable_factory_mode PROVE ConfigGuarded
  BY <1>9, <1>1, <1>2, <1>3, SetStateMoves DEF ccd_disable_factory_mode
<1>10. ASSUME DisableLock PROVE ConfigGuarded
  BY <1>10, <1>1, <1>2, <1>3, SetStateMoves DEF DisableLock
<1>11. ASSUME NEW src \in Sources, ccd_lock(src) PROVE ConfigGuarded
  BY <1>11, <1>2, <1>3 DEF ccd_lock, CcdType
<1>12. ASSUME NEW t \in Tasks, Save(t) PROVE ConfigGuarded
  BY <1>12, <1>2, <1>3 DEF Save, CcdType
<1>13. ASSUME command_ccd_reset PROVE ConfigGuarded
  BY <1>13, <1>5 DEF command_ccd_reset, ResetCommand
<1>14. ASSUME DisableReset PROVE ConfigGuarded
  BY <1>14, <1>5 DEF DisableReset, ResetCommand
<1>15. ASSUME command_ccd_set PROVE ConfigGuarded
  <2>1. PICK c \in SetCaps, new \in CapStates :
          /\ MaySet(c, new)
          /\ SetConfig([ccd.config EXCEPT !.caps[c] = new])
    BY <1>15 DEF command_ccd_set
  <2>2. ccd'.config.caps = [ccd.config.caps EXCEPT ![c] = new]
    BY <1>2, <1>4, <2>1 DEF Config
  <2>3. c \in Caps /\ ccd.config.caps \in [Caps -> CapStates]
    BY <1>2, CcdAssumption DEF Config
  <2>4. CASE ccd.state = "OPENED"
    BY <2>4
  <2>5. CASE ccd.state = "UNLOCKED"
    BY <2>1, <2>2, <2>3, <2>5 DEF MaySet, CapsKept, raw_get_cap
  <2>6. ccd.state \in {"UNLOCKED", "OPENED"}
    BY <1>1, <1>2, <2>1 DEF MaySet, CcdType
  <2> QED
    BY <2>4, <2>5, <2>6
<1>16. ASSUME ccd_password PROVE ConfigGuarded
  BY <1>16, <1>2, <1>3, <1>4 DEF ccd_password, Config
<1>17. ASSUME ccd_password_fails PROVE ConfigGuarded
  BY <1>17, <1>2, <1>3, <1>4 DEF ccd_password_fails, Config
<1>18. ASSUME ccd_testlab_toggle PROVE ConfigGuarded
  BY <1>18, <1>2, <1>3, <1>4 DEF ccd_testlab_toggle, Config
<1>19. ASSUME DisableWp PROVE ConfigGuarded
  BY <1>19, <1>2, <1>3, <1>4 DEF DisableWp, Config
<1>20. ASSUME command_wp PROVE ConfigGuarded
  <2>1. UNCHANGED ccd \/ \E flags : SetConfig([ccd.config EXCEPT !.flags = flags])
    BY <1>20 DEF command_wp
  <2> QED
    BY <1>2, <1>3, <1>4, <2>1 DEF Config
<1>21. ASSUME command_bpforce PROVE ConfigGuarded
  <2>1. UNCHANGED ccd \/ \E flags : SetConfig([ccd.config EXCEPT !.flags = flags])
    BY <1>21 DEF command_bpforce
  <2> QED
    BY <1>2, <1>3, <1>4, <2>1 DEF Config
<1>22. CASE FactoryReset \/ Restart
  BY <1>22
<1>23. CASE UNCHANGED ccd
  BY <1>23, <1>3
<1> QED
  BY <1>6, <1>7, <1>8, <1>9, <1>10, <1>11, <1>12, <1>13, <1>14, <1>15, <1>16,
     <1>17, <1>18, <1>19, <1>20, <1>21, <1>22, <1>23 DEF Restart, Next, TaskStep,
     HooksStep, PpStep, TpmStep, Commands, Outside, StartCapture,
     StartTimeout, StartDetection, OpenDone, tpm_sync_reset, SyncResult,
     rma_create_challenge, Notify, PromptCall, physical_detect_prompt,
     PressCall, physical_detect_check_press, DoneCall, physical_detect_done,
     DoneFinish, WipeStop, WipePolicy, factory_enable_deferred,
     check_wp_battery_presence, MirrorRead, MirrorWrite,
     TpmWipe, FwmpInform, ccd_open, ccd_unlock, get_challenge,
     process_response, TestlabChange, vc_factory_reset, vc_set_wp, FwmpWrite,
     FwmpUndefine, physical_detect_press, Tick, BatteryChange, DevMode,
     ApReset, vars, ccdVars, Command, Console

\* What requires CCD to be opened is relaxed only while it is opened, by factory
\* mode after a successful wipe, or by a restart.
THEOREM CapsProtected == Spec => IfOpenedProtected
<1>1. Typed /\ WipedBeforeOpen /\ [Next]_vars =>
        [\A c \in Caps :
          /\ raw_get_cap(ccd.config, c) = "IfOpened"
          /\ raw_get_cap(ccd'.config, c) # "IfOpened"
          => \/ ccd.state = "OPENED"
             \/ pc["HOOKS"] = "factory" /\ "HOOKS" \notin wipe.old
             \/ PowerLoss \/ DeepSleep \/ WipeFails]_vars
  <2> SUFFICES ASSUME Typed, WipedBeforeOpen, [Next]_vars,
                      NEW c \in Caps,
                      raw_get_cap(ccd.config, c) = "IfOpened",
                      raw_get_cap(ccd'.config, c) # "IfOpened"
               PROVE  \/ ccd.state = "OPENED"
                      \/ pc["HOOKS"] = "factory" /\ "HOOKS" \notin wipe.old
                      \/ PowerLoss \/ DeepSleep \/ WipeFails
    OBVIOUS
  <2>1. ccd.state = "OPENED" \/ FactoryReset \/ Restart
    BY ConfigStep DEF ConfigGuarded, CapsKept
  <2>2. CASE FactoryReset
    BY <2>2 DEF FactoryReset, At, WipedBeforeOpen, Tasks
  <2> QED
    BY <2>1, <2>2 DEF Restart
<1> QED
  BY <1>1, OpensOnlyWiped, CcdTypes, PTL DEF Spec, IfOpenedProtected

----------------------------------------------------------------------------
(* The physical presence detector.                                         *)

\* What a step may be for the detector.
DetectorStep ==
    \/ Restart
    \/ \E t \in Tasks : StartCapture(t) \/ StartTimeout(t)
    \/ \E t \in Tasks, long \in BOOLEAN, cb \in Callbacks :
          physical_detect_start(t, long, cb)
    \/ PpStep
    \/ physical_detect_abort /\ UNCHANGED pc
    \/ physical_detect_press
    \/ Tick
    \/ UNCHANGED ppVars

\* Every step of the system is one of these.
LEMMA DetectorSteps == Typed /\ [Next]_vars => DetectorStep
<1> SUFFICES ASSUME Typed, [Next]_vars PROVE DetectorStep
  OBVIOUS
<1>1. ASSUME NEW t \in Tasks, StartDetection(t) PROVE DetectorStep
  <2>1. \/ UNCHANGED ppVars
        \/ \E step \in {"pp_long", "pp_short", "pp_unlock"} :
              physical_detect_start(t, step = "pp_long",
                        IF step = "pp_unlock" THEN "unlock" ELSE "open")
    BY <1>1 DEF StartDetection
  <2>2. \A step : (step = "pp_long") \in BOOLEAN
    OBVIOUS
  <2>3. \A step : (IF step = "pp_unlock" THEN "unlock" ELSE "open") \in Callbacks
    BY DEF Callbacks
  <2> QED
    BY <2>1, <2>2, <2>3, Zenon DEF DetectorStep
<1>2. ASSUME TestlabChange PROVE DetectorStep
  <2>1. FALSE \in BOOLEAN /\ "testlab" \in Callbacks /\ "CONSOLE" \in Tasks
    BY DEF Callbacks, Tasks
  <2> QED
    BY <1>2, <2>1, Zenon DEF TestlabChange, DetectorStep
<1>3. ASSUME NEW src \in Sources, ccd_open(src) \/ ccd_unlock(src)
      PROVE  DetectorStep
  BY <1>3 DEF ccd_open, ccd_unlock, AbortOr, DetectorStep
<1>4. CASE UNCHANGED ppVars \/ Restart
  BY <1>4 DEF DetectorStep
<1>5. ASSUME PpStep \/ physical_detect_press \/ Tick PROVE DetectorStep
  BY <1>5 DEF DetectorStep
<1>6. ASSUME NEW t \in Tasks, StartCapture(t) \/ StartTimeout(t)
      PROVE  DetectorStep
  BY <1>6 DEF DetectorStep
<1> QED
  BY <1>1, <1>2, <1>3, <1>4, <1>5, <1>6 DEF Restart, Next, TaskStep,
     HooksStep, TpmStep, Commands, Outside, OpenDone, Opened, ccd_unlock_done,
     tpm_sync_reset, SyncResult, rma_create_challenge, Save, Notify,
     ccd_testlab_toggle, WipeStop, WipePolicy, factory_enable_deferred,
     FactoryReset, check_wp_battery_presence, MirrorRead, MirrorWrite,
     TpmWipe, DisableReset, DisableLock, DisableWp, FwmpInform, ccd_lock,
     get_challenge, process_response, ccd_password, ccd_password_fails,
     command_ccd_reset, command_ccd_set, TestlabOpen, vc_factory_reset,
     ccd_disable_factory_mode, command_wp, command_bpforce, vc_set_wp,
     FwmpWrite, FwmpUndefine, BatteryChange, DevMode, ApReset, vars

PpType == [state : PpStates, callback : Callbacks \cup {NoCallback},
           count : 0 .. LongCount, needed : {0, ShortCount, LongCount},
           since : 0 .. LongAgo, capture : BOOLEAN]

\* The detector keeps its types; press_count never passes the presses it takes.
THEOREM DetectorTypes == Spec => []PpTypeOK
<1> USE IntervalAssumption DEF PpTypeOK, Off, LongAgo
<1>0. {Off, 0, ShortMin, ShortMax, LongMin, LongMax} \subseteq Off .. LongMax
  OBVIOUS
<1>3. /\ PpInit \in PpType /\ TimersOff \in [Deferred -> Off .. LongMax]
      /\ NoPress \in [dt : 0 .. LongAgo, age : 0 .. LongAgo] /\ 0 \in 0 .. LongCount
  BY DEF PpInit, PpType, TimersOff, NoPress, PpStates, NoCallback
<1>1. Init => PpTypeOK
  BY <1>3 DEF Init, PpType
<1>2. Typed /\ PpTypeOK /\ [Next]_vars => PpTypeOK'
  <2> SUFFICES ASSUME Typed, PpTypeOK, [Next]_vars PROVE PpTypeOK'
    OBVIOUS
  <2>1. ASSUME Restart PROVE PpTypeOK'
    <3>1. pp' = PpInit /\ timer' = TimersOff /\ chk' = NoPress /\ presses' = 0
      BY <2>1 DEF Restart, WipeFails, PowerLoss, DeepSleep, Boot
    <3> QED
      BY <1>3, <3>1 DEF PpType
  <2>2. ASSUME NEW t \in Tasks, StartCapture(t) PROVE PpTypeOK'
    <3>1. timer' \in [Deferred -> Off .. LongMax]
      BY <1>0, <2>2 DEF StartCapture
    <3>2. pp' \in PpType
      BY <2>2 DEF StartCapture, PpType
    <3> QED
      BY <2>2, <3>1, <3>2 DEF StartCapture, PpType
  <2>3. ASSUME NEW t \in Tasks, StartTimeout(t) PROVE PpTypeOK'
    <3>1. timer' \in [Deferred -> Off .. LongMax]
      BY <1>0, <2>3 DEF StartTimeout
    <3> QED
      BY <2>3, <3>1 DEF StartTimeout
  <2>4. ASSUME NEW t \in Tasks, NEW long \in BOOLEAN, NEW cb \in Callbacks,
               physical_detect_start(t, long, cb)
        PROVE  PpTypeOK'
    <3>1. PICK n \in {0, ShortCount, LongCount} :
            pp' = [pp EXCEPT !.needed = n, !.count = 0, !.since = 0,
                             !.callback = cb, !.state = "BETWEEN_PRESSES"]
      BY <2>4 DEF physical_detect_start
    <3>2. "BETWEEN_PRESSES" \in PpStates /\ 0 \in 0 .. LongCount /\ 0 \in 0 .. LongAgo
      BY DEF PpStates
    <3>3. pp' \in PpType
      BY <3>1, <3>2, Zenon DEF PpType
    <3>4. timer' = timer /\ chk' = chk /\ presses' \in 0 .. LongCount
      BY <2>4, <3>2 DEF physical_detect_start
    <3> QED
      BY <3>3, <3>4 DEF PpType
  <2>5. ASSUME PromptCall \/ DoneCall PROVE PpTypeOK'
    BY <2>5 DEF PromptCall, DoneCall, Call
  <2>6. ASSUME PressCall PROVE PpTypeOK'
    <3>1. timer' \in [Deferred -> Off .. LongMax]
      BY <1>0, <2>6 DEF PressCall, Call
    <3>2. chk' \in [dt : 0 .. LongAgo, age : 0 .. LongAgo]
      BY <2>6 DEF PressCall
    <3> QED
      BY <2>6, <3>1, <3>2 DEF PressCall
  <2>7. ASSUME physical_detect_prompt PROVE PpTypeOK'
    BY <2>7 DEF physical_detect_prompt, PpStates
  <2>8. ASSUME physical_detect_check_press PROVE PpTypeOK'
    <3>1. CASE Counts
      <4>1. pp.count + 1 \in 0 .. LongCount
        BY <3>1 DEF Counts
      <4>2. pp' \in PpType
        BY <2>8, <3>1, <4>1 DEF physical_detect_check_press, PpStates, PpType
      <4>3. timer' \in [Deferred -> Off .. LongMax]
        BY <2>8, <3>1 DEF physical_detect_check_press
      <4> QED
        BY <2>8, <4>2, <4>3 DEF physical_detect_check_press, NoPress, PpType
    <3>2. CASE ~Counts
      BY <2>8, <3>2 DEF physical_detect_check_press, NoPress
    <3> QED
      BY <3>1, <3>2
  <2>9. ASSUME physical_detect_done PROVE PpTypeOK'
    BY <2>9 DEF physical_detect_done, CallbackDue, PpStates
  <2>10. ASSUME DoneFinish PROVE PpTypeOK'
    BY <2>10 DEF DoneFinish, PpStates
  <2>11. ASSUME physical_detect_abort PROVE PpTypeOK'
    BY <2>11 DEF physical_detect_abort, PpStates
  <2>12. ASSUME physical_detect_press PROVE PpTypeOK'
    <3>1. timer' \in [Deferred -> Off .. LongMax]
      BY <1>0, <2>12 DEF physical_detect_press
    <3>2. presses' \in 0 .. LongCount
      BY <2>12 DEF physical_detect_press
    <3> QED
      BY <2>12, <3>1, <3>2 DEF physical_detect_press
  <2>13. ASSUME Tick PROVE PpTypeOK'
    BY <2>13 DEF Tick, Later
  <2>14. CASE UNCHANGED ppVars
    BY <2>14 DEF ppVars
  <2> QED
    BY <2>1, <2>2, <2>3, <2>4, <2>5, <2>6, <2>7, <2>8, <2>9, <2>10, <2>11,
       <2>12,
       <2>13, <2>14, DetectorSteps DEF DetectorStep, PpStep
<1> QED
  BY <1>1, <1>2, CcdTypes, PTL DEF Spec

\* physical_detect_done() is in the middle of it: it calls the callback, the
\* callback is at work, or it is about to end.
FinishPath ==
    \/ pc["HOOKS"] \in {"finish", "callback"}
    \/ /\ pc["HOOKS"] \in {"opened", "wipe", "wiped", "policy", "notify", "save"}
       /\ loc["HOOKS"].next = "finish"

\* The callback comes back to physical_detect_done().
LEMMA PathStep ==
    ASSUME Typed, [Next]_vars, FinishPath
    PROVE  Restart \/ DoneFinish \/ FinishPath'
<1>1. pc \in [Tasks -> Steps] /\ loc \in [Tasks -> LocType]
      /\ Tasks = {"HOOKS", "TPM", "CONSOLE"} /\ Sources = {"ap", "alt", "usb"}
  BY DEF Typed, ControlTyped, Tasks, Sources
<1>2. \A s, n : Locals(s, n).next = n
  BY DEF Locals
<1>3. pc["HOOKS"] \notin {"idle", "alt", "capture", "timeout", "prompt", "press",
         "done", "pp_long", "pp_short", "pp_unlock", "sync", "sync_wipe",
         "sync_result", "unlocked", "factory", "challenge", "wp_on", "wp_off",
         "write_on", "write_off"}
  BY DEF FinishPath
<1>4. ASSUME pc'["HOOKS"] = pc["HOOKS"], loc'["HOOKS"] = loc["HOOKS"]
      PROVE  FinishPath'
  BY <1>4 DEF FinishPath
<1>5. ASSUME NEW t \in Tasks, StartCapture(t) /\ UNCHANGED ccdVars
      PROVE  FinishPath'
  <2>1. CASE t # "HOOKS"
    BY <1>5, <1>1, <1>4, <2>1 DEF StartCapture, GoTo, ccdVars
  <2>2. CASE t = "HOOKS"
    BY <1>5, <1>1, <1>2, <1>3, <2>2 DEF StartCapture, GoTo, At, FinishPath
  <2> QED
    BY <2>1, <2>2
<1>6. ASSUME NEW t \in Tasks, StartTimeout(t) /\ UNCHANGED ccdVars
      PROVE  FinishPath'
  <2>1. CASE t # "HOOKS"
    BY <1>6, <1>1, <1>4, <2>1 DEF StartTimeout, Return, ccdVars
  <2>2. CASE t = "HOOKS"
    BY <1>6, <1>1, <1>2, <1>3, <2>2 DEF StartTimeout, Return, At, FinishPath
  <2> QED
    BY <2>1, <2>2
<1>7. ASSUME NEW t \in Tasks, StartDetection(t) PROVE FinishPath'
  <2>1. CASE t # "HOOKS"
    BY <1>7, <1>1, <1>4, <2>1 DEF StartDetection, physical_detect_start, GoTo,
       Return, ccdVars
  <2>2. CASE t = "HOOKS"
    BY <1>7, <1>1, <1>2, <1>3, <2>2 DEF StartDetection, physical_detect_start,
       GoTo, Return, At, FinishPath
  <2> QED
    BY <2>1, <2>2
<1>8. ASSUME NEW t \in Tasks, OpenDone(t) PROVE FinishPath'
  <2>1. CASE t # "HOOKS"
    BY <1>8, <1>1, <1>4, <2>1 DEF OpenDone, Then, GoTo, ccdVars
  <2>2. CASE t = "HOOKS"
    BY <1>8, <1>1, <1>2, <1>3, <2>2 DEF OpenDone, Then, GoTo, At, FinishPath
  <2> QED
    BY <2>1, <2>2
<1>9. ASSUME NEW t \in Tasks, Opened(t) PROVE FinishPath'
  <2>1. CASE t # "HOOKS"
    BY <1>9, <1>1, <1>4, <2>1 DEF Opened, ccd_set_state, Then, GoTo, Return,
       ccdVars
  <2>2. CASE t = "HOOKS"
    BY <1>9, <1>1, <1>2, <1>3, <2>2 DEF Opened, ccd_set_state, Then, GoTo,
       Return, At, FinishPath
  <2> QED
    BY <2>1, <2>2
<1>10. ASSUME NEW t \in Tasks, ccd_unlock_done(t) PROVE FinishPath'
  <2>1. CASE t # "HOOKS"
    BY <1>10, <1>1, <1>4, <2>1 DEF ccd_unlock_done, ccd_set_state, Then, GoTo,
       Return, ccdVars
  <2>2. CASE t = "HOOKS"
    BY <1>10, <1>1, <1>2, <1>3, <2>2 DEF ccd_unlock_done, ccd_set_state, Then,
       GoTo, Return, At, FinishPath
  <2> QED
    BY <2>1, <2>2
<1>11. ASSUME NEW t \in Tasks, tpm_sync_reset(t) PROVE FinishPath'
  <2>1. CASE t # "HOOKS"
    BY <1>11, <1>1, <1>4, <2>1 DEF tpm_sync_reset, GoTo, ccdVars
  <2>2. CASE t = "HOOKS"
    BY <1>11, <1>1, <1>2, <1>3, <2>2 DEF tpm_sync_reset, GoTo, At, FinishPath
  <2> QED
    BY <2>1, <2>2
<1>12. ASSUME NEW t \in Tasks, SyncResult(t) PROVE FinishPath'
  <2>1. CASE t # "HOOKS"
    BY <1>12, <1>1, <1>4, <2>1 DEF SyncResult, GoTo, Return, ccdVars
  <2>2. CASE t = "HOOKS"
    BY <1>12, <1>1, <1>2, <1>3, <2>2 DEF SyncResult, GoTo, Return, At,
       FinishPath
  <2> QED
    BY <2>1, <2>2
<1>13. ASSUME NEW t \in Tasks, rma_create_challenge(t) PROVE FinishPath'
  <2>1. CASE t # "HOOKS"
    BY <1>13, <1>1, <1>4, <2>1 DEF rma_create_challenge, Return, ccdVars
  <2>2. CASE t = "HOOKS"
    BY <1>13, <1>1, <1>2, <1>3, <2>2 DEF rma_create_challenge, Return, At,
       FinishPath
  <2> QED
    BY <2>1, <2>2
<1>14. ASSUME NEW t \in Tasks, Save(t) PROVE FinishPath'
  <2>1. CASE t # "HOOKS"
    BY <1>14, <1>1, <1>4, <2>1 DEF Save, Then, Continue, GoTo, Return, ccdVars
  <2>2. CASE t = "HOOKS"
    BY <1>14, <1>1, <1>2, <1>3, <2>2 DEF Save, Then, Continue, GoTo, Return,
       At, FinishPath
  <2> QED
    BY <2>1, <2>2
<1>15. ASSUME NEW t \in Tasks, Notify(t) PROVE FinishPath'
  <2>1. CASE t # "HOOKS"
    BY <1>15, <1>1, <1>4, <2>1 DEF Notify, Continue, GoTo, Return, ccdVars
  <2>2. CASE t = "HOOKS"
    BY <1>15, <1>1, <1>2, <1>3, <2>2 DEF Notify, Continue, GoTo, Return, At,
       FinishPath
  <2> QED
    BY <2>1, <2>2
<1>16. ASSUME PromptCall /\ UNCHANGED ccdVars PROVE FinishPath'
  BY <1>16, <1>3 DEF PromptCall, Call, At
<1>17. ASSUME physical_detect_prompt /\ UNCHANGED ccdVars PROVE FinishPath'
  BY <1>17, <1>3 DEF physical_detect_prompt, At
<1>18. ASSUME PressCall /\ UNCHANGED ccdVars PROVE FinishPath'
  BY <1>18, <1>3 DEF PressCall, Call, At
<1>19. ASSUME physical_detect_check_press /\ UNCHANGED ccdVars PROVE FinishPath'
  BY <1>19, <1>3 DEF physical_detect_check_press, At
<1>20. ASSUME DoneCall /\ UNCHANGED ccdVars PROVE FinishPath'
  BY <1>20, <1>3 DEF DoneCall, Call, At
<1>21. ASSUME physical_detect_done /\ UNCHANGED ccdVars PROVE FinishPath'
  BY <1>21, <1>3 DEF physical_detect_done, At
<1>22. ASSUME ccd_testlab_toggle PROVE FinishPath'
  BY <1>22, <1>1, <1>2 DEF ccd_testlab_toggle, GoTo, Then, At, FinishPath
<1>23. ASSUME WipeStop PROVE FinishPath'
  BY <1>23, <1>1, <1>2 DEF WipeStop, GoTo, Then, At, FinishPath
<1>24. ASSUME WipePolicy PROVE FinishPath'
  BY <1>24, <1>1, <1>2 DEF WipePolicy, GoTo, Then, At, FinishPath
<1>25. ASSUME factory_enable_deferred PROVE FinishPath'
  BY <1>25, <1>3 DEF factory_enable_deferred, At
<1>26. ASSUME FactoryReset PROVE FinishPath'
  BY <1>26, <1>3 DEF FactoryReset, At
<1>27. ASSUME check_wp_battery_presence PROVE FinishPath'
  BY <1>27, <1>3 DEF check_wp_battery_presence, At
<1>28. ASSUME MirrorRead PROVE FinishPath'
  BY <1>28, <1>3 DEF MirrorRead, At
<1>29. ASSUME MirrorWrite PROVE FinishPath'
  BY <1>29, <1>3 DEF MirrorWrite, At
<1>30. ASSUME TpmWipe PROVE FinishPath'
  BY <1>30, <1>1, <1>2 DEF TpmWipe, GoTo, Then, At, FinishPath
<1>31. ASSUME DisableReset PROVE FinishPath'
  BY <1>31, <1>1, <1>4 DEF DisableReset, ResetCommand, Then, GoTo, Return,
     ccd_set_state
<1>32. ASSUME DisableLock PROVE FinishPath'
  BY <1>32, <1>1, <1>4 DEF DisableLock, Then, GoTo, Return, ccd_set_state
<1>33. ASSUME DisableWp PROVE FinishPath'
  BY <1>33, <1>1, <1>4 DEF DisableWp, Then, GoTo, Return, ccd_set_state
<1>34. ASSUME FwmpInform PROVE FinishPath'
  BY <1>34, <1>1, <1>4 DEF FwmpInform, Then, GoTo, Return, ccd_set_state
<1>35. ASSUME NEW src \in Sources, ccd_open(src) PROVE FinishPath'
  BY <1>35, <1>1, <1>3, <1>4 DEF ccd_open, AbortOr, Command, OpenStep,
     Receives, Runner, Begin, At
<1>36. ASSUME NEW src \in Sources, ccd_unlock(src) PROVE FinishPath'
  BY <1>36, <1>1, <1>3, <1>4 DEF ccd_unlock, AbortOr, Command, Receives,
     Runner, Begin, At
<1>37. ASSUME NEW src \in Sources, ccd_lock(src) PROVE FinishPath'
  BY <1>37, <1>1, <1>3, <1>4 DEF ccd_lock, Command, Receives, Runner, Begin,
     At
<1>38. ASSUME NEW src \in Sources, get_challenge(src) PROVE FinishPath'
  BY <1>38, <1>1, <1>3, <1>4 DEF get_challenge, Command, Receives, Runner,
     Begin, At
<1>39. ASSUME ccd_password PROVE FinishPath'
  BY <1>39, <1>1, <1>3, <1>4 DEF ccd_password, Command, Receives, Runner,
     Begin, At
<1>40. ASSUME command_ccd_reset PROVE FinishPath'
  BY <1>40, <1>1, <1>4 DEF command_ccd_reset, ResetCommand, Then, GoTo,
     Return, ccd_set_state
<1>41. ASSUME command_ccd_set PROVE FinishPath'
  BY <1>41, <1>1, <1>4 DEF command_ccd_set, Then, GoTo, Return, ccd_set_state
<1>42. ASSUME TestlabOpen PROVE FinishPath'
  BY <1>42, <1>1, <1>4 DEF TestlabOpen, Then, GoTo, Return, ccd_set_state
<1>43. ASSUME TestlabChange PROVE FinishPath'
  BY <1>43, <1>1, <1>4 DEF TestlabChange, physical_detect_start, Then, GoTo,
     Return, ccd_set_state
<1>44. ASSUME ccd_disable_factory_mode PROVE FinishPath'
  BY <1>44, <1>1, <1>4 DEF ccd_disable_factory_mode, Then, GoTo, Return,
     ccd_set_state
<1>45. ASSUME command_wp PROVE FinishPath'
  BY <1>45, <1>1, <1>4 DEF command_wp, Then, GoTo, Return, ccd_set_state
<1>46. ASSUME command_bpforce PROVE FinishPath'
  BY <1>46, <1>1, <1>4 DEF command_bpforce, Then, GoTo, Return, ccd_set_state
<1>47. ASSUME FwmpWrite PROVE FinishPath'
  BY <1>47, <1>1, <1>3, <1>4 DEF FwmpWrite, Command, Receives, Runner, Begin,
     At
<1>48. CASE UNCHANGED <<pc, loc>>
  BY <1>48, <1>4
<1> QED
  BY <1>4, <1>5, <1>6, <1>7, <1>8, <1>9, <1>10, <1>11, <1>12, <1>13, <1>14,
     <1>15, <1>16, <1>17, <1>18, <1>19, <1>20, <1>21, <1>22, <1>23, <1>24,
     <1>25, <1>26, <1>27, <1>28, <1>29, <1>30, <1>31, <1>32, <1>33, <1>34,
     <1>35, <1>36, <1>37, <1>38, <1>39, <1>40, <1>41, <1>42, <1>43, <1>44,
     <1>45, <1>46, <1>47, <1>48 DEF Restart, Next, TaskStep, HooksStep,
     PpStep, TpmStep, Commands, Outside, process_response, ccd_password_fails,
     vc_factory_reset, vc_set_wp, FwmpUndefine, physical_detect_press, Tick,
     BatteryChange, DevMode, ApReset, vars, ccdVars, Command, Console

\* Between its start and its end physical_detect_done() owns the state, because
\* no other function of HOOKS runs meanwhile.
FinishInv == pp.state = "FINISHING" => FinishPath

\* A restart leaves an idle detector.
LEMMA RestartDetector ==
    Restart => pp' = PpInit /\ timer' = TimersOff /\ chk' = NoPress /\ presses' = 0
BY DEF Restart, WipeFails, PowerLoss, DeepSleep, Boot

\* Only physical_detect_done() begins the end.
LEMMA FinishInvStep == Typed /\ PpTypeOK /\ FinishInv /\ [Next]_vars => FinishInv'
<1> SUFFICES ASSUME Typed, PpTypeOK, FinishInv, [Next]_vars, ~Restart,
                    pp'.state = "FINISHING"
             PROVE  FinishPath'
  <2>1. ASSUME Restart PROVE pp'.state # "FINISHING"
    BY <2>1, RestartDetector DEF PpInit
  <2> QED
    BY <2>1 DEF FinishInv
<1>1. pc \in [Tasks -> Steps] /\ "HOOKS" \in Tasks
  BY DEF Typed, ControlTyped, Tasks
<1>2. CASE physical_detect_done
  BY <1>1, <1>2 DEF physical_detect_done, GoTo, FinishPath
<1>3. CASE ~physical_detect_done
  <2>1. pp.state = "FINISHING" /\ ~DoneFinish
    BY <1>3, DetectorSteps
       DEF DetectorStep, PpStep, StartCapture, StartTimeout,
       physical_detect_start,
           PromptCall, physical_detect_prompt, PressCall,
           physical_detect_check_press, DoneCall, DoneFinish,
           physical_detect_abort, physical_detect_press, Tick, ppVars, PpTypeOK
  <2> QED
    BY <2>1, PathStep DEF FinishInv
<1> QED
  BY <1>2, <1>3

\* The parts of DetectionWillEnd hand over to each other.
LEMMA EndStep ==
    Typed /\ PpTypeOK /\ FinishInv /\ DetectionWillEnd /\ [Next]_vars
      => DetectionWillEnd'
<1> SUFFICES ASSUME Typed, PpTypeOK, FinishInv, DetectionWillEnd, [Next]_vars,
                    ~Restart, pp'.callback # NoCallback
             PROVE  DetectionWillEnd'
  <2>1. ASSUME Restart PROVE pp'.callback = NoCallback
    BY <2>1, RestartDetector DEF PpInit
  <2> QED
    BY <2>1 DEF DetectionWillEnd
<1>1. pc \in [Tasks -> Steps] /\ "HOOKS" \in Tasks
  BY DEF Typed, ControlTyped, Tasks
<1>2. timer \in [Deferred -> Off .. LongMax] /\ Off \notin {0, ShortMax, LongMax}
      /\ {"prompt", "press", "done"} = Deferred /\ Off \in Int
  BY IntervalAssumption DEF PpTypeOK, Off, Deferred
<1>3. \A u \in Tasks : Flow(u)
  BY FlowStep
<1>4. ASSUME NEW t \in Tasks, pc[t] \in {"capture", "timeout"}
      PROVE  DetectionWillEnd'
  <2>1. CASE pc'[t] = pc[t]
    BY <1>4, <2>1 DEF DetectionWillEnd
  <2>2. CASE StartCapture(t)
    BY <1>1, <2>2 DEF StartCapture, GoTo, DetectionWillEnd
  <2>3. CASE StartTimeout(t)
    BY <1>2, <2>3 DEF StartTimeout, DetectionWillEnd
  <2> QED
    BY <1>3, <1>4, <2>1, <2>2, <2>3 DEF Flow
<1>5. CASE pc["HOOKS"] = "done"
  <2>1. CASE physical_detect_done
    BY <2>1 DEF physical_detect_done, PpTypeOK, DetectionWillEnd
  <2> QED
    BY <1>1, <1>3, <1>5, <2>1 DEF Flow, DetectionWillEnd
<1>6. CASE pp.state = "FINISHING"
  <2>1. pc["HOOKS"] \notin {"prompt", "press"}
    BY <1>6 DEF FinishInv, FinishPath
  <2>2. pp'.state = "FINISHING"
    BY <1>6, <2>1, DetectorSteps
       DEF DetectorStep, PpStep, StartCapture, StartTimeout,
       physical_detect_start,
           physical_detect_busy, PromptCall, physical_detect_prompt, PressCall,
           physical_detect_check_press, DoneCall, physical_detect_done,
           DoneFinish,
           physical_detect_abort, pp_detect_in_progress, physical_detect_press,
           Tick, ppVars, PpTypeOK, At
  <2> QED
    BY <2>2 DEF DetectionWillEnd
<1>7. CASE timer["done"] # Off
  <2>1. timer'["done"] # Off \/ pc'["HOOKS"] = "done"
    <3>1. CASE Tick
      BY <1>2, <1>7, <3>1 DEF Tick, Off
    <3>2. CASE DoneCall
      BY <1>1, <3>2 DEF DoneCall, Call, GoTo
    <3>3. CASE physical_detect_check_press
      BY <1>2, <1>7, <3>3 DEF physical_detect_check_press
    <3> QED
      BY <1>2, <1>7, <3>1, <3>2, <3>3, DetectorSteps
         DEF DetectorStep, PpStep, StartCapture, StartTimeout,
             physical_detect_start, PromptCall, Call, physical_detect_prompt,
             PressCall, physical_detect_done, DoneFinish, physical_detect_abort,
             physical_detect_press, ppVars
  <2> QED
    BY <2>1 DEF DetectionWillEnd
<1>8. CASE pp.callback = NoCallback
  <2>1. PICK t \in Tasks, long \in BOOLEAN, cb \in Callbacks :
          physical_detect_start(t, long, cb)
    BY <1>8, DetectorSteps
       DEF DetectorStep, PpStep, StartCapture, StartTimeout, PromptCall,
           physical_detect_prompt, PressCall, physical_detect_check_press,
           DoneCall,
           physical_detect_done, CallbackDue, DoneFinish, physical_detect_abort,
           physical_detect_press, Tick, ppVars, PpTypeOK
  <2> QED
    BY <1>1, <2>1 DEF physical_detect_start, GoTo, DetectionWillEnd
<1> QED
  BY <1>4, <1>5, <1>6, <1>7, <1>8 DEF DetectionWillEnd

\* For every press count and every interval, and whatever the tasks and the
\* timers do: whenever a callback is set, the call of physical_detect_done()
\* that drops or calls it is scheduled or on its way.
THEOREM DetectionsEnd == Spec => []DetectionWillEnd
<1>1. Init => FinishInv /\ DetectionWillEnd
  BY DEF Init, PpInit, FinishInv, DetectionWillEnd
<1> QED
  BY <1>1, FinishInvStep, EndStep, CcdTypes, DetectorTypes, PTL DEF Spec

----------------------------------------------------------------------------
(* The presses.                                                            *)

\* Presses that may still be counted: one whose deferred function has begun,
\* and one that waits for it, unless a start is about to cancel it.
Begun == IF pc["HOOKS"] = "press" THEN 1 ELSE 0

Waiting ==
    IF timer["press"] = Off \/ \E t \in Tasks : pc[t] = "capture" THEN 0 ELSE 1

\* No press is counted twice.
PressInv == presses = LongCount \/ pp.count + Begun + Waiting <= presses + 1

\* Nobody starts a detection while a callback runs.
CallbackInv ==
    pc["HOOKS"] = "callback" => pp.state = "FINISHING" /\ presses + 1 >= pp.needed

\* A press is waiting, then its function has begun, then it is counted.
LEMMA PressStep == Typed /\ PpTypeOK /\ PressInv /\ [Next]_vars => PressInv'
<1> SUFFICES ASSUME Typed, PpTypeOK, PressInv, [Next]_vars PROVE PressInv'
  OBVIOUS
<1>0. ASSUME Restart PROVE PressInv'
  <2>1. pp'.count = 0 /\ timer'["press"] = Off /\ presses' = 0
    BY <1>0, RestartDetector DEF PpInit, TimersOff, Deferred
  <2>2. pc'["HOOKS"] = "idle"
    BY <1>0, RestartEffect DEF Tasks
  <2> QED
    BY <2>1, <2>2 DEF PressInv, Begun, Waiting
<1> SUFFICES ASSUME ~Restart PROVE PressInv'
  BY <1>0
<1>1. pc \in [Tasks -> Steps] /\ Tasks = {"HOOKS", "TPM", "CONSOLE"}
  BY DEF Typed, ControlTyped, Tasks
<1>2. /\ timer \in [Deferred -> Off .. LongMax] /\ "press" \in Deferred
      /\ Off \in Int /\ Off < 0
      /\ pp.count \in 0 .. LongCount /\ presses \in 0 .. LongCount
      /\ LongCount \in Nat
  BY IntervalAssumption DEF PpTypeOK, Off, Deferred
<1>3. \A u \in Tasks : Flow(u)
  BY FlowStep
<1>4. /\ Begun \in 0 .. 1 /\ Begun' \in 0 .. 1
      /\ Waiting \in 0 .. 1 /\ Waiting' \in 0 .. 1
  BY DEF Begun, Waiting
<1>5. PressCall \/ Begun' <= Begun
  BY <1>1, <1>3 DEF Flow, Begun
<1>6. \/ timer["press"] = Off /\ timer'["press"] # Off
      \/ Waiting' <= Waiting
  <2>1. ASSUME NEW t \in Tasks, pc[t] = "capture"
        PROVE  pc'[t] = "capture" \/ timer'["press"] = Off
    <3>1. CASE StartCapture(t)
      BY <1>2, <3>1 DEF StartCapture, Deferred
    <3> QED
      BY <1>3, <2>1, <3>1 DEF Flow
  <2> QED
    BY <1>4, <2>1 DEF Waiting
<1>7. CASE PressCall
  <2>1. Begun = 0 /\ Waiting = 1
    BY <1>1, <1>2, <1>7 DEF PressCall, Call, At, MayRun, Begun, Waiting
  <2>2. Waiting' = 0 /\ pp' = pp /\ presses' = presses
    BY <1>2, <1>7 DEF PressCall, Call, Waiting
  <2> QED
    BY <1>2, <1>4, <2>1, <2>2 DEF PressInv
<1>8. CASE physical_detect_press
  <2>1. pp' = pp /\ Begun' <= Begun
    BY <1>8, <1>4 DEF physical_detect_press, Begun
  <2>2. presses' = LongCount \/ presses' = presses + 1
    BY <1>2, <1>8 DEF physical_detect_press
  <2> QED
    BY <1>2, <1>4, <2>1, <2>2 DEF PressInv
<1>9. ASSUME NEW t \in Tasks, NEW long \in BOOLEAN, NEW cb \in Callbacks,
             physical_detect_start(t, long, cb)
      PROVE  PressInv'
  <2>1. pp'.count = 0 /\ presses' = 0
    BY <1>9 DEF physical_detect_start, PpTypeOK
  <2>2. Waiting' = 0
    BY <1>1, <1>9 DEF physical_detect_start, GoTo, Waiting
  <2>3. pp'.count + Begun' + Waiting' <= presses' + 1
    <3>1. 0 + Begun' + 0 <= 0 + 1
      BY DEF Begun
    <3> QED
      BY <2>1, <2>2, <3>1, Zenon
  <2> QED
    BY <2>3 DEF PressInv
<1>10. CASE physical_detect_check_press
  <2>1. Begun = 1 /\ Begun' = 0
    BY <1>1, <1>10 DEF physical_detect_check_press, At, Return, Begun
  <2>2. pp'.count <= pp.count + 1 /\ pp'.count \in Int /\ presses' = presses
    <3>1. CASE Counts
      <4>1. /\ pp' = [pp EXCEPT !.state = "BETWEEN_PRESSES", !.count = pp.count + 1,
                                 !.since = chk.age]
            /\ presses' = presses
        BY <1>10, <3>1 DEF physical_detect_check_press
      <4>2. pp'.count = pp.count + 1
        BY <4>1 DEF PpTypeOK
      <4> QED
        BY <1>2, <4>1, <4>2
    <3>2. CASE ~Counts
      BY <1>2, <1>10, <3>2 DEF physical_detect_check_press
    <3> QED
      BY <3>1, <3>2
  <2>3. timer'["press"] = timer["press"]
    BY <1>2, <1>10 DEF physical_detect_check_press, Deferred
  <2>4. Waiting' <= Waiting
    BY <1>6, <2>3
  <2> QED
    BY <1>2, <1>4, <2>1, <2>2, <2>4 DEF PressInv
<1>11. ASSUME pp'.count = pp.count, presses' = presses, ~PressCall,
              timer["press"] = Off => timer'["press"] = Off
       PROVE  PressInv'
  BY <1>2, <1>4, <1>5, <1>6, <1>11 DEF PressInv
<1>12. CASE Tick
  <2>1. ~PressCall
    BY <1>1, <1>12 DEF Tick, PressCall, Call, At, GoTo
  <2> QED
    BY <1>2, <1>11, <1>12, <2>1 DEF Tick, PpTypeOK
<1>13. ASSUME NEW t \in Tasks, StartCapture(t) \/ StartTimeout(t)
       PROVE  PressInv'
  BY <1>2, <1>7, <1>11, <1>13 DEF StartCapture, StartTimeout, PpTypeOK, Deferred
<1>14. CASE PromptCall \/ physical_detect_prompt \/ DoneCall \/ physical_detect_done
            \/ DoneFinish
  BY <1>2, <1>7, <1>11, <1>14 DEF PromptCall, physical_detect_prompt, DoneCall,
     physical_detect_done, DoneFinish, Call, PpTypeOK, Deferred
<1>15. CASE physical_detect_abort
  BY <1>2, <1>7, <1>11, <1>15 DEF physical_detect_abort, PpTypeOK, Deferred
<1>16. CASE UNCHANGED ppVars
  BY <1>7, <1>11, <1>16 DEF ppVars
<1> QED
  BY <1>7, <1>8, <1>9, <1>10, <1>12, <1>13, <1>14, <1>15, <1>16, DetectorSteps
     DEF DetectorStep, PpStep

\* A callback is called after the presses that it needs.
LEMMA CallbackStep ==
    Typed /\ PpTypeOK /\ PressInv /\ CallbackInv /\ [Next]_vars => CallbackInv'
<1> SUFFICES ASSUME Typed, PpTypeOK, PressInv, CallbackInv, [Next]_vars,
                    pc'["HOOKS"] = "callback"
             PROVE  pp'.state = "FINISHING" /\ presses' + 1 >= pp'.needed
  BY DEF CallbackInv
<1>0. ~Restart
  BY RestartEffect DEF Tasks
<1>1. pc \in [Tasks -> Steps] /\ "HOOKS" \in Tasks
  BY DEF Typed, ControlTyped, Tasks
<1>2. /\ pp.count \in 0 .. LongCount /\ pp.needed \in 0 .. LongCount
      /\ presses \in 0 .. LongCount /\ LongCount \in Nat
  BY IntervalAssumption DEF PpTypeOK
<1>3. CASE pc["HOOKS"] # "callback"
  <2>1. physical_detect_done
    BY <1>0, <1>1, <1>3, FlowStep DEF Flow
  <2>2. pp.count >= pp.needed
    BY <1>1, <2>1 DEF physical_detect_done, GoTo, CallbackDue
  <2>3. Begun \in 0 .. 1 /\ Waiting \in 0 .. 1
    BY DEF Begun, Waiting
  <2>4. presses + 1 >= pp.needed
    BY <1>2, <2>2, <2>3 DEF PressInv
  <2> QED
    BY <2>1, <2>4 DEF physical_detect_done, PpTypeOK
<1>4. CASE pc["HOOKS"] = "callback"
  <2>1. pp.state = "FINISHING" /\ presses + 1 >= pp.needed
    BY <1>4 DEF CallbackInv
  <2>2. pp'.state = pp.state /\ pp'.needed = pp.needed
    BY <1>0, <1>4, <2>1, DetectorSteps
       DEF DetectorStep, PpStep, StartCapture, StartTimeout,
       physical_detect_start,
           physical_detect_busy, PromptCall, physical_detect_prompt,
           PressCall, Call,
           physical_detect_check_press, DoneCall, physical_detect_done,
           DoneFinish,
           physical_detect_abort, pp_detect_in_progress, physical_detect_press,
           Tick, ppVars, PpTypeOK, At
  <2>3. presses' \in {presses, presses + 1}
    BY <1>0, <1>4, <2>1, DetectorSteps
       DEF DetectorStep, PpStep, StartCapture, StartTimeout,
       physical_detect_start,
           physical_detect_busy, PromptCall, physical_detect_prompt, PressCall,
           physical_detect_check_press, DoneCall, physical_detect_done,
           DoneFinish,
           physical_detect_abort, physical_detect_press, Tick, ppVars
  <2> QED
    BY <1>2, <2>1, <2>2, <2>3
<1> QED
  BY <1>3, <1>4

\* For every press count and every interval: the callback of physical presence
\* is called only after the presses that it needs, all but one of which came
\* after physical_detect_start().
THEOREM CallbacksAfterPresses == Spec => []CallbackAfterPresses
<1>1. Init => PressInv /\ CallbackInv
  <2>1. ASSUME Init
        PROVE  /\ pp.count = 0 /\ presses = 0 /\ pc["HOOKS"] = "idle"
               /\ timer["press"] = Off
    BY <2>1 DEF Init, PpInit, TimersOff, Deferred, Tasks
  <2> QED
    BY <2>1 DEF PressInv, CallbackInv, Begun, Waiting
<1>2. CallbackInv => CallbackAfterPresses
  BY DEF CallbackInv, CallbackAfterPresses
<1> QED
  BY <1>1, <1>2, PressStep, CallbackStep, CcdTypes, DetectorTypes, PTL DEF Spec

============================================================================
