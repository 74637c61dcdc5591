------------------------- MODULE NvmemReset_proofs -------------------------
(***************************************************************************)
(* Proofs about NvmemCommit that need more than the lock: what a TPM reset *)
(* has saved when a reboot or deep sleep follows it, and that it erased    *)
(* what a wipe was asked to erase.  They rest on the priorities of the     *)
(* tasks: the HOOKS task goes on only when the TPM task has nothing to do. *)
(***************************************************************************)
EXTENDS NvmemCommit_proofs

CmdSteps == {"cmd", "cmd_nv", "cmd_next", "cmd_fwmp"}

\* What a TPM command wrote is not in flash.
Unsaved == hist.written > nv.flash

\* An unsaved write is held by the TPM task, and outside of the command that
\* made it commits are disabled: enabling them saves it.  A reset passes
\* "rst_commit" only with everything saved.
UnsavedInv ==
    /\ nv.flash <= nv.cache
    /\ hist.due <= hist.written
    /\ Unsaved =>
         /\ nv.task = "TPM"
         /\ nv.nvmem_updated
         /\ pc["TPM"] \notin {"preloop", "rst_disable", "rst_start"}
         /\ nv.commits_enabled => pc["TPM"] = "cmd_next"

\* Somebody waits for a TPM reset, or was told of it, only while the HOOKS
\* task is in tpm_reset_request() or gave up on it.
WaitInv ==
    /\ hooksEvent \/ req.waiting =>
         pc["HOOKS"] \in {"wait_wipe", "wait_reboot", "system_reset"}
    /\ ~(hooksEvent /\ req.waiting)

\* As long as something that a reboot has to save is not in flash, the TPM
\* task has the reset still to start, or is before "rst_disable" in it.
RebootInv ==
    /\ pc["HOOKS"] = "wait_reboot" /\ hist.due > nv.flash =>
         /\ ~hooksEvent
         /\ \/ pc["TPM"] = "idle" /\ "reset" \in evt
            \/ pc["TPM"] = "idle" /\ evt = {} /\ "reset" \in events
            \/ pc["TPM"] \in {"rst_stop", "rst_commit"}
    /\ pc["HOOKS"] = "reboot" => hist.due <= nv.flash

----------------------------------------------------------------------------
(* The functions of nvmem.c, field by field.                               *)

\* A reader leaves the lock as it found it.
LEMMA ReadIs ==
    ASSUME NEW n, NvType(n), NEW t \in Tasks, n.task \in {t, NoTask},
           n.write_in_progress \/ ~n.commits_enabled => n.task # NoTask
    PROVE  LET m == nvmem_read(n, t) IN
           /\ m.write_in_progress = n.write_in_progress
           /\ m.commits_enabled = n.commits_enabled
           /\ m.nvmem_updated = n.nvmem_updated
           /\ m.cache = n.cache /\ m.flash = n.flash /\ m.writes = n.writes
           /\ m.task = IF n.write_in_progress \/ ~n.commits_enabled
                       THEN t ELSE NoTask
BY DEF nvmem_read, nvmem_lock_cache, nvmem_release_cache, NvType

\* A writer takes the lock and keeps it.
LEMMA WriteIs ==
    ASSUME NEW n, NvType(n), NEW t \in Tasks
    PROVE  LET m == nvmem_write(n, t) IN
           /\ m.task = t
           /\ m.write_in_progress /\ m.nvmem_updated
           /\ m.commits_enabled = n.commits_enabled
           /\ m.cache = n.writes + 1 /\ m.writes = n.writes + 1
           /\ m.flash = n.flash
BY DEF nvmem_write, nvmem_lock_cache, NvType

\* A commit of the owner saves an update and frees the lock, unless commits
\* are disabled.
LEMMA CommitIs ==
    ASSUME NEW n, NvType(n), NEW t \in Tasks
    PROVE  LET m == nvmem_commit(n, t) IN
           /\ m.commits_enabled = n.commits_enabled
           /\ m.cache = n.cache /\ m.writes = n.writes
           /\ n.task # t \/ ~n.commits_enabled => m = n
           /\ n.task = t /\ n.commits_enabled /\ n.nvmem_updated =>
                /\ m.flash = n.cache /\ m.task = NoTask
                /\ ~m.nvmem_updated /\ ~m.write_in_progress
           /\ ~n.nvmem_updated =>
                /\ m.flash = n.flash /\ ~m.nvmem_updated
                /\ m.write_in_progress = n.write_in_progress
                /\ n.task = t /\ n.commits_enabled =>
                     m.task = IF n.write_in_progress THEN t ELSE NoTask
BY DEF nvmem_commit, nvmem_save, nvmem_unlock_cache, nvmem_release_cache,
       NvType

\* Enabling the commits is a commit when it is done by the owner.
LEMMA EnableIs ==
    ASSUME NEW n, NvType(n), NEW t \in Tasks
    PROVE  LET m == nvmem_enable_commits(n, t) IN
           /\ m.cache = n.cache /\ m.writes = n.writes
           /\ n.task # t \/ n.commits_enabled => m = n
           /\ n.task = t /\ ~n.commits_enabled =>
                /\ m.commits_enabled
                /\ ~m.nvmem_updated
                /\ n.nvmem_updated => /\ m.flash = n.cache /\ m.task = NoTask
                                      /\ ~m.write_in_progress
                /\ ~n.nvmem_updated =>
                     /\ m.flash = n.flash
                     /\ m.write_in_progress = n.write_in_progress
                     /\ m.task = IF n.write_in_progress THEN t ELSE NoTask
<1> DEFINE k == [n EXCEPT !.commits_enabled = TRUE]
<1>1. NvType(k)
  BY DEF NvType
<1>2. /\ k.task = n.task /\ k.commits_enabled /\ k.nvmem_updated = n.nvmem_updated
      /\ k.cache = n.cache /\ k.flash = n.flash /\ k.writes = n.writes
      /\ k.write_in_progress = n.write_in_progress
  BY DEF NvType
<1> HIDE DEF k
<1>3. CASE n.task # t \/ n.commits_enabled
  BY <1>3 DEF nvmem_enable_commits
<1>4. CASE n.task = t /\ ~n.commits_enabled
  <2>1. nvmem_enable_commits(n, t) = nvmem_commit(k, t)
    BY <1>4 DEF nvmem_enable_commits, k
  <2> QED
    BY <1>1, <1>2, <1>4, <2>1, CommitIs
<1> QED
  BY <1>3, <1>4

\* Disabling the commits takes the lock; manufacturing an erased TPM then
\* leaves the new data in the cache.
LEMMA DisableIs ==
    ASSUME NEW n, NvType(n), NEW t \in Tasks
    PROVE  LET m == TPM_Manufacture(nvmem_disable_commits(n, t), t) IN
           /\ m.task = t /\ ~m.commits_enabled /\ m.flash = n.flash
           /\ m.cache = n.cache \/ m.cache = n.writes + 1
           /\ n.nvmem_updated => m.nvmem_updated
           /\ m.write_in_progress => n.write_in_progress \/ m.nvmem_updated
<1> DEFINE d == nvmem_disable_commits(n, t)
<1>1. NvType(d)
  BY OpsType
<1>2. /\ d.task = t /\ ~d.commits_enabled /\ d.flash = n.flash
      /\ d.cache = n.cache /\ d.writes = n.writes
      /\ d.nvmem_updated = n.nvmem_updated
      /\ d.write_in_progress = n.write_in_progress
  BY DEF nvmem_disable_commits, nvmem_lock_cache, NvType
<1> HIDE DEF d
<1> DEFINE w == nvmem_write(d, t)
<1>3. NvType(w)
  BY <1>1, OpsType
<1>4. /\ w.task = t /\ ~w.commits_enabled /\ w.flash = n.flash
      /\ w.cache = n.writes + 1 /\ w.nvmem_updated
  BY <1>1, <1>2, WriteIs
<1> HIDE DEF w
<1>5. nvmem_commit(w, t) = w
  BY <1>3, <1>4, CommitIs
<1>6. TPM_Manufacture(d, t) = w \/ TPM_Manufacture(d, t) = d
  BY <1>5 DEF TPM_Manufacture, w
<1> QED
  BY <1>2, <1>4, <1>6 DEF d

\* An erasure empties cache and flash.
LEMMA EraseIs ==
    ASSUME NEW n, NvType(n)
    PROVE  LET m == nvmem_erase_tpm_data(n) IN
           /\ m.task = n.task /\ m.commits_enabled = n.commits_enabled
           /\ m.write_in_progress = n.write_in_progress
           /\ m.nvmem_updated = n.nvmem_updated
           /\ m.cache = 0 /\ m.flash = 0 /\ m.writes = n.writes
BY DEF nvmem_erase_tpm_data, NvType

----------------------------------------------------------------------------
(* Tasks.                                                                  *)

\* A step of one task leaves the others where they are.
LEMMA GotoIs ==
    ASSUME PcType(pc), NEW t \in Tasks, NEW s, Goto(t, s)
    PROVE  pc'[t] = s /\ \A u \in Tasks : u # t => pc'[u] = pc[u]
BY DEF PcType, Goto

\* When the HOOKS task runs the TPM task waits for an event, with none
\* taken, or for the lock.
LEMMA HooksRuns ==
    ASSUME PcType(pc), MayRun("HOOKS")
    PROVE  \/ pc["TPM"] = "preloop" /\ events = {}
           \/ pc["TPM"] = "idle" /\ events = {} /\ evt = {}
           \/ /\ pc["TPM"] \in {"cmd_nv", "cmd_fwmp", "rst_disable"}
              /\ nv.task \notin {"TPM", NoTask}
<1>1. Blocked("TPM")
  BY DEF MayRun, Priority, Tasks
<1>2. pc["TPM"] \in TpmSteps
  BY DEF PcType
<1> QED
  BY <1>1, <1>2 DEF Blocked, TpmSteps, RstSteps, LockSteps, CanLock

----------------------------------------------------------------------------
(* What is not in flash, and where the TPM task is then.                   *)

\* Nothing that the invariant of unsaved writes is about changes.
Still ==
    /\ nv' = nv
    /\ pc'["TPM"] = pc["TPM"]
    /\ hist'.written = hist.written
    /\ hist'.due \in {hist.due, hist.written}

\* Every step keeps the invariant of unsaved writes.
LEMMA UnsavedStep ==
    ASSUME TypeOK, LockInv, UnsavedInv, [Next]_vars
    PROVE  UnsavedInv'
<1> USE DEF Tasks
<1>0. /\ NvType(nv) /\ PcType(pc) /\ HistType(hist)
      /\ nv.flash \in Nat /\ nv.cache \in Nat /\ nv.writes \in Nat
      /\ hist.written \in Nat /\ hist.due \in Nat
      /\ hist.written <= nv.cache
      /\ nv.cache <= nv.writes /\ nv.flash <= nv.writes
      /\ nv.write_in_progress \/ ~nv.commits_enabled => nv.task # NoTask
      /\ nv.flash <= nv.cache
      /\ hist.due <= hist.written
      /\ hist.written > nv.flash =>
           /\ nv.task = "TPM"
           /\ nv.nvmem_updated
           /\ pc["TPM"] \notin {"preloop", "rst_disable", "rst_start"}
           /\ nv.commits_enabled => pc["TPM"] = "cmd_next"
  BY DEF TypeOK, LockInv, NvInv, NvCore, NvType, HistType, UnsavedInv, Unsaved
<1>1. ASSUME Still PROVE UnsavedInv'
  BY <1>0, <1>1 DEF Still, UnsavedInv, Unsaved
<1>2. CASE TpmTakeEvents
  <2>1. Still
    BY <1>2, <1>0, GotoIs DEF TpmTakeEvents, Still
  <2> QED
    BY <1>1, <2>1
<1>3. CASE reinstate_nvmem_commits
  <2>1. Still
    BY <1>3, <1>0, GotoIs DEF reinstate_nvmem_commits, Still
  <2> QED
    BY <1>1, <2>1
<1>4. CASE deferred_tpm_rst_isr
  <2>1. Still
    BY <1>4, <1>0, GotoIs DEF deferred_tpm_rst_isr, Still
  <2> QED
    BY <1>1, <2>1
<1>5. CASE WipeDone
  <2>1. Still
    BY <1>5, <1>0, GotoIs DEF WipeDone, Still
  <2> QED
    BY <1>1, <2>1
<1>6. CASE RebootWaitDone
  <2>1. Still
    BY <1>6, <1>0, GotoIs DEF RebootWaitDone, Still
  <2> QED
    BY <1>1, <2>1
<1>7. CASE UsbCommand
  <2>1. Still
    BY <1>7, <1>0, GotoIs DEF UsbCommand, Still
  <2> QED
    BY <1>1, <2>1
<1>8. CASE ResetTimeout
  <2>1. Still
    BY <1>8, <1>0, GotoIs DEF ResetTimeout, Still
  <2> QED
    BY <1>1, <2>1
<1>9. CASE tpm_rst_asserted
  <2>1. Still
    BY <1>9, <1>0, GotoIs DEF tpm_rst_asserted, Still
  <2> QED
    BY <1>1, <2>1
<1>10. CASE tpm_rst_deasserted
  <2>1. Still
    BY <1>10, <1>0, GotoIs DEF tpm_rst_deasserted, Still
  <2> QED
    BY <1>1, <2>1
<1>11. CASE HostCommand
  <2>1. Still
    BY <1>11, <1>0, GotoIs DEF HostCommand, Still
  <2> QED
    BY <1>1, <2>1
<1>12. CASE UsbPacket
  <2>1. Still
    BY <1>12, <1>0, GotoIs DEF UsbPacket, Still
  <2> QED
    BY <1>1, <2>1
<1>13. CASE AltPoll
  <2>1. Still
    BY <1>13, <1>0, GotoIs DEF AltPoll, Still
  <2> QED
    BY <1>1, <2>1
<1>14. CASE ConsoleInput
  <2>1. Still
    BY <1>14, <1>0, GotoIs DEF ConsoleInput, Still
  <2> QED
    BY <1>1, <2>1
<1>15. CASE tpm_alt_extension
  <2>1. Still
    BY <1>15, <1>0, GotoIs DEF tpm_alt_extension, Still
  <2> QED
    BY <1>1, <2>1
<1>16. CASE board_wipe_tpm
  <2>1. pc'["TPM"] = pc["TPM"]
    BY <1>16, <1>0, GotoIs DEF board_wipe_tpm
  <2>2. Still
    BY <1>16, <1>0, <2>1 DEF board_wipe_tpm, Still, HistType
  <2> QED
    BY <1>1, <2>2
<1>17. CASE deferred_tpm_rst_isr_reboot
  <2>1. pc'["TPM"] = pc["TPM"]
    BY <1>17, <1>0, GotoIs DEF deferred_tpm_rst_isr_reboot
  <2>2. Still
    BY <1>17, <1>0, <2>1 DEF deferred_tpm_rst_isr_reboot, Still, HistType
  <2> QED
    BY <1>1, <2>2
<1>18. CASE RstStart("HOOKS")
  <2>1. Still
    BY <1>18, <1>0, GotoIs DEF RstStart, Still
  <2> QED
    BY <1>1, <2>1
<1>19. CASE RstStart("TPM")
  <2>1. nv' = nv /\ hist' = hist /\ pc["TPM"] # "cmd_next"
    BY <1>19, <1>0 DEF RstStart, At
  <2>2. \/ pc'["TPM"] = pc["TPM"]
        \/ pc'["TPM"] \in {"rst_stop", "idle", "cmd", "cmd_nv", "cmd_fwmp"}
    BY <1>19, <1>0, GotoIs DEF RstStart, At
  <2> QED
    BY <1>0, <2>1, <2>2 DEF UnsavedInv, Unsaved
<1>20. CASE TpmPreloop
  <2>1. nv' = nv /\ hist' = hist /\ pc["TPM"] # "cmd_next"
    BY <1>20, <1>0 DEF TpmPreloop, At
  <2>2. \/ pc'["TPM"] = pc["TPM"]
        \/ pc'["TPM"] \in {"rst_stop", "idle", "cmd", "cmd_nv", "cmd_fwmp"}
    BY <1>20, <1>0, GotoIs DEF TpmPreloop, At
  <2> QED
    BY <1>0, <2>1, <2>2 DEF UnsavedInv, Unsaved
<1>21. CASE TpmReset
  <2>1. nv' = nv /\ hist' = hist /\ pc["TPM"] # "cmd_next"
    BY <1>21, <1>0 DEF TpmReset, At
  <2>2. \/ pc'["TPM"] = pc["TPM"]
        \/ pc'["TPM"] \in {"rst_stop", "idle", "cmd", "cmd_nv", "cmd_fwmp"}
    BY <1>21, <1>0, GotoIs DEF TpmReset, At
  <2> QED
    BY <1>0, <2>1, <2>2 DEF UnsavedInv, Unsaved
<1>22. CASE TpmCommand
  <2>1. nv' = nv /\ hist' = hist /\ pc["TPM"] # "cmd_next"
    BY <1>22, <1>0 DEF TpmCommand, At
  <2>2. \/ pc'["TPM"] = pc["TPM"]
        \/ pc'["TPM"] \in {"rst_stop", "idle", "cmd", "cmd_nv", "cmd_fwmp"}
    BY <1>22, <1>0, GotoIs DEF TpmCommand, At
  <2> QED
    BY <1>0, <2>1, <2>2 DEF UnsavedInv, Unsaved
<1>23. CASE CmdKind
  <2>1. nv' = nv /\ hist' = hist /\ pc["TPM"] # "cmd_next"
    BY <1>23, <1>0 DEF CmdKind, At
  <2>2. \/ pc'["TPM"] = pc["TPM"]
        \/ pc'["TPM"] \in {"rst_stop", "idle", "cmd", "cmd_nv", "cmd_fwmp"}
    BY <1>23, <1>0, GotoIs DEF CmdKind, At
  <2> QED
    BY <1>0, <2>1, <2>2 DEF UnsavedInv, Unsaved
<1>24. ASSUME hist'.written <= nv'.flash, nv'.flash <= nv'.cache,
             hist'.due <= hist'.written, hist'.written \in Nat,
             nv'.flash \in Nat
      PROVE  UnsavedInv'
  BY <1>24 DEF UnsavedInv, Unsaved
<1>25. ASSUME NEW t \in {"TPM", "HOOKS"}, RstStop(t) PROVE UnsavedInv'
  <2>1. CASE wipeFirst[t]
    <3>1. nv' = nvmem_erase_tpm_data(nv)
      BY <1>25, <2>1 DEF RstStop
    <3>2. hist'.written = 0 /\ hist'.due = 0
      BY <1>25, <1>0, <2>1 DEF RstStop, HistType
    <3> QED
      BY <1>0, <3>1, <3>2, EraseIs, <1>24
  <2>2. CASE ~wipeFirst[t]
    <3>1. nv' = nv /\ hist' = hist /\ pc[t] = "rst_stop"
      BY <1>25, <2>2 DEF RstStop, At
    <3>2. \/ pc'["TPM"] = pc["TPM"]
          \/ t = "TPM" /\ pc'["TPM"] = "rst_commit"
      BY <1>25, <1>0, GotoIs DEF RstStop
    <3> QED
      BY <1>0, <3>1, <3>2 DEF UnsavedInv, Unsaved
  <2> QED
    BY <2>1, <2>2
<1>26. CASE RstCommit("TPM")
  <2>1. nv' = nvmem_enable_commits(nv, "TPM") /\ hist' = hist
    BY <1>26 DEF RstCommit
  <2>2. pc["TPM"] = "rst_commit"
    BY <1>26 DEF RstCommit, At
  <2>3. hist.written <= nv'.flash /\ nv'.flash <= nv'.cache /\ nv'.flash \in Nat
    BY <1>0, <2>1, <2>2, EnableIs
  <2> QED
    BY <1>0, <2>1, <2>3, <1>24
<1>27. CASE RstCommit("HOOKS")
  <2>1. /\ nv' = nvmem_enable_commits(nv, "HOOKS") \/ nv' = nv
        /\ hist' = hist
    BY <1>27 DEF RstCommit
  <2>2. pc'["TPM"] = pc["TPM"]
    BY <1>27, <1>0, GotoIs DEF RstCommit
  <2>3. CASE nv' = nv
    BY <1>0, <2>1, <2>2, <2>3 DEF UnsavedInv, Unsaved
  <2>4. CASE nv' # nv
    <3>1. nv.task = "HOOKS"
      BY <1>0, <2>1, <2>4, EnableIs
    <3>2. hist.written <= nv'.flash /\ nv'.flash <= nv'.cache /\ nv'.flash \in Nat
      BY <1>0, <2>1, <3>1, EnableIs
    <3> QED
      BY <1>0, <2>1, <3>2, <1>24
  <2> QED
    BY <2>3, <2>4
<1>28. CASE deferred_set_ap_off
  <2>1. /\ nv' = nvmem_enable_commits(nv, "HOOKS") \/ nv' = nv
        /\ hist' = hist
    BY <1>28 DEF deferred_set_ap_off
  <2>2. pc'["TPM"] = pc["TPM"]
    BY <1>28, <1>0, GotoIs DEF deferred_set_ap_off
  <2>3. CASE nv' = nv
    BY <1>0, <2>1, <2>2, <2>3 DEF UnsavedInv, Unsaved
  <2>4. CASE nv' # nv
    <3>1. nv.task = "HOOKS"
      BY <1>0, <2>1, <2>4, EnableIs
    <3>2. hist.written <= nv'.flash /\ nv'.flash <= nv'.cache /\ nv'.flash \in Nat
      BY <1>0, <2>1, <3>1, EnableIs
    <3> QED
      BY <1>0, <2>1, <3>2, <1>24
  <2> QED
    BY <2>3, <2>4
<1>29. CASE DumpEnd
  <2>1. /\ nv' = nvmem_enable_commits(nv, "CONSOLE") \/ nv' = nv
        /\ hist' = hist
    BY <1>29 DEF DumpEnd
  <2>2. pc'["TPM"] = pc["TPM"]
    BY <1>29, <1>0, GotoIs DEF DumpEnd
  <2>3. CASE nv' = nv
    BY <1>0, <2>1, <2>2, <2>3 DEF UnsavedInv, Unsaved
  <2>4. CASE nv' # nv
    <3>1. nv.task = "CONSOLE"
      BY <1>0, <2>1, <2>4, EnableIs
    <3>2. hist.written <= nv'.flash /\ nv'.flash <= nv'.cache /\ nv'.flash \in Nat
      BY <1>0, <2>1, <3>1, EnableIs
    <3> QED
      BY <1>0, <2>1, <3>2, <1>24
  <2> QED
    BY <2>3, <2>4
<1>30. ASSUME NEW t \in {"TPM", "HOOKS"}, RstDisable(t) PROVE UnsavedInv'
  <2>1. /\ nv' = TPM_Manufacture(nvmem_disable_commits(nv, t), t)
        /\ hist' = hist /\ pc[t] = "rst_disable" /\ nv.task \in {t, NoTask}
    BY <1>30 DEF RstDisable, DisableAndInit, At, CanLock
  <2>2. hist.written <= nv.flash
    BY <1>0, <2>1 DEF NoTask
  <2>3. nv'.flash = nv.flash /\ nv.flash <= nv'.cache
    BY <1>0, <2>1, DisableIs
  <2> QED
    BY <1>0, <2>1, <2>2, <2>3, <1>24
<1>31. CASE TpmCommit
  <2>1. nv' = nvmem_enable_commits(nv, "TPM") /\ hist' = hist
    BY <1>31 DEF TpmCommit
  <2>2. pc["TPM"] \in {"idle", "cmd"}
    BY <1>31 DEF TpmCommit, At
  <2>3. hist.written <= nv'.flash /\ nv'.flash <= nv'.cache /\ nv'.flash \in Nat
    BY <1>0, <2>1, <2>2, EnableIs
  <2> QED
    BY <1>0, <2>1, <2>3, <1>24
<1>32. CASE CmdCommitNvmem
  <2>1. nv' = nvmem_enable_commits(nv, "TPM") /\ hist' = hist
    BY <1>32 DEF CmdCommitNvmem
  <2>2. pc["TPM"] \in {"idle", "cmd"}
    BY <1>32 DEF CmdCommitNvmem, At
  <2>3. hist.written <= nv'.flash /\ nv'.flash <= nv'.cache /\ nv'.flash \in Nat
    BY <1>0, <2>1, <2>2, EnableIs
  <2> QED
    BY <1>0, <2>1, <2>3, <1>24
<1>33. CASE CmdEnd
  <2>1. nv' = nvmem_commit(nv, "TPM") /\ hist' = hist
    BY <1>33 DEF CmdEnd
  <2>2. pc["TPM"] = "cmd_next" /\ pc'["TPM"] = "idle"
    BY <1>33, <1>0, GotoIs DEF CmdEnd, At
  <2>3. CASE nv' = nv /\ ~nv.commits_enabled
    BY <1>0, <2>1, <2>2, <2>3 DEF UnsavedInv, Unsaved
  <2>4. CASE nv.commits_enabled
    <3>1. hist.written <= nv'.flash /\ nv'.flash <= nv'.cache /\ nv'.flash \in Nat
      BY <1>0, <2>1, <2>4, CommitIs
    <3> QED
      BY <1>0, <2>1, <3>1, <1>24
  <2> QED
    BY <1>0, <2>1, <2>3, <2>4, CommitIs
<1>34. CASE CmdRead
  <2>1. /\ nv' = nvmem_read(nv, "TPM") /\ hist' = hist
        /\ nv.task \in {"TPM", NoTask}
    BY <1>34 DEF CmdRead, CanLock
  <2>2. pc["TPM"] \in {"cmd_nv", "cmd_next"} /\ pc'["TPM"] = "cmd_next"
    BY <1>34, <1>0, GotoIs DEF CmdRead, At
  <2>3. CASE hist.written <= nv.flash
    BY <1>0, <2>1, <2>3, ReadIs, <1>24
  <2>4. CASE hist.written > nv.flash
    <3>1. nv.write_in_progress \/ ~nv.commits_enabled
      BY <1>0, <2>4 DEF LockInv, NvInv
    <3>2. /\ nv'.task = "TPM" /\ nv'.nvmem_updated = nv.nvmem_updated
          /\ nv'.flash = nv.flash /\ nv'.cache = nv.cache
      BY <1>0, <2>1, <3>1, ReadIs
    <3> QED
      BY <1>0, <2>1, <2>2, <2>4, <3>2 DEF UnsavedInv, Unsaved
  <2> QED
    BY <1>0, <2>3, <2>4
<1>35. CASE CmdWrite
  <2>1. /\ nv' = nvmem_write(nv, "TPM")
        /\ hist'.written = nv.writes + 1 /\ hist'.due = hist.due
    BY <1>35, <1>0 DEF CmdWrite, HistType
  <2>2. pc'["TPM"] = "cmd_next"
    BY <1>35, <1>0, GotoIs DEF CmdWrite
  <2> QED
    BY <1>0, <2>1, <2>2, WriteIs DEF UnsavedInv, Unsaved
<1>36. CASE CmdWipeLater
  <2>1. /\ nv' = nvmem_read(nv, "TPM") /\ hist' = hist
        /\ nv.task \in {"TPM", NoTask}
    BY <1>36 DEF CmdWipeLater, CanLock
  <2>2. pc["TPM"] = "cmd_fwmp" /\ pc'["TPM"] = "idle"
    BY <1>36, <1>0, GotoIs DEF CmdWipeLater, At
  <2>3. CASE hist.written <= nv.flash
    BY <1>0, <2>1, <2>3, ReadIs, <1>24
  <2>4. CASE hist.written > nv.flash
    <3>1. ~nv.commits_enabled
      BY <1>0, <2>2, <2>4
    <3>2. /\ nv'.task = "TPM" /\ nv'.nvmem_updated = nv.nvmem_updated
          /\ nv'.flash = nv.flash /\ nv'.cache = nv.cache
          /\ nv'.commits_enabled = nv.commits_enabled
      BY <1>0, <2>1, <3>1, ReadIs
    <3> QED
      BY <1>0, <2>1, <2>2, <2>4, <3>1, <3>2 DEF UnsavedInv, Unsaved
  <2> QED
    BY <1>0, <2>3, <2>4
<1>37. CASE CmdWipeNow
  <2>1. /\ nv' = nvmem_read(nv, "TPM") /\ hist' = hist
        /\ nv.task \in {"TPM", NoTask}
    BY <1>37 DEF CmdWipeNow, CanLock
  <2>2. pc["TPM"] = "cmd_fwmp" /\ pc'["TPM"] = "rst_stop"
    BY <1>37, <1>0, GotoIs DEF CmdWipeNow, At
  <2>3. CASE hist.written <= nv.flash
    BY <1>0, <2>1, <2>3, ReadIs, <1>24
  <2>4. CASE hist.written > nv.flash
    <3>1. ~nv.commits_enabled
      BY <1>0, <2>2, <2>4
    <3>2. /\ nv'.task = "TPM" /\ nv'.nvmem_updated = nv.nvmem_updated
          /\ nv'.flash = nv.flash /\ nv'.cache = nv.cache
          /\ nv'.commits_enabled = nv.commits_enabled
      BY <1>0, <2>1, <3>1, ReadIs
    <3> QED
      BY <1>0, <2>1, <2>2, <2>4, <3>1, <3>2 DEF UnsavedInv, Unsaved
  <2> QED
    BY <1>0, <2>3, <2>4
<1>38. CASE board_fwmp_update_policies
  <2>1. /\ nv' = nvmem_read(nv, "HOOKS") /\ hist' = hist
        /\ nv.task \in {"HOOKS", NoTask}
    BY <1>38 DEF board_fwmp_update_policies, CanLock
  <2>2. hist.written <= nv.flash
    BY <1>0, <2>1 DEF NoTask
  <2> QED
    BY <1>0, <2>1, <2>2, ReadIs, <1>24
<1>39. CASE UsbFwmp
  <2>1. /\ nv' = nvmem_read(nv, "HOOKS") /\ hist' = hist
        /\ nv.task \in {"HOOKS", NoTask}
    BY <1>39 DEF UsbFwmp, CanLock
  <2>2. hist.written <= nv.flash
    BY <1>0, <2>1 DEF NoTask
  <2> QED
    BY <1>0, <2>1, <2>2, ReadIs, <1>24
<1>40. CASE DumpStart
  <2>1. /\ nv' = nvmem_disable_commits(nv, "CONSOLE") /\ hist' = hist
        /\ nv.task \in {"CONSOLE", NoTask}
    BY <1>40 DEF DumpStart, CanLock
  <2>2. hist.written <= nv.flash
    BY <1>0, <2>1 DEF NoTask
  <2>3. nv'.flash = nv.flash /\ nv'.cache = nv.cache
    BY <1>0, <2>1 DEF nvmem_disable_commits, nvmem_lock_cache, NvType
  <2> QED
    BY <1>0, <2>1, <2>2, <2>3, <1>24
<1>41. CASE EfsWrite
  <2>1. nv.task \in {"CONSOLE", NoTask} /\ hist' = hist
    BY <1>41 DEF EfsWrite, CanLock
  <2>2. hist.written <= nv.flash
    BY <1>0, <2>1 DEF NoTask
  <2>3. nv'.flash = nv.flash /\ nv.flash <= nv'.cache
    <3> DEFINE r == nvmem_read(nv, "CONSOLE")
    <3>1. NvType(r) /\ r.flash = nv.flash /\ r.writes = nv.writes
      BY <1>0, <2>1, OpsType, ReadIs
    <3>2. nv' = nv \/ nv' = nvmem_write(r, "CONSOLE")
      BY <1>41 DEF EfsWrite
    <3> HIDE DEF r
    <3> QED
      BY <1>0, <3>1, <3>2, WriteIs
  <2> QED
    BY <1>0, <2>1, <2>2, <2>3, <1>24
<1>42. CASE EfsUnlock
  <2>1. nv.task = "CONSOLE" /\ hist' = hist
    BY <1>42 DEF EfsUnlock, At, LockInv, ConsoleHolds
  <2>2. nv'.flash = nv.flash /\ nv'.cache = nv.cache
    BY <1>42, <1>0 DEF EfsUnlock, nvmem_unlock_cache, nvmem_release_cache, NvType
  <2> QED
    BY <1>0, <2>1, <2>2, <1>24
<1>43. CASE SystemReset \/ DeepSleep \/ PowerLoss
  <2>1. PICK r : Boot(nv.flash, nv.writes, r)
    BY <1>43 DEF SystemReset, DeepSleep, PowerLoss
  <2> QED
    BY <1>0, <2>1, <1>24 DEF Boot, nvmem_init
<1>44. CASE UNCHANGED vars
  <2>1. Still
    BY <1>44 DEF vars, Still
  <2> QED
    BY <1>1, <2>1
<1> QED
  BY <1>2, <1>3, <1>4, <1>5, <1>6, <1>7, <1>8, <1>9, <1>10, <1>11,
     <1>12, <1>13, <1>14, <1>15, <1>16, <1>17, <1>18, <1>19, <1>20,
     <1>21, <1>22, <1>23, <1>25, <1>26, <1>27, <1>28, <1>29, <1>30,
     <1>31, <1>32, <1>33, <1>34, <1>35, <1>36, <1>37, <1>38, <1>39,
     <1>40, <1>41, <1>42, <1>43, <1>44
  DEF Next, TpmTask, HooksTask, ConsoleTask, Environment, TpmReset_

----------------------------------------------------------------------------
(* What the steps of one task leave alone.                                 *)

\* The firmware starts again.
Booted == SystemReset \/ DeepSleep \/ PowerLoss

\* Whatever the others do, the TPM task stays where it is with the events it
\* took and the argument of its reset; they only add to its events.
TpmStays ==
    /\ pc'["TPM"] = pc["TPM"]
    /\ evt' = evt
    /\ events \subseteq events'
    /\ wipeFirst'["TPM"] = wipeFirst["TPM"]

\* A step that is not of the TPM task leaves that task alone.
LEMMA NotTpm ==
    ASSUME TypeOK, [Next]_vars
    PROVE  TpmTask \/ Booted \/ TpmStays
<1> USE DEF Tasks
<1>0. PcType(pc) /\ wipeFirst \in [Tasks -> BOOLEAN]
  BY DEF TypeOK
<1>1. ASSUME RstStop("HOOKS") PROVE TpmStays
  BY <1>1, <1>0, GotoIs DEF RstStop, TpmStays
<1>2. ASSUME RstCommit("HOOKS") PROVE TpmStays
  BY <1>2, <1>0, GotoIs DEF RstCommit, TpmStays
<1>3. ASSUME RstDisable("HOOKS") PROVE TpmStays
  BY <1>3, <1>0, GotoIs DEF RstDisable, DisableAndInit, TpmStays
<1>4. ASSUME RstStart("HOOKS") PROVE TpmStays
  BY <1>4, <1>0, GotoIs DEF RstStart, TpmStays
<1>5. ASSUME reinstate_nvmem_commits PROVE TpmStays
  BY <1>5, <1>0, GotoIs DEF reinstate_nvmem_commits, TpmStays
<1>6. ASSUME deferred_set_ap_off PROVE TpmStays
  BY <1>6, <1>0, GotoIs DEF deferred_set_ap_off, TpmStays
<1>7. ASSUME deferred_tpm_rst_isr PROVE TpmStays
  BY <1>7, <1>0, GotoIs DEF deferred_tpm_rst_isr, tpm_reset_request, TpmStays
<1>8. ASSUME deferred_tpm_rst_isr_reboot PROVE TpmStays
  BY <1>8, <1>0, GotoIs DEF deferred_tpm_rst_isr_reboot, tpm_reset_request, TpmStays
<1>9. ASSUME board_wipe_tpm PROVE TpmStays
  BY <1>9, <1>0, GotoIs DEF board_wipe_tpm, tpm_reset_request, TpmStays
<1>10. ASSUME WipeDone PROVE TpmStays
  BY <1>10, <1>0, GotoIs DEF WipeDone, TpmStays
<1>11. ASSUME board_fwmp_update_policies PROVE TpmStays
  BY <1>11, <1>0, GotoIs DEF board_fwmp_update_policies, TpmStays
<1>12. ASSUME RebootWaitDone PROVE TpmStays
  BY <1>12, <1>0, GotoIs DEF RebootWaitDone, TpmStays
<1>13. ASSUME UsbCommand PROVE TpmStays
  BY <1>13, <1>0, GotoIs DEF UsbCommand, TpmStays
<1>14. ASSUME UsbFwmp PROVE TpmStays
  BY <1>14, <1>0, GotoIs DEF UsbFwmp, TpmStays
<1>15. ASSUME DumpStart PROVE TpmStays
  BY <1>15, <1>0, GotoIs DEF DumpStart, TpmStays
<1>16. ASSUME DumpEnd PROVE TpmStays
  BY <1>16, <1>0, GotoIs DEF DumpEnd, TpmStays
<1>17. ASSUME EfsWrite PROVE TpmStays
  BY <1>17, <1>0, GotoIs DEF EfsWrite, TpmStays
<1>18. ASSUME EfsUnlock PROVE TpmStays
  BY <1>18, <1>0, GotoIs DEF EfsUnlock, TpmStays
<1>19. ASSUME AltPoll PROVE TpmStays
  BY <1>19, <1>0, GotoIs DEF AltPoll, TpmStays
<1>20. ASSUME ConsoleInput PROVE TpmStays
  BY <1>20, <1>0, GotoIs DEF ConsoleInput, TpmStays
<1>21. ASSUME tpm_alt_extension PROVE TpmStays
  BY <1>21, <1>0, GotoIs DEF tpm_alt_extension, TpmStays
<1>22. ASSUME tpm_rst_asserted PROVE TpmStays
  BY <1>22, <1>0, GotoIs DEF tpm_rst_asserted, TpmStays
<1>23. ASSUME tpm_rst_deasserted PROVE TpmStays
  BY <1>23, <1>0, GotoIs DEF tpm_rst_deasserted, TpmStays
<1>24. ASSUME HostCommand PROVE TpmStays
  BY <1>24, <1>0, GotoIs DEF HostCommand, TpmStays
<1>25. ASSUME UsbPacket PROVE TpmStays
  BY <1>25, <1>0, GotoIs DEF UsbPacket, TpmStays
<1>26. ASSUME ResetTimeout PROVE TpmStays
  BY <1>26, <1>0, GotoIs DEF ResetTimeout, TpmStays
<1>27. ASSUME UNCHANGED vars PROVE TpmStays
  BY <1>27 DEF vars, TpmStays
<1> QED
  BY <1>1, <1>2, <1>3, <1>4, <1>5, <1>6, <1>7, <1>8, <1>9, <1>10, <1>11,
     <1>12, <1>13, <1>14, <1>15, <1>16, <1>17, <1>18, <1>19, <1>20,
     <1>21, <1>22, <1>23, <1>24, <1>25, <1>26, <1>27
  DEF Next, HooksTask, ConsoleTask, Environment, TpmReset_, Booted

\* The HOOKS task, and the console, stay where they are.
HooksStays ==
    pc'["HOOKS"] = pc["HOOKS"] /\ wipeFirst'["HOOKS"] = wipeFirst["HOOKS"]
ConsoleStays == pc'["CONSOLE"] = pc["CONSOLE"]

\* A step of the TPM task leaves the other tasks alone; it arms the timer of
\* the commits or the wipe, and of the AP's record it changes "late" only.
LEMMA TpmOnly ==
    ASSUME TypeOK, TpmTask
    PROVE  /\ HooksStays /\ ConsoleStays
           /\ deferred \subseteq deferred'
           /\ deferred' \subseteq deferred \cup {"reinstate", "wipe"}
           /\ ap' = ap \/ ap' = [ap EXCEPT !.late = ap'.late]
<1> USE DEF Tasks
<1>0. PcType(pc) /\ wipeFirst \in [Tasks -> BOOLEAN]
  BY DEF TypeOK
<1>1. CASE RstStop("TPM")
  BY <1>1, <1>0, GotoIs DEF RstStop, HooksStays, ConsoleStays
<1>2. CASE RstCommit("TPM")
  BY <1>2, <1>0, GotoIs DEF RstCommit, HooksStays, ConsoleStays
<1>3. CASE RstDisable("TPM")
  BY <1>3, <1>0, GotoIs DEF RstDisable, DisableAndInit, HooksStays, ConsoleStays
<1>4. CASE RstStart("TPM")
  BY <1>4, <1>0, GotoIs DEF RstStart, HooksStays, ConsoleStays
<1>5. CASE TpmPreloop
  BY <1>5, <1>0, GotoIs DEF TpmPreloop, HooksStays, ConsoleStays
<1>6. CASE TpmTakeEvents
  BY <1>6, <1>0, GotoIs DEF TpmTakeEvents, HooksStays, ConsoleStays
<1>7. CASE TpmReset
  BY <1>7, <1>0, GotoIs DEF TpmReset, HooksStays, ConsoleStays
<1>8. CASE TpmCommit
  BY <1>8, <1>0, GotoIs DEF TpmCommit, HooksStays, ConsoleStays
<1>9. CASE TpmCommand
  BY <1>9, <1>0, GotoIs DEF TpmCommand, HooksStays, ConsoleStays
<1>10. CASE CmdKind
  BY <1>10, <1>0, GotoIs DEF CmdKind, HooksStays, ConsoleStays
<1>11. CASE CmdCommitNvmem
  BY <1>11, <1>0, GotoIs DEF CmdCommitNvmem, HooksStays, ConsoleStays
<1>12. CASE CmdRead
  BY <1>12, <1>0, GotoIs DEF CmdRead, HooksStays, ConsoleStays
<1>13. CASE CmdWrite
  BY <1>13, <1>0, GotoIs DEF CmdWrite, HooksStays, ConsoleStays
<1>14. CASE CmdEnd
  BY <1>14, <1>0, GotoIs DEF CmdEnd, HooksStays, ConsoleStays
<1>15. CASE CmdWipeLater
  BY <1>15, <1>0, GotoIs DEF CmdWipeLater, HooksStays, ConsoleStays
<1>16. CASE CmdWipeNow
  BY <1>16, <1>0, GotoIs DEF CmdWipeNow, HooksStays, ConsoleStays
<1> QED
  BY <1>1, <1>2, <1>3, <1>4, <1>5, <1>6, <1>7, <1>8, <1>9, <1>10, <1>11,
     <1>12, <1>13, <1>14, <1>15, <1>16
  DEF TpmTask, TpmReset_

\* A step of the console, or of the environment, leaves the HOOKS task alone,
\* and does not end its wait.
LEMMA NotHooks ==
    ASSUME TypeOK, [Next]_vars
    PROVE  \/ HooksTask \/ TpmTask \/ Booted \/ ResetTimeout
           \/ HooksStays /\ hooksEvent' = hooksEvent
<1> USE DEF Tasks
<1>0. PcType(pc) /\ wipeFirst \in [Tasks -> BOOLEAN]
  BY DEF TypeOK
<1>1. CASE DumpStart
  BY <1>1, <1>0, GotoIs DEF DumpStart, HooksStays
<1>2. CASE DumpEnd
  BY <1>2, <1>0, GotoIs DEF DumpEnd, HooksStays
<1>3. CASE EfsWrite
  BY <1>3, <1>0, GotoIs DEF EfsWrite, HooksStays
<1>4. CASE EfsUnlock
  BY <1>4, <1>0, GotoIs DEF EfsUnlock, HooksStays
<1>5. CASE AltPoll
  BY <1>5, <1>0, GotoIs DEF AltPoll, HooksStays
<1>6. CASE ConsoleInput
  BY <1>6, <1>0, GotoIs DEF ConsoleInput, HooksStays
<1>7. CASE tpm_alt_extension
  BY <1>7, <1>0, GotoIs DEF tpm_alt_extension, HooksStays
<1>8. CASE tpm_rst_asserted
  BY <1>8, <1>0, GotoIs DEF tpm_rst_asserted, HooksStays
<1>9. CASE tpm_rst_deasserted
  BY <1>9, <1>0, GotoIs DEF tpm_rst_deasserted, HooksStays
<1>10. CASE HostCommand
  BY <1>10, <1>0, GotoIs DEF HostCommand, HooksStays
<1>11. CASE UsbPacket
  BY <1>11, <1>0, GotoIs DEF UsbPacket, HooksStays
<1>12. CASE UNCHANGED vars
  BY <1>12 DEF vars, HooksStays
<1> QED
  BY <1>1, <1>2, <1>3, <1>4, <1>5, <1>6, <1>7, <1>8, <1>9, <1>10, <1>11,
     <1>12
  DEF Next, ConsoleTask, Environment, Booted

\* Nor does a step of another task move the console.
LEMMA NotConsole ==
    ASSUME TypeOK, [Next]_vars
    PROVE  \/ ConsoleTask \/ ConsoleInput \/ tpm_alt_extension
           \/ Booted \/ ConsoleStays
<1> USE DEF Tasks
<1>0. PcType(pc)
  BY DEF TypeOK
<1>1. CASE TpmTask
  BY <1>1, TpmOnly
<1>2. CASE RstStop("HOOKS")
  BY <1>2, <1>0, GotoIs DEF RstStop, ConsoleStays
<1>3. CASE RstCommit("HOOKS")
  BY <1>3, <1>0, GotoIs DEF RstCommit, ConsoleStays
<1>4. CASE RstDisable("HOOKS")
  BY <1>4, <1>0, GotoIs DEF RstDisable, DisableAndInit, ConsoleStays
<1>5. CASE RstStart("HOOKS")
  BY <1>5, <1>0, GotoIs DEF RstStart, ConsoleStays
<1>6. CASE reinstate_nvmem_commits
  BY <1>6, <1>0, GotoIs DEF reinstate_nvmem_commits, ConsoleStays
<1>7. CASE deferred_set_ap_off
  BY <1>7, <1>0, GotoIs DEF deferred_set_ap_off, ConsoleStays
<1>8. CASE deferred_tpm_rst_isr
  BY <1>8, <1>0, GotoIs DEF deferred_tpm_rst_isr, ConsoleStays
<1>9. CASE deferred_tpm_rst_isr_reboot
  BY <1>9, <1>0, GotoIs DEF deferred_tpm_rst_isr_reboot, ConsoleStays
<1>10. CASE board_wipe_tpm
  BY <1>10, <1>0, GotoIs DEF board_wipe_tpm, ConsoleStays
<1>11. CASE WipeDone
  BY <1>11, <1>0, GotoIs DEF WipeDone, ConsoleStays
<1>12. CASE board_fwmp_update_policies
  BY <1>12, <1>0, GotoIs DEF board_fwmp_update_policies, ConsoleStays
<1>13. CASE RebootWaitDone
  BY <1>13, <1>0, GotoIs DEF RebootWaitDone, ConsoleStays
<1>14. CASE UsbCommand
  BY <1>14, <1>0, GotoIs DEF UsbCommand, ConsoleStays
<1>15. CASE UsbFwmp
  BY <1>15, <1>0, GotoIs DEF UsbFwmp, ConsoleStays
<1>16. CASE tpm_rst_asserted
  BY <1>16, <1>0, GotoIs DEF tpm_rst_asserted, ConsoleStays
<1>17. CASE tpm_rst_deasserted
  BY <1>17, <1>0, GotoIs DEF tpm_rst_deasserted, ConsoleStays
<1>18. CASE HostCommand
  BY <1>18, <1>0, GotoIs DEF HostCommand, ConsoleStays
<1>19. CASE UsbPacket
  BY <1>19, <1>0, GotoIs DEF UsbPacket, ConsoleStays
<1>20. CASE ResetTimeout
  BY <1>20, <1>0, GotoIs DEF ResetTimeout, ConsoleStays
<1>21. CASE UNCHANGED vars
  BY <1>21 DEF vars, ConsoleStays
<1> QED
  BY <1>1, <1>2, <1>3, <1>4, <1>5, <1>6, <1>7, <1>8, <1>9, <1>10, <1>11,
     <1>12, <1>13, <1>14, <1>15, <1>16, <1>17, <1>18, <1>19, <1>20,
     <1>21
  DEF Next, HooksTask, Environment, TpmReset_, Booted

\* The state of a start: tasks, events and flags.
LEMMA BootState ==
    ASSUME Booted
    PROVE  /\ pc'["HOOKS"] = "loop" /\ pc'["TPM"] = "preloop"
           /\ pc'["CONSOLE"] = "prompt"
           /\ evt' = {} /\ events' = {} /\ ~hooksEvent' /\ ~req'.waiting
           /\ ~req'.in_progress
           /\ nv'.task = NoTask /\ nv'.commits_enabled
           /\ ~nv'.write_in_progress
           /\ hist'.written = 0 /\ hist'.due = 0
           /\ ~ifUp' /\ alt' = "done"
           /\ deferred' \subseteq {"tpm_rst"}
           /\ ap'.rst => deferred' = {"tpm_rst"}
           /\ ap'.state = "off" /\ ~ap'.deep_sleep /\ ~ap'.late
<1>1. PICK r : Boot(nv.flash, nv.writes, r)
  BY DEF Booted, SystemReset, DeepSleep, PowerLoss
<1>2. /\ pc'["HOOKS"] = "loop" /\ pc'["TPM"] = "preloop"
      /\ pc'["CONSOLE"] = "prompt"
  BY <1>1 DEF Boot, BootPc, Tasks
<1>3. /\ nv'.task = NoTask /\ nv'.commits_enabled
      /\ ~nv'.write_in_progress
  BY <1>1 DEF Boot, nvmem_init
<1>4. /\ hist'.written = 0 /\ hist'.due = 0
      /\ ~req'.waiting /\ ~req'.in_progress
      /\ ap'.rst = r /\ ap'.state = "off" /\ ~ap'.deep_sleep /\ ~ap'.late
      /\ deferred' = IF r THEN {"tpm_rst"} ELSE {}
  BY <1>1 DEF Boot
<1> QED
  BY <1>1, <1>2, <1>3, <1>4 DEF Boot

----------------------------------------------------------------------------
(* Reboots.                                                                *)

\* Every step keeps the invariant of the wait.
LEMMA WaitStep ==
    ASSUME TypeOK, WaitInv, [Next]_vars
    PROVE  WaitInv'
<1> USE DEF Tasks
<1>0. /\ PcType(pc) /\ ReqType(req) /\ hooksEvent \in BOOLEAN
      /\ hooksEvent \/ req.waiting =>
           pc["HOOKS"] \in {"wait_wipe", "wait_reboot", "system_reset"}
      /\ ~(hooksEvent /\ req.waiting)
  BY DEF TypeOK, WaitInv
<1>1. ASSUME hooksEvent' = hooksEvent, req'.waiting = req.waiting,
             \/ pc'["HOOKS"] = pc["HOOKS"]
             \/ pc["HOOKS"] \in {"loop", "fwmp", "usb_fwmp"} \cup RstSteps
             \/ pc'["HOOKS"] = "system_reset"
      PROVE  WaitInv'
  BY <1>1, <1>0 DEF WaitInv, RstSteps
<1>2. CASE RstStop("TPM")
  <2>1. hooksEvent' = hooksEvent /\ req'.waiting = req.waiting
    BY <1>2, <1>0 DEF RstStop, ReqType
  <2>2. pc'["HOOKS"] = pc["HOOKS"]
    BY <1>2, <1>0, GotoIs DEF RstStop
  <2> QED
    BY <2>1, <2>2, <1>1
<1>3. CASE RstCommit("TPM")
  <2>1. hooksEvent' = hooksEvent /\ req'.waiting = req.waiting
    BY <1>3, <1>0 DEF RstCommit, ReqType
  <2>2. pc'["HOOKS"] = pc["HOOKS"]
    BY <1>3, <1>0, GotoIs DEF RstCommit
  <2> QED
    BY <2>1, <2>2, <1>1
<1>4. CASE RstStart("TPM")
  <2>1. hooksEvent' = hooksEvent /\ req'.waiting = req.waiting
    BY <1>4, <1>0 DEF RstStart
  <2>2. pc'["HOOKS"] = pc["HOOKS"]
    BY <1>4, <1>0, GotoIs DEF RstStart
  <2> QED
    BY <2>1, <2>2, <1>1
<1>5. CASE TpmPreloop
  <2>1. hooksEvent' = hooksEvent /\ req'.waiting = req.waiting
    BY <1>5, <1>0 DEF TpmPreloop
  <2>2. pc'["HOOKS"] = pc["HOOKS"]
    BY <1>5, <1>0, GotoIs DEF TpmPreloop
  <2> QED
    BY <2>1, <2>2, <1>1
<1>6. CASE TpmTakeEvents
  <2>1. hooksEvent' = hooksEvent /\ req'.waiting = req.waiting
    BY <1>6, <1>0 DEF TpmTakeEvents
  <2>2. pc'["HOOKS"] = pc["HOOKS"]
    BY <1>6, <1>0, GotoIs DEF TpmTakeEvents
  <2> QED
    BY <2>1, <2>2, <1>1
<1>7. CASE TpmReset
  <2>1. hooksEvent' = hooksEvent /\ req'.waiting = req.waiting
    BY <1>7, <1>0 DEF TpmReset
  <2>2. pc'["HOOKS"] = pc["HOOKS"]
    BY <1>7, <1>0, GotoIs DEF TpmReset
  <2> QED
    BY <2>1, <2>2, <1>1
<1>8. CASE TpmCommit
  <2>1. hooksEvent' = hooksEvent /\ req'.waiting = req.waiting
    BY <1>8, <1>0 DEF TpmCommit
  <2>2. pc'["HOOKS"] = pc["HOOKS"]
    BY <1>8, <1>0, GotoIs DEF TpmCommit
  <2> QED
    BY <2>1, <2>2, <1>1
<1>9. CASE TpmCommand
  <2>1. hooksEvent' = hooksEvent /\ req'.waiting = req.waiting
    BY <1>9, <1>0 DEF TpmCommand, ReqType
  <2>2. pc'["HOOKS"] = pc["HOOKS"]
    BY <1>9, <1>0, GotoIs DEF TpmCommand
  <2> QED
    BY <2>1, <2>2, <1>1
<1>10. CASE CmdKind
  <2>1. hooksEvent' = hooksEvent /\ req'.waiting = req.waiting
    BY <1>10, <1>0 DEF CmdKind
  <2>2. pc'["HOOKS"] = pc["HOOKS"]
    BY <1>10, <1>0, GotoIs DEF CmdKind
  <2> QED
    BY <2>1, <2>2, <1>1
<1>11. CASE CmdCommitNvmem
  <2>1. hooksEvent' = hooksEvent /\ req'.waiting = req.waiting
    BY <1>11, <1>0 DEF CmdCommitNvmem
  <2>2. pc'["HOOKS"] = pc["HOOKS"]
    BY <1>11, <1>0, GotoIs DEF CmdCommitNvmem
  <2> QED
    BY <2>1, <2>2, <1>1
<1>12. CASE CmdRead
  <2>1. hooksEvent' = hooksEvent /\ req'.waiting = req.waiting
    BY <1>12, <1>0 DEF CmdRead
  <2>2. pc'["HOOKS"] = pc["HOOKS"]
    BY <1>12, <1>0, GotoIs DEF CmdRead
  <2> QED
    BY <2>1, <2>2, <1>1
<1>13. CASE CmdWrite
  <2>1. hooksEvent' = hooksEvent /\ req'.waiting = req.waiting
    BY <1>13, <1>0 DEF CmdWrite
  <2>2. pc'["HOOKS"] = pc["HOOKS"]
    BY <1>13, <1>0, GotoIs DEF CmdWrite
  <2> QED
    BY <2>1, <2>2, <1>1
<1>14. CASE CmdEnd
  <2>1. hooksEvent' = hooksEvent /\ req'.waiting = req.waiting
    BY <1>14, <1>0 DEF CmdEnd
  <2>2. pc'["HOOKS"] = pc["HOOKS"]
    BY <1>14, <1>0, GotoIs DEF CmdEnd
  <2> QED
    BY <2>1, <2>2, <1>1
<1>15. CASE CmdWipeLater
  <2>1. hooksEvent' = hooksEvent /\ req'.waiting = req.waiting
    BY <1>15, <1>0 DEF CmdWipeLater
  <2>2. pc'["HOOKS"] = pc["HOOKS"]
    BY <1>15, <1>0, GotoIs DEF CmdWipeLater
  <2> QED
    BY <2>1, <2>2, <1>1
<1>16. CASE CmdWipeNow
  <2>1. hooksEvent' = hooksEvent /\ req'.waiting = req.waiting
    BY <1>16, <1>0 DEF CmdWipeNow
  <2>2. pc'["HOOKS"] = pc["HOOKS"]
    BY <1>16, <1>0, GotoIs DEF CmdWipeNow
  <2> QED
    BY <2>1, <2>2, <1>1
<1>17. CASE RstStop("HOOKS")
  <2>1. hooksEvent' = hooksEvent /\ req'.waiting = req.waiting
    BY <1>17, <1>0 DEF RstStop, ReqType
  <2>2. pc["HOOKS"] \in {"loop", "fwmp", "usb_fwmp"} \cup RstSteps
    BY <1>17 DEF RstStop, At, RstSteps
  <2> QED
    BY <2>1, <2>2, <1>1
<1>18. CASE RstCommit("HOOKS")
  <2>1. hooksEvent' = hooksEvent /\ req'.waiting = req.waiting
    BY <1>18, <1>0 DEF RstCommit, ReqType
  <2>2. pc["HOOKS"] \in {"loop", "fwmp", "usb_fwmp"} \cup RstSteps
    BY <1>18 DEF RstCommit, At, RstSteps
  <2> QED
    BY <2>1, <2>2, <1>1
<1>19. CASE RstStart("HOOKS")
  <2>1. hooksEvent' = hooksEvent /\ req'.waiting = req.waiting
    BY <1>19, <1>0 DEF RstStart
  <2>2. pc["HOOKS"] \in {"loop", "fwmp", "usb_fwmp"} \cup RstSteps
    BY <1>19 DEF RstStart, At, RstSteps
  <2> QED
    BY <2>1, <2>2, <1>1
<1>20. CASE reinstate_nvmem_commits
  <2>1. hooksEvent' = hooksEvent /\ req'.waiting = req.waiting
    BY <1>20, <1>0 DEF reinstate_nvmem_commits
  <2>2. pc["HOOKS"] \in {"loop", "fwmp", "usb_fwmp"} \cup RstSteps
    BY <1>20 DEF reinstate_nvmem_commits, Runs, At, RstSteps
  <2> QED
    BY <2>1, <2>2, <1>1
<1>21. CASE deferred_set_ap_off
  <2>1. hooksEvent' = hooksEvent /\ req'.waiting = req.waiting
    BY <1>21, <1>0 DEF deferred_set_ap_off
  <2>2. pc["HOOKS"] \in {"loop", "fwmp", "usb_fwmp"} \cup RstSteps
    BY <1>21 DEF deferred_set_ap_off, Runs, At, RstSteps
  <2> QED
    BY <2>1, <2>2, <1>1
<1>22. CASE deferred_tpm_rst_isr
  <2>1. hooksEvent' = hooksEvent /\ req'.waiting = req.waiting
    BY <1>22, <1>0 DEF deferred_tpm_rst_isr, tpm_reset_request, ReqType
  <2>2. pc["HOOKS"] \in {"loop", "fwmp", "usb_fwmp"} \cup RstSteps
    BY <1>22 DEF deferred_tpm_rst_isr, Runs, At, RstSteps
  <2> QED
    BY <2>1, <2>2, <1>1
<1>23. CASE board_fwmp_update_policies
  <2>1. hooksEvent' = hooksEvent /\ req'.waiting = req.waiting
    BY <1>23, <1>0 DEF board_fwmp_update_policies
  <2>2. pc["HOOKS"] \in {"loop", "fwmp", "usb_fwmp"} \cup RstSteps
    BY <1>23 DEF board_fwmp_update_policies, At, RstSteps
  <2> QED
    BY <2>1, <2>2, <1>1
<1>24. CASE UsbCommand
  <2>1. hooksEvent' = hooksEvent /\ req'.waiting = req.waiting
    BY <1>24, <1>0 DEF UsbCommand
  <2>2. pc["HOOKS"] \in {"loop", "fwmp", "usb_fwmp"} \cup RstSteps
    BY <1>24 DEF UsbCommand, Runs, At, RstSteps
  <2> QED
    BY <2>1, <2>2, <1>1
<1>25. CASE UsbFwmp
  <2>1. hooksEvent' = hooksEvent /\ req'.waiting = req.waiting
    BY <1>25, <1>0 DEF UsbFwmp
  <2>2. pc["HOOKS"] \in {"loop", "fwmp", "usb_fwmp"} \cup RstSteps
    BY <1>25 DEF UsbFwmp, At, RstSteps
  <2> QED
    BY <2>1, <2>2, <1>1
<1>26. CASE DumpStart
  <2>1. hooksEvent' = hooksEvent /\ req'.waiting = req.waiting
    BY <1>26, <1>0 DEF DumpStart
  <2>2. pc'["HOOKS"] = pc["HOOKS"]
    BY <1>26, <1>0, GotoIs DEF DumpStart
  <2> QED
    BY <2>1, <2>2, <1>1
<1>27. CASE DumpEnd
  <2>1. hooksEvent' = hooksEvent /\ req'.waiting = req.waiting
    BY <1>27, <1>0 DEF DumpEnd
  <2>2. pc'["HOOKS"] = pc["HOOKS"]
    BY <1>27, <1>0, GotoIs DEF DumpEnd
  <2> QED
    BY <2>1, <2>2, <1>1
<1>28. CASE EfsWrite
  <2>1. hooksEvent' = hooksEvent /\ req'.waiting = req.waiting
    BY <1>28, <1>0 DEF EfsWrite
  <2>2. pc'["HOOKS"] = pc["HOOKS"]
    BY <1>28, <1>0, GotoIs DEF EfsWrite
  <2> QED
    BY <2>1, <2>2, <1>1
<1>29. CASE EfsUnlock
  <2>1. hooksEvent' = hooksEvent /\ req'.waiting = req.waiting
    BY <1>29, <1>0 DEF EfsUnlock
  <2>2. pc'["HOOKS"] = pc["HOOKS"]
    BY <1>29, <1>0, GotoIs DEF EfsUnlock
  <2> QED
    BY <2>1, <2>2, <1>1
<1>30. CASE AltPoll
  <2>1. hooksEvent' = hooksEvent /\ req'.waiting = req.waiting
    BY <1>30, <1>0 DEF AltPoll
  <2>2. pc'["HOOKS"] = pc["HOOKS"]
    BY <1>30, <1>0, GotoIs DEF AltPoll
  <2> QED
    BY <2>1, <2>2, <1>1
<1>31. CASE ConsoleInput
  <2>1. hooksEvent' = hooksEvent /\ req'.waiting = req.waiting
    BY <1>31, <1>0 DEF ConsoleInput
  <2>2. pc'["HOOKS"] = pc["HOOKS"]
    BY <1>31, <1>0, GotoIs DEF ConsoleInput
  <2> QED
    BY <2>1, <2>2, <1>1
<1>32. CASE tpm_alt_extension
  <2>1. hooksEvent' = hooksEvent /\ req'.waiting = req.waiting
    BY <1>32, <1>0 DEF tpm_alt_extension
  <2>2. pc'["HOOKS"] = pc["HOOKS"]
    BY <1>32, <1>0, GotoIs DEF tpm_alt_extension
  <2> QED
    BY <2>1, <2>2, <1>1
<1>33. CASE tpm_rst_asserted
  <2>1. hooksEvent' = hooksEvent /\ req'.waiting = req.waiting
    BY <1>33, <1>0 DEF tpm_rst_asserted
  <2>2. pc'["HOOKS"] = pc["HOOKS"]
    BY <1>33, <1>0, GotoIs DEF tpm_rst_asserted
  <2> QED
    BY <2>1, <2>2, <1>1
<1>34. CASE tpm_rst_deasserted
  <2>1. hooksEvent' = hooksEvent /\ req'.waiting = req.waiting
    BY <1>34, <1>0 DEF tpm_rst_deasserted
  <2>2. pc'["HOOKS"] = pc["HOOKS"]
    BY <1>34, <1>0, GotoIs DEF tpm_rst_deasserted
  <2> QED
    BY <2>1, <2>2, <1>1
<1>35. CASE HostCommand
  <2>1. hooksEvent' = hooksEvent /\ req'.waiting = req.waiting
    BY <1>35, <1>0 DEF HostCommand, ReqType
  <2>2. pc'["HOOKS"] = pc["HOOKS"]
    BY <1>35, <1>0, GotoIs DEF HostCommand
  <2> QED
    BY <2>1, <2>2, <1>1
<1>36. CASE UsbPacket
  <2>1. hooksEvent' = hooksEvent /\ req'.waiting = req.waiting
    BY <1>36, <1>0 DEF UsbPacket
  <2>2. pc'["HOOKS"] = pc["HOOKS"]
    BY <1>36, <1>0, GotoIs DEF UsbPacket
  <2> QED
    BY <2>1, <2>2, <1>1
<1>37. CASE ResetTimeout
  <2>1. hooksEvent' = hooksEvent /\ req'.waiting = req.waiting
    BY <1>37, <1>0 DEF ResetTimeout
  <2>2. pc'["HOOKS"] = "system_reset"
    BY <1>37, <1>0, GotoIs DEF ResetTimeout
  <2> QED
    BY <2>1, <2>2, <1>1
<1>38. ASSUME NEW t \in {"TPM", "HOOKS"}, RstDisable(t) PROVE WaitInv'
  <2>1. /\ hooksEvent' = (hooksEvent \/ req.waiting) /\ ~req'.waiting
    BY <1>38, <1>0 DEF RstDisable, DisableAndInit, ReqType
  <2>2. pc'["HOOKS"] = pc["HOOKS"] \/ pc["HOOKS"] = "rst_disable"
    BY <1>38, <1>0, GotoIs DEF RstDisable, DisableAndInit, At
  <2> QED
    BY <1>0, <2>1, <2>2 DEF WaitInv
<1>39. CASE WipeDone
  <2>1. hooksEvent /\ ~hooksEvent' /\ req'.waiting = req.waiting
    BY <1>39, <1>0 DEF WipeDone, ReqType
  <2> QED
    BY <1>0, <2>1 DEF WaitInv
<1>40. CASE RebootWaitDone
  <2>1. hooksEvent /\ ~hooksEvent' /\ req'.waiting = req.waiting
    BY <1>40, <1>0 DEF RebootWaitDone, ReqType
  <2> QED
    BY <1>0, <2>1 DEF WaitInv
<1>41. CASE deferred_tpm_rst_isr_reboot
  <2>1. hooksEvent' = hooksEvent /\ pc["HOOKS"] = "loop"
    BY <1>41 DEF deferred_tpm_rst_isr_reboot, Runs, At
  <2>2. pc'["HOOKS"] \in {"wait_reboot", "system_reset"}
    BY <1>41, <1>0, GotoIs DEF deferred_tpm_rst_isr_reboot
  <2> QED
    BY <1>0, <2>1, <2>2 DEF WaitInv
<1>42. CASE board_wipe_tpm
  <2>1. hooksEvent' = hooksEvent /\ pc["HOOKS"] = "loop"
    BY <1>42 DEF board_wipe_tpm, Runs, At
  <2>2. pc'["HOOKS"] \in {"wait_wipe", "system_reset"}
    BY <1>42, <1>0, GotoIs DEF board_wipe_tpm
  <2> QED
    BY <1>0, <2>1, <2>2 DEF WaitInv
<1>43. CASE Booted
  BY <1>43, BootState DEF WaitInv
<1>44. CASE UNCHANGED vars
  BY <1>44, <1>1 DEF vars
<1> QED
  BY <1>2, <1>3, <1>4, <1>5, <1>6, <1>7, <1>8, <1>9, <1>10, <1>11,
     <1>12, <1>13, <1>14, <1>15, <1>16, <1>17, <1>18, <1>19, <1>20,
     <1>21, <1>22, <1>23, <1>24, <1>25, <1>26, <1>27, <1>28, <1>29,
     <1>30, <1>31, <1>32, <1>33, <1>34, <1>35, <1>36, <1>37, <1>38,
     <1>39, <1>40, <1>41, <1>42, <1>43, <1>44
  DEF Next, TpmTask, HooksTask, ConsoleTask, Environment, TpmReset_,
      Booted

\* Nothing takes from the flash what it held of a TPM command, except the
\* erasure of the TPM; and nothing more is due until the next request.
LEMMA FlashStep ==
    ASSUME TypeOK, LockInv, UnsavedInv, [Next]_vars
    PROVE  /\ hist'.due > nv'.flash =>
                hist.due > nv.flash \/ deferred_tpm_rst_isr_reboot
           /\ hist'.written > nv'.flash => hist.written > nv.flash \/ CmdWrite
<1> USE DEF Tasks
<1>0. /\ NvType(nv) /\ HistType(hist)
      /\ nv.flash \in Nat /\ nv.cache \in Nat
      /\ hist.due \in Nat /\ hist.written \in Nat
      /\ nv.flash <= nv.cache
      /\ nv.write_in_progress \/ ~nv.commits_enabled => nv.task # NoTask
  BY DEF TypeOK, LockInv, NvInv, NvCore, NvType, HistType, UnsavedInv
<1> DEFINE Goal ==
        /\ hist'.due > nv'.flash =>
             hist.due > nv.flash \/ deferred_tpm_rst_isr_reboot
        /\ hist'.written > nv'.flash => hist.written > nv.flash \/ CmdWrite
<1>1. ASSUME hist' = hist, nv'.flash \in Nat, nv.flash <= nv'.flash PROVE Goal
  BY <1>1, <1>0
<1>2. ASSUME hist'.due = 0, hist'.written = 0, nv'.flash \in Nat PROVE Goal
  BY <1>2, <1>0
<1>3. ASSUME NEW t \in {"TPM", "HOOKS"}, RstStop(t) PROVE Goal
  <2>1. \/ /\ nv' = nvmem_erase_tpm_data(nv)
           /\ hist'.due = 0 /\ hist'.written = 0
        \/ nv' = nv /\ hist' = hist
    BY <1>3, <1>0 DEF RstStop, HistType
  <2> QED
    BY <1>0, <2>1, EraseIs, <1>1, <1>2
<1>4. ASSUME NEW t \in {"TPM", "HOOKS"}, RstCommit(t) PROVE Goal
  <2>1. /\ hist' = hist
        /\ nv' = nvmem_enable_commits(nv, t) \/ nv' = nv
    BY <1>4 DEF RstCommit
  <2>2. nv'.flash \in {nv.flash, nv.cache}
    BY <1>0, <2>1, EnableIs
  <2> QED
    BY <1>0, <2>1, <2>2, <1>1
<1>5. ASSUME TpmCommit PROVE Goal
  <2>1. /\ hist' = hist
        /\ nv' = nvmem_enable_commits(nv, "TPM") \/ nv' = nv
    BY <1>5 DEF TpmCommit
  <2>2. nv'.flash \in {nv.flash, nv.cache}
    BY <1>0, <2>1, EnableIs
  <2> QED
    BY <1>0, <2>1, <2>2, <1>1
<1>6. ASSUME CmdCommitNvmem PROVE Goal
  <2>1. /\ hist' = hist
        /\ nv' = nvmem_enable_commits(nv, "TPM") \/ nv' = nv
    BY <1>6 DEF CmdCommitNvmem
  <2>2. nv'.flash \in {nv.flash, nv.cache}
    BY <1>0, <2>1, EnableIs
  <2> QED
    BY <1>0, <2>1, <2>2, <1>1
<1>7. ASSUME deferred_set_ap_off PROVE Goal
  <2>1. /\ hist' = hist
        /\ nv' = nvmem_enable_commits(nv, "HOOKS") \/ nv' = nv
    BY <1>7 DEF deferred_set_ap_off
  <2>2. nv'.flash \in {nv.flash, nv.cache}
    BY <1>0, <2>1, EnableIs
  <2> QED
    BY <1>0, <2>1, <2>2, <1>1
<1>8. ASSUME DumpEnd PROVE Goal
  <2>1. /\ hist' = hist
        /\ nv' = nvmem_enable_commits(nv, "CONSOLE") \/ nv' = nv
    BY <1>8 DEF DumpEnd
  <2>2. nv'.flash \in {nv.flash, nv.cache}
    BY <1>0, <2>1, EnableIs
  <2> QED
    BY <1>0, <2>1, <2>2, <1>1
<1>9. ASSUME NEW t \in {"TPM", "HOOKS"}, RstDisable(t) PROVE Goal
  <2>1. /\ hist' = hist
        /\ nv' = TPM_Manufacture(nvmem_disable_commits(nv, t), t)
    BY <1>9 DEF RstDisable, DisableAndInit
  <2> QED
    BY <1>0, <2>1, DisableIs, <1>1
<1>10. ASSUME CmdEnd PROVE Goal
  <2>1. hist' = hist /\ nv' = nvmem_commit(nv, "TPM")
    BY <1>10 DEF CmdEnd
  <2>2. nv'.flash \in {nv.flash, nv.cache}
    BY <1>0, <2>1, CommitIs
  <2> QED
    BY <1>0, <2>1, <2>2, <1>1
<1>11. ASSUME CmdRead PROVE Goal
  <2>1. /\ hist' = hist /\ nv' = nvmem_read(nv, "TPM")
        /\ nv.task \in {"TPM", NoTask}
    BY <1>11 DEF CmdRead, CanLock
  <2> QED
    BY <1>0, <2>1, ReadIs, <1>1
<1>12. ASSUME CmdWipeLater PROVE Goal
  <2>1. /\ hist' = hist /\ nv' = nvmem_read(nv, "TPM")
        /\ nv.task \in {"TPM", NoTask}
    BY <1>12 DEF CmdWipeLater, CanLock
  <2> QED
    BY <1>0, <2>1, ReadIs, <1>1
<1>13. ASSUME CmdWipeNow PROVE Goal
  <2>1. /\ hist' = hist /\ nv' = nvmem_read(nv, "TPM")
        /\ nv.task \in {"TPM", NoTask}
    BY <1>13 DEF CmdWipeNow, CanLock
  <2> QED
    BY <1>0, <2>1, ReadIs, <1>1
<1>14. ASSUME board_fwmp_update_policies PROVE Goal
  <2>1. /\ hist' = hist /\ nv' = nvmem_read(nv, "HOOKS")
        /\ nv.task \in {"HOOKS", NoTask}
    BY <1>14 DEF board_fwmp_update_policies, CanLock
  <2> QED
    BY <1>0, <2>1, ReadIs, <1>1
<1>15. ASSUME UsbFwmp PROVE Goal
  <2>1. /\ hist' = hist /\ nv' = nvmem_read(nv, "HOOKS")
        /\ nv.task \in {"HOOKS", NoTask}
    BY <1>15 DEF UsbFwmp, CanLock
  <2> QED
    BY <1>0, <2>1, ReadIs, <1>1
<1>16. ASSUME CmdWrite PROVE Goal
  <2>1. hist'.due = hist.due /\ nv' = nvmem_write(nv, "TPM")
    BY <1>16, <1>0 DEF CmdWrite, HistType
  <2> QED
    BY <1>16, <1>0, <2>1, WriteIs
<1>17. ASSUME DumpStart PROVE Goal
  <2>1. hist' = hist /\ nv' = nvmem_disable_commits(nv, "CONSOLE")
    BY <1>17 DEF DumpStart
  <2>2. nv'.flash = nv.flash
    BY <1>0, <2>1 DEF nvmem_disable_commits, nvmem_lock_cache, NvType
  <2> QED
    BY <1>0, <2>1, <2>2, <1>1
<1>18. ASSUME EfsWrite PROVE Goal
  <2> DEFINE r == nvmem_read(nv, "CONSOLE")
  <2>1. hist' = hist /\ (nv' = nv \/ nv' = nvmem_write(r, "CONSOLE"))
    BY <1>18 DEF EfsWrite
  <2>2. NvType(r) /\ r.flash = nv.flash
    BY <1>18, <1>0, OpsType, ReadIs DEF EfsWrite, CanLock
  <2> HIDE DEF r
  <2> QED
    BY <1>0, <2>1, <2>2, WriteIs, <1>1
<1>19. ASSUME EfsUnlock PROVE Goal
  <2>1. hist' = hist /\ nv'.flash = nv.flash
    BY <1>19, <1>0 DEF EfsUnlock, nvmem_unlock_cache, nvmem_release_cache, NvType
  <2> QED
    BY <1>0, <2>1, <1>1
<1>20. ASSUME Booted PROVE Goal
  <2>1. PICK r : Boot(nv.flash, nv.writes, r)
    BY <1>20 DEF Booted, SystemReset, DeepSleep, PowerLoss
  <2>2. hist'.due = 0 /\ hist'.written = 0 /\ nv'.flash = nv.flash
    BY <2>1 DEF Boot, nvmem_init
  <2> QED
    BY <1>0, <2>2, <1>2
<1>21. ASSUME RstStart("TPM") PROVE Goal
  BY <1>21, <1>0, <1>1 DEF RstStart
<1>22. ASSUME TpmPreloop PROVE Goal
  BY <1>22, <1>0, <1>1 DEF TpmPreloop
<1>23. ASSUME TpmTakeEvents PROVE Goal
  BY <1>23, <1>0, <1>1 DEF TpmTakeEvents
<1>24. ASSUME TpmReset PROVE Goal
  BY <1>24, <1>0, <1>1 DEF TpmReset
<1>25. ASSUME TpmCommand PROVE Goal
  BY <1>25, <1>0, <1>1 DEF TpmCommand
<1>26. ASSUME CmdKind PROVE Goal
  BY <1>26, <1>0, <1>1 DEF CmdKind
<1>27. ASSUME RstStart("HOOKS") PROVE Goal
  BY <1>27, <1>0, <1>1 DEF RstStart
<1>28. ASSUME reinstate_nvmem_commits PROVE Goal
  BY <1>28, <1>0, <1>1 DEF reinstate_nvmem_commits
<1>29. ASSUME deferred_tpm_rst_isr PROVE Goal
  BY <1>29, <1>0, <1>1 DEF deferred_tpm_rst_isr
<1>30. ASSUME WipeDone PROVE Goal
  BY <1>30, <1>0, <1>1 DEF WipeDone
<1>31. ASSUME RebootWaitDone PROVE Goal
  BY <1>31, <1>0, <1>1 DEF RebootWaitDone
<1>32. ASSUME UsbCommand PROVE Goal
  BY <1>32, <1>0, <1>1 DEF UsbCommand
<1>33. ASSUME AltPoll PROVE Goal
  BY <1>33, <1>0, <1>1 DEF AltPoll
<1>34. ASSUME ConsoleInput PROVE Goal
  BY <1>34, <1>0, <1>1 DEF ConsoleInput
<1>35. ASSUME tpm_alt_extension PROVE Goal
  BY <1>35, <1>0, <1>1 DEF tpm_alt_extension
<1>36. ASSUME tpm_rst_asserted PROVE Goal
  BY <1>36, <1>0, <1>1 DEF tpm_rst_asserted
<1>37. ASSUME tpm_rst_deasserted PROVE Goal
  BY <1>37, <1>0, <1>1 DEF tpm_rst_deasserted
<1>38. ASSUME HostCommand PROVE Goal
  BY <1>38, <1>0, <1>1 DEF HostCommand
<1>39. ASSUME UsbPacket PROVE Goal
  BY <1>39, <1>0, <1>1 DEF UsbPacket
<1>40. ASSUME ResetTimeout PROVE Goal
  BY <1>40, <1>0, <1>1 DEF ResetTimeout
<1>41. ASSUME board_wipe_tpm PROVE Goal
  <2>1. /\ nv' = nv
        /\ hist'.due = hist.due /\ hist'.written = hist.written
    BY <1>41, <1>0 DEF board_wipe_tpm, HistType
  <2> QED
    BY <1>0, <2>1
<1>42. ASSUME deferred_tpm_rst_isr_reboot PROVE Goal
  <2>1. nv' = nv /\ hist'.written = hist.written
    BY <1>42, <1>0 DEF deferred_tpm_rst_isr_reboot, HistType
  <2> QED
    BY <1>42, <1>0, <2>1
<1>43. ASSUME UNCHANGED vars PROVE Goal
  BY <1>43, <1>0, <1>1 DEF vars
<1> QED
  BY <1>3, <1>4, <1>5, <1>6, <1>7, <1>8, <1>9, <1>10, <1>11, <1>12,
     <1>13, <1>14, <1>15, <1>16, <1>17, <1>18, <1>19, <1>20, <1>21,
     <1>22, <1>23, <1>24, <1>25, <1>26, <1>27, <1>28, <1>29, <1>30,
     <1>31, <1>32, <1>33, <1>34, <1>35, <1>36, <1>37, <1>38, <1>39,
     <1>40, <1>41, <1>42, <1>43
  DEF Next, TpmTask, HooksTask, ConsoleTask, Environment, TpmReset_,
      Booted


\* Every step keeps the invariant of the reboot.
LEMMA RebootStep ==
    ASSUME TypeOK, LockInv, UnsavedInv, WaitInv, RebootInv, [Next]_vars,
           TypeOK', UnsavedInv'
    PROVE  RebootInv'
<1> USE DEF Tasks
<1> DEFINE Due == hist.due > nv.flash
           Before == \/ pc["TPM"] = "idle" /\ "reset" \in evt
                     \/ pc["TPM"] = "idle" /\ evt = {} /\ "reset" \in events
                     \/ pc["TPM"] \in {"rst_stop", "rst_commit"}
<1>0. /\ NvType(nv) /\ PcType(pc) /\ HistType(hist) /\ hooksEvent \in BOOLEAN
      /\ pc["HOOKS"] = "wait_reboot" /\ Due => ~hooksEvent /\ Before
      /\ pc["HOOKS"] = "reboot" => ~Due
      /\ hooksEvent \/ req.waiting =>
           pc["HOOKS"] \in {"wait_wipe", "wait_reboot", "system_reset"}
  BY DEF TypeOK, RebootInv, WaitInv, NvType, HistType
<1>a. /\ nv.flash \in Nat /\ hist.due \in Nat /\ hist.written \in Nat
      /\ hist.due <= hist.written
      /\ hist.written > nv.flash =>
           /\ nv.task = "TPM"
           /\ pc["TPM"] \notin {"preloop", "rst_disable", "rst_start"}
  BY DEF TypeOK, NvType, HistType, UnsavedInv, Unsaved
<1>b. Due' => pc'["TPM"] \notin {"preloop", "rst_disable", "rst_start"}
  BY DEF TypeOK, NvType, HistType, UnsavedInv, Unsaved
\* The request.
<1>c. CASE deferred_tpm_rst_isr_reboot
  <2>1. /\ MayRun("HOOKS") /\ pc["HOOKS"] = "loop" /\ nv' = nv /\ evt' = evt
        /\ hooksEvent' = hooksEvent
    BY <1>c DEF deferred_tpm_rst_isr_reboot, Runs, At
  <2>2. CASE req.in_progress
    <3>1. pc'["HOOKS"] = "system_reset"
      BY <1>0, <1>c, <2>2, GotoIs
      DEF deferred_tpm_rst_isr_reboot, tpm_reset_request
    <3> QED
      BY <3>1 DEF RebootInv
  <2>3. CASE ~req.in_progress
    <3>1. /\ pc'["HOOKS"] = "wait_reboot" /\ pc'["TPM"] = pc["TPM"]
      BY <1>0, <1>c, <2>3, GotoIs DEF deferred_tpm_rst_isr_reboot
    <3>2. "reset" \in events' /\ hist'.due = hist.written
      BY <1>0, <1>c, <2>3
      DEF deferred_tpm_rst_isr_reboot, tpm_reset_request, HistType
    <3>3. ~hooksEvent
      BY <1>0, <2>1
    <3>4. ASSUME hist'.due > nv'.flash PROVE pc["TPM"] = "idle" /\ evt = {}
      BY <1>0, <1>a, <2>1, <3>2, <3>4, HooksRuns DEF NoTask
    <3> QED
      BY <2>1, <3>1, <3>2, <3>3, <3>4 DEF RebootInv
  <2> QED
    BY <2>2, <2>3
\* Later steps.
<1>d. ASSUME Due' => Due,
             pc'["HOOKS"] = "wait_reboot" => pc["HOOKS"] = "wait_reboot",
             pc'["HOOKS"] = "reboot" => pc["HOOKS"] = "reboot",
             Due /\ Before /\ ~hooksEvent /\ Due' => ~hooksEvent' /\ Before'
      PROVE  RebootInv'
  BY <1>0, <1>a, <1>d DEF RebootInv, TypeOK, NvType, HistType
<1>e. ASSUME ~deferred_tpm_rst_isr_reboot PROVE Due' => Due
  BY <1>e, FlashStep
<1>f. CASE Booted
  BY <1>f, BootState DEF RebootInv
\* Without a request or a start of the firmware, what was not due is not.
<1>g. ASSUME ~deferred_tpm_rst_isr_reboot,
             pc'["HOOKS"] = "wait_reboot" => pc["HOOKS"] = "wait_reboot",
             pc'["HOOKS"] = "reboot" => pc["HOOKS"] = "reboot",
             Due /\ Before /\ ~hooksEvent /\ Due' => ~hooksEvent' /\ Before'
      PROVE  RebootInv'
  BY <1>d, <1>e, <1>g
\* The TPM task goes through the reset.
<1>h. ASSUME TpmTask, ~deferred_tpm_rst_isr_reboot PROVE RebootInv'
  <2> SUFFICES ASSUME Due, Before, ~hooksEvent, Due'
               PROVE  ~hooksEvent' /\ Before'
    BY <1>h, <1>g, TpmOnly DEF HooksStays
  <2>1. CASE RstStop("TPM")
    BY <2>1, <1>0, <1>b, GotoIs DEF RstStop, At
  <2>2. CASE RstCommit("TPM")
    BY <2>2, <1>0, <1>b, GotoIs DEF RstCommit, At
  <2>3. CASE RstDisable("TPM")
    BY <2>3 DEF RstDisable, DisableAndInit, At
  <2>4. CASE RstStart("TPM")
    BY <2>4, <1>0, <1>b, GotoIs DEF RstStart, At
  <2>5. CASE TpmPreloop
    BY <2>5, <1>0, <1>b, GotoIs DEF TpmPreloop, At
  <2>6. CASE TpmTakeEvents
    BY <2>6, <1>0, <1>b, GotoIs DEF TpmTakeEvents, At
  <2>7. CASE TpmReset
    BY <2>7, <1>0, <1>b, GotoIs DEF TpmReset, At
  <2>8. CASE TpmCommit
    BY <2>8, <1>0, <1>b, GotoIs DEF TpmCommit, At
  <2>9. CASE TpmCommand
    BY <2>9, <1>0, <1>b, GotoIs DEF TpmCommand, At
  <2>10. CASE CmdKind
    BY <2>10, <1>0, <1>b, GotoIs DEF CmdKind, At
  <2>11. CASE CmdCommitNvmem
    BY <2>11, <1>0, <1>b, GotoIs DEF CmdCommitNvmem, At
  <2>12. CASE CmdRead
    BY <2>12, <1>0, <1>b, GotoIs DEF CmdRead, At
  <2>13. CASE CmdWrite
    BY <2>13, <1>0, <1>b, GotoIs DEF CmdWrite, At
  <2>14. CASE CmdEnd
    BY <2>14, <1>0, <1>b, GotoIs DEF CmdEnd, At
  <2>15. CASE CmdWipeLater
    BY <2>15, <1>0, <1>b, GotoIs DEF CmdWipeLater, At
  <2>16. CASE CmdWipeNow
    BY <2>16, <1>0, <1>b, GotoIs DEF CmdWipeNow, At
  <2> QED
    BY <1>h, <2>1, <2>2, <2>3, <2>4, <2>5, <2>6, <2>7, <2>8, <2>9,
       <2>10, <2>11, <2>12, <2>13, <2>14, <2>15, <2>16
    DEF TpmTask, TpmReset_
\* The others leave it alone, and the HOOKS task ends the wait only when
\* nothing is due.
<1>i. ASSUME ~TpmTask, ~Booted, ~deferred_tpm_rst_isr_reboot
      PROVE  RebootInv'
  <2>0. Before => Before'
    BY <1>i, NotTpm DEF TpmStays
  <2>1. CASE RstStop("HOOKS")
    <3>1. pc'["HOOKS"] = pc["HOOKS"] \/ pc'["HOOKS"] \notin {"wait_reboot", "reboot"}
      BY <2>1, <1>0, GotoIs DEF RstStop
    <3>2. hooksEvent' => hooksEvent
      BY <2>1, <1>0 DEF RstStop
    <3> QED
      BY <1>i, <1>g, <2>0, <3>1, <3>2
  <2>2. CASE RstCommit("HOOKS")
    <3>1. pc'["HOOKS"] = pc["HOOKS"] \/ pc'["HOOKS"] \notin {"wait_reboot", "reboot"}
      BY <2>2, <1>0, GotoIs DEF RstCommit
    <3>2. hooksEvent' => hooksEvent
      BY <2>2, <1>0 DEF RstCommit
    <3> QED
      BY <1>i, <1>g, <2>0, <3>1, <3>2
  <2>3. CASE RstDisable("HOOKS")
    <3>1. pc["HOOKS"] = "rst_disable" /\ pc'["HOOKS"] = "rst_start"
      BY <2>3, <1>0, GotoIs DEF RstDisable, DisableAndInit, At
    <3> QED
      BY <3>1 DEF RebootInv
  <2>4. CASE RstStart("HOOKS")
    <3>1. pc'["HOOKS"] = pc["HOOKS"] \/ pc'["HOOKS"] \notin {"wait_reboot", "reboot"}
      BY <2>4, <1>0, GotoIs DEF RstStart
    <3>2. hooksEvent' => hooksEvent
      BY <2>4, <1>0 DEF RstStart
    <3> QED
      BY <1>i, <1>g, <2>0, <3>1, <3>2
  <2>5. CASE reinstate_nvmem_commits
    <3>1. pc'["HOOKS"] = pc["HOOKS"] \/ pc'["HOOKS"] \notin {"wait_reboot", "reboot"}
      BY <2>5, <1>0, GotoIs DEF reinstate_nvmem_commits
    <3>2. hooksEvent' => hooksEvent
      BY <2>5, <1>0 DEF reinstate_nvmem_commits
    <3> QED
      BY <1>i, <1>g, <2>0, <3>1, <3>2
  <2>6. CASE deferred_set_ap_off
    <3>1. pc'["HOOKS"] = pc["HOOKS"] \/ pc'["HOOKS"] \notin {"wait_reboot", "reboot"}
      BY <2>6, <1>0, GotoIs DEF deferred_set_ap_off
    <3>2. hooksEvent' => hooksEvent
      BY <2>6, <1>0 DEF deferred_set_ap_off
    <3> QED
      BY <1>i, <1>g, <2>0, <3>1, <3>2
  <2>7. CASE deferred_tpm_rst_isr
    <3>1. pc'["HOOKS"] = pc["HOOKS"] \/ pc'["HOOKS"] \notin {"wait_reboot", "reboot"}
      BY <2>7, <1>0, GotoIs DEF deferred_tpm_rst_isr
    <3>2. hooksEvent' => hooksEvent
      BY <2>7, <1>0 DEF deferred_tpm_rst_isr
    <3> QED
      BY <1>i, <1>g, <2>0, <3>1, <3>2
  <2>8. CASE board_wipe_tpm
    <3>1. \/ Goto("HOOKS", "system_reset")
          \/ Goto("HOOKS", "wait_wipe")
      BY <2>8 DEF board_wipe_tpm
    <3>2. pc'["HOOKS"] \notin {"wait_reboot", "reboot"}
      BY <1>0, <3>1, GotoIs
    <3>3. hooksEvent' => hooksEvent
      BY <2>8 DEF board_wipe_tpm
    <3> QED
      BY <1>i, <1>g, <2>0, <3>2, <3>3
  <2>9. CASE WipeDone
    <3>1. pc'["HOOKS"] = pc["HOOKS"] \/ pc'["HOOKS"] \notin {"wait_reboot", "reboot"}
      BY <2>9, <1>0, GotoIs DEF WipeDone
    <3>2. hooksEvent' => hooksEvent
      BY <2>9, <1>0 DEF WipeDone
    <3> QED
      BY <1>i, <1>g, <2>0, <3>1, <3>2
  <2>10. CASE board_fwmp_update_policies
    <3>1. pc'["HOOKS"] = pc["HOOKS"] \/ pc'["HOOKS"] \notin {"wait_reboot", "reboot"}
      BY <2>10, <1>0, GotoIs DEF board_fwmp_update_policies
    <3>2. hooksEvent' => hooksEvent
      BY <2>10, <1>0 DEF board_fwmp_update_policies
    <3> QED
      BY <1>i, <1>g, <2>0, <3>1, <3>2
  <2>11. CASE RebootWaitDone
    <3>1. pc["HOOKS"] = "wait_reboot" /\ hooksEvent /\ nv' = nv /\ hist' = hist
      BY <2>11 DEF RebootWaitDone, At
    <3>2. pc'["HOOKS"] = "reboot"
      BY <2>11, <1>0, GotoIs DEF RebootWaitDone
    <3> QED
      BY <1>0, <1>a, <3>1, <3>2 DEF RebootInv
  <2>12. CASE UsbCommand
    <3>1. pc'["HOOKS"] = pc["HOOKS"] \/ pc'["HOOKS"] \notin {"wait_reboot", "reboot"}
      BY <2>12, <1>0, GotoIs DEF UsbCommand
    <3>2. hooksEvent' => hooksEvent
      BY <2>12, <1>0 DEF UsbCommand
    <3> QED
      BY <1>i, <1>g, <2>0, <3>1, <3>2
  <2>13. CASE UsbFwmp
    <3>1. pc'["HOOKS"] = pc["HOOKS"] \/ pc'["HOOKS"] \notin {"wait_reboot", "reboot"}
      BY <2>13, <1>0, GotoIs DEF UsbFwmp
    <3>2. hooksEvent' => hooksEvent
      BY <2>13, <1>0 DEF UsbFwmp
    <3> QED
      BY <1>i, <1>g, <2>0, <3>1, <3>2
  <2>14. CASE ResetTimeout
    <3>1. pc'["HOOKS"] = pc["HOOKS"] \/ pc'["HOOKS"] \notin {"wait_reboot", "reboot"}
      BY <2>14, <1>0, GotoIs DEF ResetTimeout
    <3>2. hooksEvent' => hooksEvent
      BY <2>14, <1>0 DEF ResetTimeout
    <3> QED
      BY <1>i, <1>g, <2>0, <3>1, <3>2
  <2>15. CASE HooksStays /\ hooksEvent' = hooksEvent
    BY <2>15, <1>i, <1>g, <2>0 DEF HooksStays
  <2> QED
    BY <1>i, NotHooks, <2>1, <2>2, <2>3, <2>4, <2>5, <2>6, <2>7, <2>8,
       <2>9, <2>10, <2>11, <2>12, <2>13, <2>14, <2>15
    DEF HooksTask, TpmReset_, Booted
<1> QED
  BY <1>c, <1>f, <1>h, <1>i

\* When the HOOKS task reboots the chip, what was in the cache when it asked
\* for the reset is in flash, or was erased since: for every set of deferred
\* functions, the commands over USB included.
THEOREM RebootsAreCommitted == Spec => []CommittedBeforeReboot
<1>1. Init => UnsavedInv /\ WaitInv /\ RebootInv
  BY DEF Init, nvmem_init, BootPc, Tasks, UnsavedInv, Unsaved, WaitInv,
         RebootInv
<1>2. TypeOK /\ LockInv /\ UnsavedInv /\ [Next]_vars => UnsavedInv'
  BY UnsavedStep
<1>3. TypeOK /\ WaitInv /\ [Next]_vars => WaitInv'
  BY WaitStep
<1>4. /\ TypeOK /\ LockInv /\ UnsavedInv /\ WaitInv /\ RebootInv
      /\ [Next]_vars /\ TypeOK' /\ UnsavedInv'
      => RebootInv'
  BY RebootStep
<1>5. TypeOK /\ RebootInv => CommittedBeforeReboot
  BY DEF TypeOK, NvType, HistType, RebootInv, CommittedBeforeReboot
<1> QED
  BY <1>1, <1>2, <1>3, <1>4, <1>5, TypeCorrect, LockInvHolds, PTL DEF Spec

----------------------------------------------------------------------------
(* Deep sleep.                                                             *)

\* The alternative path has one command at most: while its event is pending
\* nobody has answered, and until the answer the console waits.
AltInv ==
    /\ "alt" \in events \/ "alt" \in evt => alt = "waiting"
    /\ ~("alt" \in events /\ "alt" \in evt)
    /\ alt # "done" => pc["CONSOLE"] = "alt_wait"

\* The TPM task does not hold the lock before its first reset; while it does,
\* with commits disabled, the timer of reinstate_nvmem_commits() is armed or
\* its event is on the way, and not with the events a reset will drop.
TimerInv ==
    /\ nv.task = "TPM" => pc["TPM"] # "preloop"
    /\ nv.task = "TPM" /\ ~nv.commits_enabled =>
         \/ "reinstate" \in deferred
         \/ "commit" \in events
         \/ "commit" \in evt /\ pc["TPM"] # "rst_start"

\* Deep sleep is chosen, and AP off pending, only while the AP is not on; an
\* AP that is out of reset is on or about to be.
ApInv ==
    /\ ap.deep_sleep => ap.state # "on"
    /\ "ap_off" \in deferred => ap.state # "on"
    /\ ap.rst /\ ap.state # "on" =>
         "tpm_rst" \in deferred \/ "reboot" \in deferred

\* The HOOKS task keeps the lock only with commits disabled, which it does
\* to the end of a reset with a wipe; "rst_commit" gives the lock back.
HooksLockInv ==
    /\ nv.task = "HOOKS" =>
         /\ ~nv.commits_enabled
         /\ nv.write_in_progress => nv.nvmem_updated
    /\ pc["HOOKS"] = "rst_disable" => nv.task # "HOOKS"
    /\ pc["HOOKS"] = "rst_start" => nv.task = "HOOKS"
    /\ pc["HOOKS"] \in RstSteps => wipeFirst["HOOKS"]

\* Until its first reset the TPM task has taken no events, and the AP is on,
\* or a reset under way, only with the request for that reset.
FirstInv ==
    pc["TPM"] = "preloop" =>
        /\ evt = {}
        /\ ap.state = "on" \/ req.in_progress => "reset" \in events

\* A command of the alternative path is not yet answered.
Calls == alt \in {"waiting", "running"}

\* While the HOOKS task has the lock and is about to start the interface, the
\* TPM task gets into a reset only by a command that the console waits for.
QuietInv ==
    pc["HOOKS"] = "rst_start" =>
        /\ "reset" \notin events \cup evt
        /\ pc["TPM"] \in RstSteps => Calls

\* Unless the console waits, the interface is down during a reset, and the
\* FIFO is empty from "rst_commit" until it is up again.
FifoInv ==
    /\ pc["TPM"] \in {"rst_commit", "rst_disable", "rst_start"} => ~ifUp \/ Calls
    /\ pc["TPM"] \in {"rst_disable", "rst_start"} => ~req.fifo \/ Calls

\* Deep sleep is entered with a timer pending only after a reset during AP
\* off, and then no command came after the reset: not from the AP, whose
\* interface was down until the reset had emptied the FIFO, and not from the
\* console, which would have put off the sleep.
SleepInv ==
    /\ ap.late => pc["CONSOLE"] # "alt_wait"
    /\ ap.late /\ ~ap.rst /\ ap.state # "on" =>
         ~Unsaved /\ ~req.fifo /\ pc["TPM"] \notin CmdSteps

\* Every step keeps the invariant of the alternative path.
LEMMA AltStep ==
    ASSUME TypeOK, AltInv, [Next]_vars
    PROVE  AltInv'
<1> USE DEF Tasks
<1>0. /\ PcType(pc)
      /\ evt \in SUBSET TpmEvents /\ events \in SUBSET TpmEvents
      /\ alt \in AltResults
      /\ "alt" \in events \/ "alt" \in evt => alt = "waiting"
      /\ ~("alt" \in events /\ "alt" \in evt)
      /\ alt # "done" => pc["CONSOLE"] = "alt_wait"
  BY DEF TypeOK, AltInv
<1>a. ASSUME TpmTask PROVE AltInv'
  <2>0. pc'["CONSOLE"] = pc["CONSOLE"]
    BY <1>a, TpmOnly DEF ConsoleStays
  <2>1. CASE RstStop("TPM")
    BY <2>1, <1>0, <2>0 DEF RstStop, AltInv
  <2>2. CASE RstCommit("TPM")
    BY <2>2, <1>0, <2>0 DEF RstCommit, AltInv
  <2>3. CASE RstDisable("TPM")
    BY <2>3, <1>0, <2>0 DEF RstDisable, DisableAndInit, AltInv
  <2>4. CASE RstStart("TPM")
    BY <2>4, <1>0, <2>0 DEF RstStart, CommandDone, AltInv
  <2>5. CASE TpmPreloop
    BY <2>5, <1>0, <2>0 DEF TpmPreloop, AltInv
  <2>6. CASE TpmTakeEvents
    BY <2>6, <1>0, <2>0 DEF TpmTakeEvents, AltInv
  <2>7. CASE TpmReset
    BY <2>7, <1>0, <2>0 DEF TpmReset, AltInv
  <2>8. CASE TpmCommit
    BY <2>8, <1>0, <2>0 DEF TpmCommit, AltInv
  <2>9. CASE TpmCommand
    BY <2>9, <1>0, <2>0 DEF TpmCommand, AltInv
  <2>10. CASE CmdKind
    BY <2>10, <1>0, <2>0 DEF CmdKind, AltInv
  <2>11. CASE CmdCommitNvmem
    BY <2>11, <1>0, <2>0 DEF CmdCommitNvmem, CommandDone, AltInv
  <2>12. CASE CmdRead
    BY <2>12, <1>0, <2>0 DEF CmdRead, AltInv
  <2>13. CASE CmdWrite
    BY <2>13, <1>0, <2>0 DEF CmdWrite, AltInv
  <2>14. CASE CmdEnd
    BY <2>14, <1>0, <2>0 DEF CmdEnd, CommandDone, AltInv
  <2>15. CASE CmdWipeLater
    BY <2>15, <1>0, <2>0 DEF CmdWipeLater, CommandDone, AltInv
  <2>16. CASE CmdWipeNow
    BY <2>16, <1>0, <2>0 DEF CmdWipeNow, AltInv
  <2> QED
    BY <1>a, <2>1, <2>2, <2>3, <2>4, <2>5, <2>6, <2>7, <2>8, <2>9,
       <2>10, <2>11, <2>12, <2>13, <2>14, <2>15, <2>16
    DEF TpmTask, TpmReset_
<1>b. CASE Booted
  BY <1>b, BootState DEF AltInv
<1>c. CASE tpm_alt_extension
  <2>1. pc["CONSOLE"] = "prompt" /\ pc'["CONSOLE"] = "alt_wait"
    BY <1>0, <1>c, GotoIs DEF tpm_alt_extension, At
  <2> QED
    BY <1>0, <1>c, <2>1 DEF tpm_alt_extension, AltInv
<1>d. CASE AltPoll
  <2>1. CASE alt = "done"
    BY <1>0, <1>d, <2>1 DEF AltPoll, AltInv
  <2>2. CASE alt # "done"
    BY <1>0, <1>d, <2>2 DEF AltPoll, AltInv
  <2> QED
    BY <2>1, <2>2
\* The other steps touch neither the event nor the answer.
<1>e. ASSUME alt' = alt, evt' = evt, "alt" \in events' => "alt" \in events,
             pc'["CONSOLE"] = pc["CONSOLE"] \/ pc["CONSOLE"] # "alt_wait"
      PROVE  AltInv'
  BY <1>0, <1>e DEF AltInv
<1>1. CASE RstStop("HOOKS")
  <2>1. alt' = alt /\ evt' = evt /\ ("alt" \in events' => "alt" \in events)
    BY <1>1 DEF RstStop
  <2>2. pc'["CONSOLE"] = pc["CONSOLE"]
    BY <1>1, <1>0, GotoIs DEF RstStop
  <2> QED
    BY <1>e, <2>1, <2>2
<1>2. CASE RstCommit("HOOKS")
  <2>1. alt' = alt /\ evt' = evt /\ ("alt" \in events' => "alt" \in events)
    BY <1>2 DEF RstCommit
  <2>2. pc'["CONSOLE"] = pc["CONSOLE"]
    BY <1>2, <1>0, GotoIs DEF RstCommit
  <2> QED
    BY <1>e, <2>1, <2>2
<1>3. CASE RstDisable("HOOKS")
  <2>1. alt' = alt /\ evt' = evt /\ ("alt" \in events' => "alt" \in events)
    BY <1>3 DEF RstDisable, DisableAndInit
  <2>2. pc'["CONSOLE"] = pc["CONSOLE"]
    BY <1>3, <1>0, GotoIs DEF RstDisable, DisableAndInit
  <2> QED
    BY <1>e, <2>1, <2>2
<1>4. CASE RstStart("HOOKS")
  <2>1. alt' = alt /\ evt' = evt /\ ("alt" \in events' => "alt" \in events)
    BY <1>4 DEF RstStart
  <2>2. pc'["CONSOLE"] = pc["CONSOLE"]
    BY <1>4, <1>0, GotoIs DEF RstStart
  <2> QED
    BY <1>e, <2>1, <2>2
<1>5. CASE reinstate_nvmem_commits
  <2>1. alt' = alt /\ evt' = evt /\ ("alt" \in events' => "alt" \in events)
    BY <1>5 DEF reinstate_nvmem_commits
  <2>2. pc'["CONSOLE"] = pc["CONSOLE"]
    BY <1>5, <1>0, GotoIs DEF reinstate_nvmem_commits
  <2> QED
    BY <1>e, <2>1, <2>2
<1>6. CASE deferred_set_ap_off
  <2>1. alt' = alt /\ evt' = evt /\ ("alt" \in events' => "alt" \in events)
    BY <1>6 DEF deferred_set_ap_off
  <2>2. pc'["CONSOLE"] = pc["CONSOLE"]
    BY <1>6, <1>0, GotoIs DEF deferred_set_ap_off
  <2> QED
    BY <1>e, <2>1, <2>2
<1>7. CASE deferred_tpm_rst_isr
  <2>1. alt' = alt /\ evt' = evt /\ ("alt" \in events' => "alt" \in events)
    BY <1>7 DEF deferred_tpm_rst_isr, tpm_reset_request
  <2>2. pc'["CONSOLE"] = pc["CONSOLE"]
    BY <1>7, <1>0, GotoIs DEF deferred_tpm_rst_isr
  <2> QED
    BY <1>e, <2>1, <2>2
<1>8. CASE deferred_tpm_rst_isr_reboot
  <2>1. alt' = alt /\ evt' = evt /\ ("alt" \in events' => "alt" \in events)
    BY <1>8 DEF deferred_tpm_rst_isr_reboot, tpm_reset_request
  <2>2. pc'["CONSOLE"] = pc["CONSOLE"]
    BY <1>8, <1>0, GotoIs DEF deferred_tpm_rst_isr_reboot
  <2> QED
    BY <1>e, <2>1, <2>2
<1>9. CASE board_wipe_tpm
  <2>1. alt' = alt /\ evt' = evt /\ ("alt" \in events' => "alt" \in events)
    BY <1>9 DEF board_wipe_tpm, tpm_reset_request
  <2>2. pc'["CONSOLE"] = pc["CONSOLE"]
    BY <1>9, <1>0, GotoIs DEF board_wipe_tpm
  <2> QED
    BY <1>e, <2>1, <2>2
<1>10. CASE WipeDone
  <2>1. alt' = alt /\ evt' = evt /\ ("alt" \in events' => "alt" \in events)
    BY <1>10 DEF WipeDone
  <2>2. pc'["CONSOLE"] = pc["CONSOLE"]
    BY <1>10, <1>0, GotoIs DEF WipeDone
  <2> QED
    BY <1>e, <2>1, <2>2
<1>11. CASE board_fwmp_update_policies
  <2>1. alt' = alt /\ evt' = evt /\ ("alt" \in events' => "alt" \in events)
    BY <1>11 DEF board_fwmp_update_policies
  <2>2. pc'["CONSOLE"] = pc["CONSOLE"]
    BY <1>11, <1>0, GotoIs DEF board_fwmp_update_policies
  <2> QED
    BY <1>e, <2>1, <2>2
<1>12. CASE RebootWaitDone
  <2>1. alt' = alt /\ evt' = evt /\ ("alt" \in events' => "alt" \in events)
    BY <1>12 DEF RebootWaitDone
  <2>2. pc'["CONSOLE"] = pc["CONSOLE"]
    BY <1>12, <1>0, GotoIs DEF RebootWaitDone
  <2> QED
    BY <1>e, <2>1, <2>2
<1>13. CASE UsbCommand
  <2>1. alt' = alt /\ evt' = evt /\ ("alt" \in events' => "alt" \in events)
    BY <1>13 DEF UsbCommand
  <2>2. pc'["CONSOLE"] = pc["CONSOLE"]
    BY <1>13, <1>0, GotoIs DEF UsbCommand
  <2> QED
    BY <1>e, <2>1, <2>2
<1>14. CASE UsbFwmp
  <2>1. alt' = alt /\ evt' = evt /\ ("alt" \in events' => "alt" \in events)
    BY <1>14 DEF UsbFwmp
  <2>2. pc'["CONSOLE"] = pc["CONSOLE"]
    BY <1>14, <1>0, GotoIs DEF UsbFwmp
  <2> QED
    BY <1>e, <2>1, <2>2
<1>15. CASE DumpStart
  <2>1. alt' = alt /\ evt' = evt /\ ("alt" \in events' => "alt" \in events)
    BY <1>15 DEF DumpStart
  <2>2. pc["CONSOLE"] # "alt_wait"
    BY <1>15, <1>0 DEF DumpStart, At
  <2> QED
    BY <1>e, <2>1, <2>2
<1>16. CASE DumpEnd
  <2>1. alt' = alt /\ evt' = evt /\ ("alt" \in events' => "alt" \in events)
    BY <1>16 DEF DumpEnd
  <2>2. pc["CONSOLE"] # "alt_wait"
    BY <1>16, <1>0 DEF DumpEnd, At
  <2> QED
    BY <1>e, <2>1, <2>2
<1>17. CASE EfsWrite
  <2>1. alt' = alt /\ evt' = evt /\ ("alt" \in events' => "alt" \in events)
    BY <1>17 DEF EfsWrite
  <2>2. pc["CONSOLE"] # "alt_wait"
    BY <1>17, <1>0 DEF EfsWrite, At
  <2> QED
    BY <1>e, <2>1, <2>2
<1>18. CASE EfsUnlock
  <2>1. alt' = alt /\ evt' = evt /\ ("alt" \in events' => "alt" \in events)
    BY <1>18 DEF EfsUnlock
  <2>2. pc["CONSOLE"] # "alt_wait"
    BY <1>18, <1>0 DEF EfsUnlock, At
  <2> QED
    BY <1>e, <2>1, <2>2
<1>19. CASE ConsoleInput
  <2>1. alt' = alt /\ evt' = evt /\ ("alt" \in events' => "alt" \in events)
    BY <1>19 DEF ConsoleInput
  <2>2. pc["CONSOLE"] # "alt_wait"
    BY <1>19, <1>0 DEF ConsoleInput, At
  <2> QED
    BY <1>e, <2>1, <2>2
<1>20. CASE tpm_rst_asserted
  <2>1. alt' = alt /\ evt' = evt /\ ("alt" \in events' => "alt" \in events)
    BY <1>20 DEF tpm_rst_asserted
  <2>2. pc'["CONSOLE"] = pc["CONSOLE"]
    BY <1>20, <1>0, GotoIs DEF tpm_rst_asserted
  <2> QED
    BY <1>e, <2>1, <2>2
<1>21. CASE tpm_rst_deasserted
  <2>1. alt' = alt /\ evt' = evt /\ ("alt" \in events' => "alt" \in events)
    BY <1>21 DEF tpm_rst_deasserted
  <2>2. pc'["CONSOLE"] = pc["CONSOLE"]
    BY <1>21, <1>0, GotoIs DEF tpm_rst_deasserted
  <2> QED
    BY <1>e, <2>1, <2>2
<1>22. CASE HostCommand
  <2>1. alt' = alt /\ evt' = evt /\ ("alt" \in events' => "alt" \in events)
    BY <1>22 DEF HostCommand
  <2>2. pc'["CONSOLE"] = pc["CONSOLE"]
    BY <1>22, <1>0, GotoIs DEF HostCommand
  <2> QED
    BY <1>e, <2>1, <2>2
<1>23. CASE UsbPacket
  <2>1. alt' = alt /\ evt' = evt /\ ("alt" \in events' => "alt" \in events)
    BY <1>23 DEF UsbPacket
  <2>2. pc'["CONSOLE"] = pc["CONSOLE"]
    BY <1>23, <1>0, GotoIs DEF UsbPacket
  <2> QED
    BY <1>e, <2>1, <2>2
<1>24. CASE ResetTimeout
  <2>1. alt' = alt /\ evt' = evt /\ ("alt" \in events' => "alt" \in events)
    BY <1>24 DEF ResetTimeout
  <2>2. pc'["CONSOLE"] = pc["CONSOLE"]
    BY <1>24, <1>0, GotoIs DEF ResetTimeout
  <2> QED
    BY <1>e, <2>1, <2>2
<1>25. CASE UNCHANGED vars
  BY <1>25, <1>e DEF vars
<1> QED
  BY <1>1, <1>2, <1>3, <1>4, <1>5, <1>6, <1>7, <1>8, <1>9, <1>10, <1>11,
     <1>12, <1>13, <1>14, <1>15, <1>16, <1>17, <1>18, <1>19, <1>20,
     <1>21, <1>22, <1>23, <1>24, <1>25, <1>a, <1>b, <1>c, <1>d
  DEF Next, HooksTask, ConsoleTask, Environment, TpmReset_, Booted


\* The TPM task holds the lock after a step of another task only if it did
\* before, and with commits enabled or disabled as they were.
LEMMA OwnerStep ==
    ASSUME TypeOK, LockInv, [Next]_vars, ~TpmTask, ~Booted, nv'.task = "TPM"
    PROVE  nv.task = "TPM" /\ nv'.commits_enabled = nv.commits_enabled
<1> USE DEF Tasks
<1>0. /\ NvType(nv) /\ PcType(pc)
      /\ nv.write_in_progress \/ ~nv.commits_enabled => nv.task # NoTask
  BY DEF TypeOK, LockInv, NvInv, NvCore
<1> DEFINE Goal == nv.task = "TPM" /\ nv'.commits_enabled = nv.commits_enabled
<1>a. ASSUME TpmReset_("HOOKS") PROVE Goal
  <2>1. \/ nv' = nvmem_erase_tpm_data(nv) \/ nv' = nv
        \/ nv' = nvmem_enable_commits(nv, "HOOKS")
        \/ nv' = TPM_Manufacture(nvmem_disable_commits(nv, "HOOKS"), "HOOKS")
    BY <1>a DEF TpmReset_, RstStop, RstCommit, RstDisable, DisableAndInit, RstStart
  <2>2. nv' # TPM_Manufacture(nvmem_disable_commits(nv, "HOOKS"), "HOOKS")
    BY <1>0, DisableIs
  <2>3. CASE nv' = nvmem_enable_commits(nv, "HOOKS")
    BY <1>0, <2>3, EnableIs DEF NoTask
  <2> QED
    BY <1>0, <2>1, <2>2, <2>3, EraseIs
<1>1. ASSUME deferred_set_ap_off PROVE Goal
  <2>1. nv' = nvmem_enable_commits(nv, "HOOKS") \/ nv' = nv
    BY <1>1 DEF deferred_set_ap_off
  <2> QED
    BY <1>0, <2>1, EnableIs DEF NoTask
<1>2. ASSUME DumpEnd PROVE Goal
  <2>1. nv' = nvmem_enable_commits(nv, "CONSOLE") \/ nv' = nv
    BY <1>2 DEF DumpEnd
  <2> QED
    BY <1>0, <2>1, EnableIs DEF NoTask
<1>3. ASSUME board_fwmp_update_policies PROVE Goal
  <2>1. nv' = nvmem_read(nv, "HOOKS") /\ nv.task \in {"HOOKS", NoTask}
    BY <1>3 DEF board_fwmp_update_policies, CanLock
  <2> QED
    BY <1>0, <2>1, ReadIs DEF NoTask
<1>4. ASSUME UsbFwmp PROVE Goal
  <2>1. nv' = nvmem_read(nv, "HOOKS") /\ nv.task \in {"HOOKS", NoTask}
    BY <1>4 DEF UsbFwmp, CanLock
  <2> QED
    BY <1>0, <2>1, ReadIs DEF NoTask
<1>5. ASSUME DumpStart PROVE Goal
  BY <1>5, <1>0 DEF DumpStart, nvmem_disable_commits, nvmem_lock_cache, NvType
<1>6. ASSUME EfsWrite PROVE Goal
  <2> DEFINE r == nvmem_read(nv, "CONSOLE")
  <2>1. nv' = nv \/ nv' = nvmem_write(r, "CONSOLE")
    BY <1>6 DEF EfsWrite
  <2>2. NvType(r)
    BY <1>0, OpsType
  <2> HIDE DEF r
  <2> QED
    BY <2>1, <2>2, WriteIs
<1>7. ASSUME EfsUnlock PROVE Goal
  <2>1. nv.task = "CONSOLE"
    BY <1>7 DEF EfsUnlock, At, LockInv, ConsoleHolds
  <2> QED
    BY <1>7, <1>0, <2>1
    DEF EfsUnlock, nvmem_unlock_cache, nvmem_release_cache, NvType, NoTask
<1>8. ASSUME reinstate_nvmem_commits PROVE Goal
  BY <1>8 DEF reinstate_nvmem_commits
<1>9. ASSUME deferred_tpm_rst_isr PROVE Goal
  BY <1>9 DEF deferred_tpm_rst_isr
<1>10. ASSUME deferred_tpm_rst_isr_reboot PROVE Goal
  BY <1>10 DEF deferred_tpm_rst_isr_reboot
<1>11. ASSUME board_wipe_tpm PROVE Goal
  BY <1>11 DEF board_wipe_tpm
<1>12. ASSUME WipeDone PROVE Goal
  BY <1>12 DEF WipeDone
<1>13. ASSUME RebootWaitDone PROVE Goal
  BY <1>13 DEF RebootWaitDone
<1>14. ASSUME UsbCommand PROVE Goal
  BY <1>14 DEF UsbCommand
<1>15. ASSUME AltPoll PROVE Goal
  BY <1>15 DEF AltPoll
<1>16. ASSUME ConsoleInput PROVE Goal
  BY <1>16 DEF ConsoleInput
<1>17. ASSUME tpm_alt_extension PROVE Goal
  BY <1>17 DEF tpm_alt_extension
<1>18. ASSUME tpm_rst_asserted PROVE Goal
  BY <1>18 DEF tpm_rst_asserted
<1>19. ASSUME tpm_rst_deasserted PROVE Goal
  BY <1>19 DEF tpm_rst_deasserted
<1>20. ASSUME HostCommand PROVE Goal
  BY <1>20 DEF HostCommand
<1>21. ASSUME UsbPacket PROVE Goal
  BY <1>21 DEF UsbPacket
<1>22. ASSUME ResetTimeout PROVE Goal
  BY <1>22 DEF ResetTimeout
<1>23. ASSUME UNCHANGED vars PROVE Goal
  BY <1>23 DEF vars
<1> QED
  BY <1>1, <1>2, <1>3, <1>4, <1>5, <1>6, <1>7, <1>8, <1>9, <1>10, <1>11,
     <1>12, <1>13, <1>14, <1>15, <1>16, <1>17, <1>18, <1>19, <1>20,
     <1>21, <1>22, <1>23, <1>a
  DEF Next, HooksTask, ConsoleTask, Environment, Booted

\* Every step keeps the invariant of the timer.
LEMMA TimerStep ==
    ASSUME TypeOK, LockInv, TimerInv, [Next]_vars
    PROVE  TimerInv'
<1> USE DEF Tasks
<1> DEFINE Off == nv.task = "TPM" /\ ~nv.commits_enabled
           Timer == \/ "reinstate" \in deferred
                    \/ "commit" \in events
                    \/ "commit" \in evt /\ pc["TPM"] # "rst_start"
<1>0. /\ NvType(nv) /\ PcType(pc)
      /\ nv.write_in_progress \/ ~nv.commits_enabled => nv.task # NoTask
      /\ nv.task = "TPM" => pc["TPM"] # "preloop"
      /\ Off => Timer
  BY DEF TypeOK, LockInv, NvInv, NvCore, TimerInv
<1>a. ASSUME pc'["TPM"] # "preloop", Off' => Off, Off /\ Timer => Timer'
      PROVE  TimerInv'
  BY <1>0, <1>a DEF TimerInv
<1>b. ASSUME TpmTask PROVE TimerInv'
  <2>0. deferred \subseteq deferred'
    BY <1>b, TpmOnly
  <2>1. CASE RstStop("TPM")
    <3>1. nv' = nvmem_erase_tpm_data(nv) \/ nv' = nv
      BY <2>1 DEF RstStop
    <3>2. Off' => Off
      BY <1>0, <3>1, EraseIs
    <3>3. /\ pc'["TPM"] \notin {"preloop", "rst_start"}
          /\ evt' = evt /\ events' = events
      BY <2>1, <1>0, GotoIs DEF RstStop
    <3> QED
      BY <1>a, <2>0, <3>2, <3>3
  <2>2. CASE RstCommit("TPM")
    <3>1. nv' = nvmem_enable_commits(nv, "TPM")
      BY <2>2 DEF RstCommit
    <3>2. ~Off'
      BY <1>0, <3>1, EnableIs
    <3>3. pc'["TPM"] # "preloop"
      BY <2>2, <1>0, GotoIs DEF RstCommit, At
    <3> QED
      BY <3>2, <3>3 DEF TimerInv
  <2>3. CASE RstDisable("TPM")
    <3>1. pc'["TPM"] # "preloop" /\ "reinstate" \in deferred'
      BY <2>3, <1>0, GotoIs DEF RstDisable, DisableAndInit
    <3> QED
      BY <3>1 DEF TimerInv
  <2>4. CASE RstStart("TPM")
    <3>1. nv' = nv /\ pc["TPM"] = "rst_start" /\ events' = events
      BY <2>4 DEF RstStart, At
    <3>2. pc'["TPM"] = "idle"
      BY <2>4, <1>0, GotoIs DEF RstStart
    <3> QED
      BY <1>a, <2>0, <3>1, <3>2
  <2>5. CASE TpmPreloop
    <3>1. nv' = nv /\ nv.task # "TPM"
      BY <2>5, <1>0 DEF TpmPreloop, At
    <3> QED
      BY <3>1 DEF TimerInv
  <2>6. CASE TpmTakeEvents
    <3>1. nv' = nv
      BY <2>6 DEF TpmTakeEvents
    <3>2. pc'["TPM"] \notin {"preloop", "rst_start"}
      BY <2>6, <1>0, GotoIs DEF TpmTakeEvents, At
    <3>3. "commit" \in events \cup evt => "commit" \in events' \cup evt'
      BY <2>6 DEF TpmTakeEvents
    <3> QED
      BY <1>a, <2>0, <3>1, <3>2, <3>3
  <2>7. CASE TpmReset
    <3>1. nv' = nv
      BY <2>7 DEF TpmReset
    <3>2. pc'["TPM"] \notin {"preloop", "rst_start"}
      BY <2>7, <1>0, GotoIs DEF TpmReset, At
    <3>3. "commit" \in events \cup evt => "commit" \in events' \cup evt'
      BY <2>7 DEF TpmReset
    <3> QED
      BY <1>a, <2>0, <3>1, <3>2, <3>3
  <2>8. CASE TpmCommit
    <3>1. nv' = nvmem_enable_commits(nv, "TPM")
      BY <2>8 DEF TpmCommit
    <3>2. ~Off'
      BY <1>0, <3>1, EnableIs
    <3>3. pc'["TPM"] # "preloop"
      BY <2>8, <1>0, GotoIs DEF TpmCommit, At
    <3> QED
      BY <3>2, <3>3 DEF TimerInv
  <2>9. CASE TpmCommand
    <3>1. nv' = nv
      BY <2>9 DEF TpmCommand
    <3>2. pc'["TPM"] \notin {"preloop", "rst_start"}
      BY <2>9, <1>0, GotoIs DEF TpmCommand, At
    <3>3. "commit" \in events \cup evt => "commit" \in events' \cup evt'
      BY <2>9 DEF TpmCommand
    <3> QED
      BY <1>a, <2>0, <3>1, <3>2, <3>3
  <2>10. CASE CmdKind
    <3>1. nv' = nv
      BY <2>10 DEF CmdKind
    <3>2. pc'["TPM"] \notin {"preloop", "rst_start"}
      BY <2>10, <1>0, GotoIs DEF CmdKind, At
    <3>3. "commit" \in events \cup evt => "commit" \in events' \cup evt'
      BY <2>10 DEF CmdKind
    <3> QED
      BY <1>a, <2>0, <3>1, <3>2, <3>3
  <2>11. CASE CmdCommitNvmem
    <3>1. nv' = nvmem_enable_commits(nv, "TPM")
      BY <2>11 DEF CmdCommitNvmem
    <3>2. ~Off'
      BY <1>0, <3>1, EnableIs
    <3>3. pc'["TPM"] # "preloop"
      BY <2>11, <1>0, GotoIs DEF CmdCommitNvmem, At
    <3> QED
      BY <3>2, <3>3 DEF TimerInv
  <2>12. CASE CmdRead
    <3>1. nv' = nvmem_read(nv, "TPM") /\ nv.task \in {"TPM", NoTask}
      BY <2>12 DEF CmdRead, CanLock
    <3>2. Off' => Off
      BY <1>0, <3>1, ReadIs
    <3>3. /\ pc'["TPM"] \notin {"preloop", "rst_start"}
          /\ evt' = evt /\ events' = events
      BY <2>12, <1>0, GotoIs DEF CmdRead
    <3> QED
      BY <1>a, <2>0, <3>2, <3>3
  <2>13. CASE CmdWrite
    <3>1. nv' = nvmem_write(nv, "TPM") /\ nv.task \in {"TPM", NoTask}
      BY <2>13 DEF CmdWrite, CanLock
    <3>2. Off' => Off
      BY <1>0, <3>1, WriteIs
    <3>3. /\ pc'["TPM"] \notin {"preloop", "rst_start"}
          /\ evt' = evt /\ events' = events
      BY <2>13, <1>0, GotoIs DEF CmdWrite
    <3> QED
      BY <1>a, <2>0, <3>2, <3>3
  <2>14. CASE CmdEnd
    <3>1. nv' = nvmem_commit(nv, "TPM")
      BY <2>14 DEF CmdEnd
    <3>2. Off' => Off
      BY <1>0, <3>1, CommitIs
    <3>3. /\ pc'["TPM"] \notin {"preloop", "rst_start"}
          /\ evt' = evt /\ events' = events
      BY <2>14, <1>0, GotoIs DEF CmdEnd
    <3> QED
      BY <1>a, <2>0, <3>2, <3>3
  <2>15. CASE CmdWipeLater
    <3>1. nv' = nvmem_read(nv, "TPM") /\ nv.task \in {"TPM", NoTask}
      BY <2>15 DEF CmdWipeLater, CanLock
    <3>2. Off' => Off
      BY <1>0, <3>1, ReadIs
    <3>3. /\ pc'["TPM"] \notin {"preloop", "rst_start"}
          /\ evt' = evt /\ events' = events
      BY <2>15, <1>0, GotoIs DEF CmdWipeLater
    <3> QED
      BY <1>a, <2>0, <3>2, <3>3
  <2>16. CASE CmdWipeNow
    <3>1. nv' = nvmem_read(nv, "TPM") /\ nv.task \in {"TPM", NoTask}
      BY <2>16 DEF CmdWipeNow, CanLock
    <3>2. Off' => Off
      BY <1>0, <3>1, ReadIs
    <3>3. /\ pc'["TPM"] \notin {"preloop", "rst_start"}
          /\ evt' = evt /\ events' = events
      BY <2>16, <1>0, GotoIs DEF CmdWipeNow
    <3> QED
      BY <1>a, <2>0, <3>2, <3>3
  <2> QED
    BY <1>b, <2>1, <2>2, <2>3, <2>4, <2>5, <2>6, <2>7, <2>8, <2>9,
       <2>10, <2>11, <2>12, <2>13, <2>14, <2>15, <2>16
    DEF TpmTask, TpmReset_
<1>c. CASE Booted
  BY <1>c, BootState DEF TimerInv, NoTask
\* The others take the timer only to raise the event.
<1>d. ASSUME ~TpmTask, ~Booted PROVE TimerInv'
  <2>1. nv'.task = "TPM" => nv.task = "TPM" /\ (Off' => Off)
    BY <1>d, OwnerStep
  <2>2. TpmStays
    BY <1>d, NotTpm
  <2>3. CASE reinstate_nvmem_commits
    <3>1. "commit" \in events'
      BY <2>3 DEF reinstate_nvmem_commits
    <3> QED
      BY <1>0, <2>1, <2>2, <3>1 DEF TpmStays, TimerInv
  <2>4. ASSUME "reinstate" \in deferred => "reinstate" \in deferred'
        PROVE  TimerInv'
    BY <1>0, <2>1, <2>2, <2>4 DEF TpmStays, TimerInv
  <2>5. CASE deferred_set_ap_off
    BY <2>5, <2>4 DEF deferred_set_ap_off
  <2>6. CASE deferred_tpm_rst_isr
    BY <2>6, <2>4 DEF deferred_tpm_rst_isr
  <2>7. CASE deferred_tpm_rst_isr_reboot
    BY <2>7, <2>4 DEF deferred_tpm_rst_isr_reboot
  <2>8. CASE board_wipe_tpm
    BY <2>8, <2>4 DEF board_wipe_tpm
  <2>9. CASE WipeDone
    BY <2>9, <2>4 DEF WipeDone
  <2>10. CASE board_fwmp_update_policies
    BY <2>10, <2>4 DEF board_fwmp_update_policies
  <2>11. CASE RebootWaitDone
    BY <2>11, <2>4 DEF RebootWaitDone
  <2>12. CASE UsbCommand
    BY <2>12, <2>4 DEF UsbCommand
  <2>13. CASE UsbFwmp
    BY <2>13, <2>4 DEF UsbFwmp
  <2>14. CASE RstStop("HOOKS")
    BY <2>14, <2>4 DEF RstStop
  <2>15. CASE RstCommit("HOOKS")
    BY <2>15, <2>4 DEF RstCommit
  <2>16. CASE RstDisable("HOOKS")
    BY <2>16, <2>4 DEF RstDisable, DisableAndInit
  <2>17. CASE RstStart("HOOKS")
    BY <2>17, <2>4 DEF RstStart
  <2>18. CASE DumpStart
    BY <2>18, <2>4 DEF DumpStart
  <2>19. CASE DumpEnd
    BY <2>19, <2>4 DEF DumpEnd
  <2>20. CASE EfsWrite
    BY <2>20, <2>4 DEF EfsWrite
  <2>21. CASE EfsUnlock
    BY <2>21, <2>4 DEF EfsUnlock
  <2>22. CASE AltPoll
    BY <2>22, <2>4 DEF AltPoll
  <2>23. CASE ConsoleInput
    BY <2>23, <2>4 DEF ConsoleInput
  <2>24. CASE tpm_alt_extension
    BY <2>24, <2>4 DEF tpm_alt_extension
  <2>25. CASE tpm_rst_asserted
    BY <2>25, <2>4 DEF tpm_rst_asserted
  <2>26. CASE tpm_rst_deasserted
    BY <2>26, <2>4 DEF tpm_rst_deasserted
  <2>27. CASE HostCommand
    BY <2>27, <2>4 DEF HostCommand
  <2>28. CASE UsbPacket
    BY <2>28, <2>4 DEF UsbPacket
  <2>29. CASE ResetTimeout
    BY <2>29, <2>4 DEF ResetTimeout
  <2>30. CASE UNCHANGED vars
    BY <2>30, <2>4 DEF vars
  <2> QED
    BY <1>d, <2>3, <2>5, <2>6, <2>7, <2>8, <2>9, <2>10, <2>11, <2>12,
       <2>13, <2>14, <2>15, <2>16, <2>17, <2>18, <2>19, <2>20, <2>21,
       <2>22, <2>23, <2>24, <2>25, <2>26, <2>27, <2>28, <2>29, <2>30
    DEF Next, HooksTask, ConsoleTask, Environment, TpmReset_, Booted
<1> QED
  BY <1>b, <1>c, <1>d


\* Every step keeps the invariant of the AP state machine.
LEMMA ApStep ==
    ASSUME TypeOK, ApInv, [Next]_vars
    PROVE  ApInv'
<1>0. /\ ApType(ap)
      /\ ap.deep_sleep => ap.state # "on"
      /\ "ap_off" \in deferred => ap.state # "on"
      /\ ap.rst /\ ap.state # "on" =>
           "tpm_rst" \in deferred \/ "reboot" \in deferred
  BY DEF TypeOK, ApInv
<1>a. ASSUME ap'.rst = ap.rst, ap'.state = ap.state,
             ap'.deep_sleep = ap.deep_sleep,
             \A d \in {"ap_off", "tpm_rst", "reboot"} :
                 d \in deferred' <=> d \in deferred
      PROVE  ApInv'
  BY <1>0, <1>a DEF ApInv
<1>1. CASE TpmTask
  <2>1. /\ ap'.rst = ap.rst /\ ap'.state = ap.state
        /\ ap'.deep_sleep = ap.deep_sleep
    BY <1>1, <1>0, TpmOnly DEF ApType
  <2>2. /\ deferred \subseteq deferred'
        /\ deferred' \subseteq deferred \cup {"reinstate", "wipe"}
    BY <1>1, TpmOnly
  <2> QED
    BY <1>a, <2>1, <2>2
<1>2. CASE Booted
  BY <1>2, BootState DEF ApInv
<1>3. CASE deferred_set_ap_off
  <2>1. CASE ap.rst
    BY <1>3, <1>0, <2>1 DEF deferred_set_ap_off, ApInv
  <2>2. CASE ~ap.rst
    <3>1. ap'.state = "off" /\ ~ap'.rst
      BY <1>3, <1>0, <2>2 DEF deferred_set_ap_off, ApType
    <3> QED
      BY <3>1 DEF ApInv
  <2> QED
    BY <2>1, <2>2
<1>4. CASE deferred_tpm_rst_isr
  <2>1. ap'.state = "on" /\ ~ap'.deep_sleep
    BY <1>4, <1>0 DEF deferred_tpm_rst_isr, ApType
  <2>2. "ap_off" \notin deferred'
    BY <1>4 DEF deferred_tpm_rst_isr
  <2> QED
    BY <2>1, <2>2 DEF ApInv
<1>5. CASE deferred_tpm_rst_isr_reboot
  <2>1. ap'.state = "on" /\ ~ap'.deep_sleep
    BY <1>5, <1>0 DEF deferred_tpm_rst_isr_reboot, ApType
  <2>2. "ap_off" \notin deferred'
    BY <1>5 DEF deferred_tpm_rst_isr_reboot
  <2> QED
    BY <2>1, <2>2 DEF ApInv
<1>6. CASE tpm_rst_asserted
  <2>1. ap'.state = "debouncing" /\ ~ap'.rst
    BY <1>6, <1>0 DEF tpm_rst_asserted, ApType
  <2> QED
    BY <2>1 DEF ApInv
<1>7. CASE tpm_rst_deasserted
  <2>1. ap'.state = ap.state /\ ap'.deep_sleep = ap.deep_sleep
    BY <1>7, <1>0 DEF tpm_rst_deasserted, ApType
  <2>2. PICK d \in {"tpm_rst", "reboot"} : deferred' = deferred \cup {d}
    BY <1>7 DEF tpm_rst_deasserted
  <2> QED
    BY <1>0, <2>1, <2>2 DEF ApInv
<1>8. CASE ConsoleInput
  <2>1. /\ ap'.rst = ap.rst /\ ap'.state = ap.state
        /\ ap'.deep_sleep = ap.deep_sleep
    BY <1>8, <1>0 DEF ConsoleInput, ConsoleInUse, ApType
  <2> QED
    BY <1>8, <1>a, <2>1 DEF ConsoleInput
<1>9. CASE tpm_alt_extension
  <2>1. /\ ap'.rst = ap.rst /\ ap'.state = ap.state
        /\ ap'.deep_sleep = ap.deep_sleep
    BY <1>9, <1>0 DEF tpm_alt_extension, ConsoleInUse, ApType
  <2> QED
    BY <1>9, <1>a, <2>1 DEF tpm_alt_extension
<1>10. CASE RstStop("HOOKS")
  BY <1>10, <1>a DEF RstStop
<1>11. CASE RstCommit("HOOKS")
  BY <1>11, <1>a DEF RstCommit
<1>12. CASE RstStart("HOOKS")
  BY <1>12, <1>a DEF RstStart
<1>13. CASE reinstate_nvmem_commits
  BY <1>13, <1>a DEF reinstate_nvmem_commits
<1>14. CASE board_wipe_tpm
  BY <1>14, <1>a DEF board_wipe_tpm
<1>15. CASE WipeDone
  BY <1>15, <1>a DEF WipeDone
<1>16. CASE board_fwmp_update_policies
  BY <1>16, <1>a DEF board_fwmp_update_policies
<1>17. CASE RebootWaitDone
  BY <1>17, <1>a DEF RebootWaitDone
<1>18. CASE UsbCommand
  BY <1>18, <1>a DEF UsbCommand
<1>19. CASE UsbFwmp
  BY <1>19, <1>a DEF UsbFwmp
<1>20. CASE DumpStart
  BY <1>20, <1>a DEF DumpStart
<1>21. CASE DumpEnd
  BY <1>21, <1>a DEF DumpEnd
<1>22. CASE EfsWrite
  BY <1>22, <1>a DEF EfsWrite
<1>23. CASE EfsUnlock
  BY <1>23, <1>a DEF EfsUnlock
<1>24. CASE AltPoll
  BY <1>24, <1>a DEF AltPoll
<1>25. CASE HostCommand
  BY <1>25, <1>a DEF HostCommand
<1>26. CASE UsbPacket
  BY <1>26, <1>a DEF UsbPacket
<1>27. CASE ResetTimeout
  BY <1>27, <1>a DEF ResetTimeout
<1>28. CASE RstDisable("HOOKS")
  <2>1. /\ ap'.rst = ap.rst /\ ap'.state = ap.state
        /\ ap'.deep_sleep = ap.deep_sleep
    BY <1>28, <1>0 DEF RstDisable, DisableAndInit, ApType
  <2> QED
    BY <1>28, <1>a, <2>1 DEF RstDisable, DisableAndInit
<1>29. CASE UNCHANGED vars
  BY <1>29, <1>a DEF vars
<1> QED
  BY <1>1, <1>2, <1>3, <1>4, <1>5, <1>6, <1>7, <1>8, <1>9, <1>10, <1>11,
     <1>12, <1>13, <1>14, <1>15, <1>16, <1>17, <1>18, <1>19, <1>20,
     <1>21, <1>22, <1>23, <1>24, <1>25, <1>26, <1>27, <1>28, <1>29
  DEF Next, HooksTask, ConsoleTask, Environment, TpmReset_, Booted

\* Every step keeps the invariant of the first reset.
LEMMA FirstStep ==
    ASSUME TypeOK, FirstInv, [Next]_vars
    PROVE  FirstInv'
<1> USE DEF Tasks
<1>0. PcType(pc) /\ ReqType(req) /\ ApType(ap)
  BY DEF TypeOK
<1>a. ASSUME TpmTask PROVE FirstInv'
  <2>1. CASE TpmPreloop
    <3>1. CASE pc' = pc
      <4>1. pc["TPM"] = "preloop" /\ "reset" \notin events
        BY <2>1, <1>0, <3>1, GotoIs DEF TpmPreloop, At
      <4>2. evt' = evt /\ ap' = ap /\ req' = req
        BY <2>1, <1>0, <3>1, <4>1, GotoIs DEF TpmPreloop
      <4> QED
        BY <4>1, <4>2 DEF FirstInv
    <3>2. CASE Goto("TPM", "rst_stop")
      BY <1>0, <3>2, GotoIs DEF FirstInv
    <3> QED
      BY <2>1, <3>1, <3>2 DEF TpmPreloop
  <2>2. CASE TpmReset_("TPM")
    <3>1. pc'["TPM"] # "preloop"
      BY <2>2, <1>0, GotoIs
      DEF TpmReset_, RstStop, RstCommit, RstDisable, DisableAndInit, RstStart
    <3> QED
      BY <3>1 DEF FirstInv
  <2>3. CASE TpmTakeEvents
    <3>1. pc'["TPM"] # "preloop"
      BY <2>3, <1>0, GotoIs DEF TpmTakeEvents, At
    <3> QED
      BY <3>1 DEF FirstInv
  <2>4. CASE TpmReset
    <3>1. pc'["TPM"] # "preloop"
      BY <2>4, <1>0, GotoIs DEF TpmReset, At
    <3> QED
      BY <3>1 DEF FirstInv
  <2>5. CASE TpmCommit
    <3>1. pc'["TPM"] # "preloop"
      BY <2>5, <1>0, GotoIs DEF TpmCommit, At
    <3> QED
      BY <3>1 DEF FirstInv
  <2>6. CASE TpmCommand
    <3>1. pc'["TPM"] # "preloop"
      BY <2>6, <1>0, GotoIs DEF TpmCommand, At
    <3> QED
      BY <3>1 DEF FirstInv
  <2>7. CASE CmdKind
    <3>1. pc'["TPM"] # "preloop"
      BY <2>7, <1>0, GotoIs DEF CmdKind, At
    <3> QED
      BY <3>1 DEF FirstInv
  <2>8. CASE CmdCommitNvmem
    <3>1. pc'["TPM"] # "preloop"
      BY <2>8, <1>0, GotoIs DEF CmdCommitNvmem, At
    <3> QED
      BY <3>1 DEF FirstInv
  <2>9. CASE CmdRead
    <3>1. pc'["TPM"] # "preloop"
      BY <2>9, <1>0, GotoIs DEF CmdRead, At
    <3> QED
      BY <3>1 DEF FirstInv
  <2>10. CASE CmdWrite
    <3>1. pc'["TPM"] # "preloop"
      BY <2>10, <1>0, GotoIs DEF CmdWrite, At
    <3> QED
      BY <3>1 DEF FirstInv
  <2>11. CASE CmdEnd
    <3>1. pc'["TPM"] # "preloop"
      BY <2>11, <1>0, GotoIs DEF CmdEnd, At
    <3> QED
      BY <3>1 DEF FirstInv
  <2>12. CASE CmdWipeLater
    <3>1. pc'["TPM"] # "preloop"
      BY <2>12, <1>0, GotoIs DEF CmdWipeLater, At
    <3> QED
      BY <3>1 DEF FirstInv
  <2>13. CASE CmdWipeNow
    <3>1. pc'["TPM"] # "preloop"
      BY <2>13, <1>0, GotoIs DEF CmdWipeNow, At
    <3> QED
      BY <3>1 DEF FirstInv
  <2> QED
    BY <1>a, <2>1, <2>2, <2>3, <2>4, <2>5, <2>6, <2>7, <2>8, <2>9, <2>10,
       <2>11, <2>12, <2>13
    DEF TpmTask
<1>b. CASE Booted
  BY <1>b, BootState DEF FirstInv
<1>c. ASSUME ~TpmTask, ~Booted PROVE FirstInv'
  <2>0. TpmStays
    BY <1>c, NotTpm
  <2>a. ASSUME \/ "reset" \in events'
               \/ /\ ap'.state = "on" => ap.state = "on"
                  /\ req'.in_progress => req.in_progress
        PROVE  FirstInv'
    BY <2>0, <2>a DEF FirstInv, TpmStays
  <2>1. CASE RstStop("HOOKS")
    BY <2>1, <1>0, <2>a DEF RstStop, ReqType
  <2>2. CASE RstCommit("HOOKS")
    BY <2>2, <1>0, <2>a DEF RstCommit, ReqType
  <2>3. CASE RstDisable("HOOKS")
    BY <2>3, <1>0, <2>a DEF RstDisable, DisableAndInit, ReqType, ApType
  <2>4. CASE RstStart("HOOKS")
    BY <2>4, <1>0, <2>a DEF RstStart, ReqType
  <2>5. CASE reinstate_nvmem_commits
    BY <2>5, <1>0, <2>a DEF reinstate_nvmem_commits
  <2>6. CASE deferred_set_ap_off
    BY <2>6, <1>0, <2>a DEF deferred_set_ap_off, ApType
  <2>7. CASE deferred_tpm_rst_isr
    <3>1. CASE tpm_reset_request(FALSE, FALSE) \/ tpm_reset_request(TRUE, FALSE)
      BY <2>a, <3>1 DEF tpm_reset_request
    <3>2. CASE req.in_progress /\ events' = events
      BY <2>0, <3>2 DEF FirstInv, TpmStays
    <3> QED
      BY <2>7, <3>1, <3>2 DEF deferred_tpm_rst_isr
  <2>8. CASE deferred_tpm_rst_isr_reboot
    <3>1. CASE tpm_reset_request(FALSE, FALSE) \/ tpm_reset_request(TRUE, FALSE)
      BY <2>a, <3>1 DEF tpm_reset_request
    <3>2. CASE req.in_progress /\ events' = events
      BY <2>0, <3>2 DEF FirstInv, TpmStays
    <3> QED
      BY <2>8, <3>1, <3>2 DEF deferred_tpm_rst_isr_reboot
  <2>9. CASE board_wipe_tpm
    BY <2>9, <1>0, <2>a DEF board_wipe_tpm, tpm_reset_request, ReqType, ApType
  <2>10. CASE WipeDone
    BY <2>10, <1>0, <2>a DEF WipeDone, ReqType
  <2>11. CASE board_fwmp_update_policies
    BY <2>11, <1>0, <2>a DEF board_fwmp_update_policies
  <2>12. CASE RebootWaitDone
    BY <2>12, <1>0, <2>a DEF RebootWaitDone
  <2>13. CASE UsbCommand
    BY <2>13, <1>0, <2>a DEF UsbCommand
  <2>14. CASE UsbFwmp
    BY <2>14, <1>0, <2>a DEF UsbFwmp
  <2>15. CASE DumpStart
    BY <2>15, <1>0, <2>a DEF DumpStart
  <2>16. CASE DumpEnd
    BY <2>16, <1>0, <2>a DEF DumpEnd
  <2>17. CASE EfsWrite
    BY <2>17, <1>0, <2>a DEF EfsWrite
  <2>18. CASE EfsUnlock
    BY <2>18, <1>0, <2>a DEF EfsUnlock
  <2>19. CASE AltPoll
    BY <2>19, <1>0, <2>a DEF AltPoll
  <2>20. CASE ConsoleInput
    BY <2>20, <1>0, <2>a DEF ConsoleInput, ConsoleInUse, ApType
  <2>21. CASE tpm_alt_extension
    BY <2>21, <1>0, <2>a DEF tpm_alt_extension, ConsoleInUse, ApType
  <2>22. CASE tpm_rst_asserted
    BY <2>22, <1>0, <2>a DEF tpm_rst_asserted, ApType
  <2>23. CASE tpm_rst_deasserted
    BY <2>23, <1>0, <2>a DEF tpm_rst_deasserted, ApType
  <2>24. CASE HostCommand
    BY <2>24, <1>0, <2>a DEF HostCommand, ReqType
  <2>25. CASE UsbPacket
    BY <2>25, <1>0, <2>a DEF UsbPacket
  <2>26. CASE ResetTimeout
    BY <2>26, <1>0, <2>a DEF ResetTimeout
  <2>27. CASE UNCHANGED vars
    BY <2>27, <2>a DEF vars
  <2> QED
    BY <1>c, <2>1, <2>2, <2>3, <2>4, <2>5, <2>6, <2>7, <2>8, <2>9, <2>10,
       <2>11, <2>12, <2>13, <2>14, <2>15, <2>16, <2>17, <2>18, <2>19, <2>20,
       <2>21, <2>22, <2>23, <2>24, <2>25, <2>26, <2>27
    DEF Next, HooksTask, ConsoleTask, Environment, TpmReset_, Booted
<1> QED
  BY <1>a, <1>b, <1>c

\* The other tasks neither give the lock to the HOOKS task nor take it from
\* it, and leave the flags alone while it has the lock.
LEMMA HooksOwnerStep ==
    ASSUME TypeOK, LockInv, [Next]_vars, ~HooksTask, ~Booted
    PROVE  /\ nv'.task = "HOOKS" <=> nv.task = "HOOKS"
           /\ nv.task = "HOOKS" =>
                /\ nv'.commits_enabled = nv.commits_enabled
                /\ nv'.write_in_progress = nv.write_in_progress
                /\ nv'.nvmem_updated = nv.nvmem_updated
<1> USE DEF Tasks
<1>0. /\ NvType(nv) /\ PcType(pc)
      /\ nv.write_in_progress \/ ~nv.commits_enabled => nv.task # NoTask
      /\ pc["CONSOLE"] = "efs_unlock" => nv.task = "CONSOLE"
  BY DEF TypeOK, LockInv, NvInv, NvCore, ConsoleHolds
<1> DEFINE Goal == /\ nv'.task = "HOOKS" <=> nv.task = "HOOKS"
                   /\ nv.task = "HOOKS" =>
                        /\ nv'.commits_enabled = nv.commits_enabled
                        /\ nv'.write_in_progress = nv.write_in_progress
                        /\ nv'.nvmem_updated = nv.nvmem_updated
<1>a. ASSUME nv' = nv PROVE Goal
  BY <1>a
<1>b. ASSUME NEW t \in {"TPM", "CONSOLE"},
             nv' = nvmem_enable_commits(nv, t) \/ nv' = nvmem_commit(nv, t)
      PROVE  Goal
  <2>1. nv.task # t => nv' = nv
    BY <1>0, <1>b, EnableIs, CommitIs
  <2>2. nv.task = t => nv'.task # "HOOKS"
    BY <1>0, <1>b DEF nvmem_enable_commits, nvmem_commit, nvmem_save,
                      nvmem_unlock_cache, nvmem_release_cache, NvType, NoTask
  <2> QED
    BY <2>1, <2>2
<1>c. ASSUME NEW t \in {"TPM", "CONSOLE"}, nv.task \in {t, NoTask},
             nv'.task \in {t, NoTask}
      PROVE  Goal
  BY <1>c DEF NoTask
<1>1. CASE RstStop("TPM")
  BY <1>1, <1>0, <1>a, EraseIs DEF RstStop
<1>2. CASE RstCommit("TPM")
  BY <1>2, <1>b DEF RstCommit
<1>3. CASE RstDisable("TPM")
  BY <1>3, <1>0, <1>c, DisableIs DEF RstDisable, DisableAndInit, CanLock
<1>4. CASE RstStart("TPM")
  BY <1>4, <1>a DEF RstStart
<1>5. CASE TpmPreloop
  BY <1>5, <1>a DEF TpmPreloop
<1>6. CASE TpmTakeEvents
  BY <1>6, <1>a DEF TpmTakeEvents
<1>7. CASE TpmReset
  BY <1>7, <1>a DEF TpmReset
<1>8. CASE TpmCommit
  BY <1>8, <1>b DEF TpmCommit
<1>9. CASE TpmCommand
  BY <1>9, <1>a DEF TpmCommand
<1>10. CASE CmdKind
  BY <1>10, <1>a DEF CmdKind
<1>11. CASE CmdCommitNvmem
  BY <1>11, <1>b DEF CmdCommitNvmem
<1>12. CASE CmdRead
  BY <1>12, <1>0, <1>c, ReadIs DEF CmdRead, CanLock
<1>13. CASE CmdWrite
  BY <1>13, <1>0, <1>c, WriteIs DEF CmdWrite, CanLock
<1>14. CASE CmdEnd
  BY <1>14, <1>b DEF CmdEnd
<1>15. CASE CmdWipeLater
  BY <1>15, <1>0, <1>c, ReadIs DEF CmdWipeLater, CanLock
<1>16. CASE CmdWipeNow
  BY <1>16, <1>0, <1>c, ReadIs DEF CmdWipeNow, CanLock
<1>17. CASE DumpStart
  BY <1>17, <1>0, <1>c
  DEF DumpStart, CanLock, nvmem_disable_commits, nvmem_lock_cache, NvType
<1>18. CASE DumpEnd
  BY <1>18, <1>b DEF DumpEnd
<1>19. CASE EfsWrite
  <2> DEFINE r == nvmem_read(nv, "CONSOLE")
  <2>1. nv' = nv \/ (nv' = nvmem_write(r, "CONSOLE") /\ nv.task \in {"CONSOLE", NoTask})
    BY <1>19 DEF EfsWrite, CanLock
  <2>2. NvType(r)
    BY <1>0, OpsType
  <2> HIDE DEF r
  <2> QED
    BY <1>a, <1>c, <2>1, <2>2, WriteIs
<1>20. CASE EfsUnlock
  BY <1>20, <1>0, <1>c
  DEF EfsUnlock, At, nvmem_unlock_cache, nvmem_release_cache, NvType, NoTask
<1>21. CASE AltPoll
  BY <1>21, <1>a DEF AltPoll
<1>22. CASE ConsoleInput
  BY <1>22, <1>a DEF ConsoleInput
<1>23. CASE tpm_alt_extension
  BY <1>23, <1>a DEF tpm_alt_extension
<1>24. CASE tpm_rst_asserted
  BY <1>24, <1>a DEF tpm_rst_asserted
<1>25. CASE tpm_rst_deasserted
  BY <1>25, <1>a DEF tpm_rst_deasserted
<1>26. CASE HostCommand
  BY <1>26, <1>a DEF HostCommand
<1>27. CASE UsbPacket
  BY <1>27, <1>a DEF UsbPacket
<1>28. CASE ResetTimeout
  BY <1>28, <1>a DEF ResetTimeout
<1>29. CASE UNCHANGED vars
  BY <1>29, <1>a DEF vars
<1> QED
  BY <1>1, <1>2, <1>3, <1>4, <1>5, <1>6, <1>7, <1>8, <1>9, <1>10, <1>11,
     <1>12, <1>13, <1>14, <1>15, <1>16, <1>17, <1>18, <1>19, <1>20, <1>21,
     <1>22, <1>23, <1>24, <1>25, <1>26, <1>27, <1>28, <1>29
  DEF Next, TpmTask, ConsoleTask, Environment, TpmReset_, Booted

\* Every step keeps the invariant of the lock of the HOOKS task.
LEMMA HooksLockStep ==
    ASSUME TypeOK, LockInv, HooksLockInv, [Next]_vars
    PROVE  HooksLockInv'
<1> USE DEF Tasks
<1>0. /\ NvType(nv) /\ PcType(pc) /\ wipeFirst \in [Tasks -> BOOLEAN]
      /\ nv.write_in_progress \/ ~nv.commits_enabled => nv.task # NoTask
  BY DEF TypeOK, LockInv, NvInv, NvCore
<1>a. CASE Booted
  BY <1>a, BootState DEF HooksLockInv, RstSteps, NoTask
<1>b. ASSUME ~HooksTask, ~Booted PROVE HooksLockInv'
  <2>1. pc'["HOOKS"] = pc["HOOKS"] \/ pc'["HOOKS"] = "system_reset"
    BY <1>b, <1>0, NotHooks, TpmOnly, GotoIs DEF HooksStays, ResetTimeout
  <2>2. wipeFirst'["HOOKS"] = wipeFirst["HOOKS"]
    BY <1>b, NotHooks, TpmOnly DEF HooksStays, ResetTimeout
  <2> QED
    BY <1>b, <2>1, <2>2, HooksOwnerStep DEF HooksLockInv, RstSteps
<1>c. ASSUME HooksTask, ~Booted PROVE HooksLockInv'
  <2>a. ASSUME pc'["HOOKS"] \notin RstSteps, nv' = nv PROVE HooksLockInv'
    BY <2>a DEF HooksLockInv, RstSteps
  <2>b. ASSUME nv' = nvmem_read(nv, "HOOKS"), nv.task \in {"HOOKS", NoTask}
        PROVE  nv'.task = "HOOKS" =>
                 /\ ~nv'.commits_enabled
                 /\ nv'.write_in_progress => nv'.nvmem_updated
    BY <2>b, <1>0, ReadIs DEF HooksLockInv, NoTask
  <2>c. ASSUME nv' = nvmem_enable_commits(nv, "HOOKS") PROVE nv'.task # "HOOKS"
    BY <2>c, <1>0, EnableIs DEF HooksLockInv, NoTask
  <2>1. CASE RstStop("HOOKS")
    <3>1. pc["HOOKS"] = "rst_stop" /\ pc'["HOOKS"] = "rst_commit"
      BY <2>1, <1>0, GotoIs DEF RstStop, At
    <3>2. nv' = nv \/ nv' = nvmem_erase_tpm_data(nv)
      BY <2>1 DEF RstStop
    <3>3. wipeFirst' = wipeFirst
      BY <2>1 DEF RstStop
    <3> QED
      BY <1>0, <3>1, <3>2, <3>3, EraseIs DEF HooksLockInv, RstSteps
  <2>2. CASE RstCommit("HOOKS")
    <3>1. pc["HOOKS"] = "rst_commit" /\ pc'["HOOKS"] = "rst_disable"
      BY <2>2, <1>0, GotoIs DEF RstCommit, At
    <3>2. nv'.task # "HOOKS" /\ wipeFirst' = wipeFirst
      BY <2>2, <2>c DEF RstCommit
    <3> QED
      BY <3>1, <3>2 DEF HooksLockInv, RstSteps
  <2>3. CASE RstDisable("HOOKS")
    <3>1. pc["HOOKS"] = "rst_disable" /\ pc'["HOOKS"] = "rst_start"
      BY <2>3, <1>0, GotoIs DEF RstDisable, DisableAndInit, At
    <3>2. nv.task = NoTask /\ wipeFirst' = wipeFirst
      BY <2>3, <3>1 DEF RstDisable, DisableAndInit, CanLock, HooksLockInv
    <3>3. /\ nv'.task = "HOOKS" /\ ~nv'.commits_enabled
          /\ nv'.write_in_progress => nv'.nvmem_updated
      BY <2>3, <1>0, <3>2, DisableIs DEF RstDisable, DisableAndInit
    <3> QED
      BY <3>1, <3>2, <3>3 DEF HooksLockInv, RstSteps
  <2>4. CASE RstStart("HOOKS")
    BY <2>4, <1>0, <2>a, GotoIs DEF RstStart, RstSteps
  <2>5. CASE deferred_set_ap_off
    <3>1. pc'["HOOKS"] = "loop"
      BY <2>5 DEF deferred_set_ap_off, Runs, At
    <3> QED
      BY <2>5, <2>a, <2>c, <3>1 DEF deferred_set_ap_off, HooksLockInv, RstSteps
  <2>6. CASE board_fwmp_update_policies
    <3>1. pc'["HOOKS"] = "loop"
      BY <2>6, <1>0, GotoIs DEF board_fwmp_update_policies
    <3> QED
      BY <2>6, <2>b, <3>1
      DEF board_fwmp_update_policies, CanLock, HooksLockInv, RstSteps
  <2>7. CASE UsbFwmp
    <3>1. /\ pc'["HOOKS"] \in {"loop", "rst_stop"}
          /\ pc'["HOOKS"] = "rst_stop" => wipeFirst'["HOOKS"]
      BY <2>7, <1>0, GotoIs DEF UsbFwmp
    <3> QED
      BY <2>7, <2>b, <3>1 DEF UsbFwmp, CanLock, HooksLockInv, RstSteps
  <2>8. CASE reinstate_nvmem_commits
    BY <2>8, <1>0, <2>a, GotoIs DEF reinstate_nvmem_commits, Runs, At, RstSteps
  <2>9. CASE deferred_tpm_rst_isr
    BY <2>9, <1>0, <2>a, GotoIs DEF deferred_tpm_rst_isr, Runs, At, RstSteps
  <2>10. CASE deferred_tpm_rst_isr_reboot
    BY <2>10, <1>0, <2>a, GotoIs DEF deferred_tpm_rst_isr_reboot, tpm_reset_request, Runs, At, RstSteps
  <2>11. CASE board_wipe_tpm
    BY <2>11, <1>0, <2>a, GotoIs DEF board_wipe_tpm, tpm_reset_request, Runs, At, RstSteps
  <2>12. CASE WipeDone
    BY <2>12, <1>0, <2>a, GotoIs DEF WipeDone, Runs, At, RstSteps
  <2>13. CASE RebootWaitDone
    BY <2>13, <1>0, <2>a, GotoIs DEF RebootWaitDone, Runs, At, RstSteps
  <2>14. CASE UsbCommand
    BY <2>14, <1>0, <2>a, GotoIs DEF UsbCommand, Runs, At, RstSteps
  <2> QED
    BY <1>c, <2>1, <2>2, <2>3, <2>4, <2>5, <2>6, <2>7, <2>8, <2>9, <2>10,
       <2>11, <2>12, <2>13, <2>14
    DEF HooksTask, TpmReset_, Booted
<1> QED
  BY <1>a, <1>b, <1>c

\* Every step keeps the invariant of the reset on the HOOKS task.
LEMMA QuietStep ==
    ASSUME TypeOK, HooksLockInv, AltInv, FirstInv, QuietInv, [Next]_vars
    PROVE  QuietInv'
<1> USE DEF Tasks
<1>0. PcType(pc)
  BY DEF TypeOK
<1>a. CASE Booted
  BY <1>a, BootState DEF QuietInv
<1>b. ASSUME TpmTask, pc'["HOOKS"] = "rst_start" PROVE QuietInv'
  <2>0. pc["HOOKS"] = "rst_start" /\ ~CanLock("TPM")
    BY <1>b, TpmOnly DEF HooksStays, CanLock, HooksLockInv, NoTask
  <2>1. "reset" \notin events /\ "reset" \notin evt /\ (pc["TPM"] \in RstSteps => Calls)
    BY <2>0 DEF QuietInv
  <2>a. ASSUME events' \subseteq events \cup evt, evt' \subseteq events \cup evt,
               pc'["TPM"] \in RstSteps => Calls'
        PROVE  QuietInv'
    BY <2>1, <2>a DEF QuietInv
  <2>2. CASE RstStop("TPM")
    BY <2>2, <2>1, <2>a DEF RstStop, At, RstSteps, Calls
  <2>3. CASE RstCommit("TPM")
    BY <2>3, <2>1, <2>a DEF RstCommit, At, RstSteps, Calls
  <2>4. CASE RstDisable("TPM")
    BY <2>4, <2>0 DEF RstDisable, DisableAndInit
  <2>5. CASE RstStart("TPM")
    <3>1. pc'["TPM"] = "idle"
      BY <2>5, <1>0, GotoIs DEF RstStart
    <3> QED
      BY <2>5, <2>a, <3>1 DEF RstStart, RstSteps
  <2>6. CASE TpmPreloop
    <3>1. pc["TPM"] = "preloop" /\ ap.state # "on"
      BY <2>6, <2>1 DEF TpmPreloop, At, FirstInv
    <3>2. CASE "alt" \in events
      <4>1. Calls'
        BY <2>6, <3>2 DEF TpmPreloop, AltInv, Calls
      <4> QED
        BY <2>6, <2>a, <4>1 DEF TpmPreloop
    <3>3. CASE "alt" \notin events
      <4>1. pc' = pc
        BY <2>6, <2>1, <3>1, <3>3 DEF TpmPreloop
      <4> QED
        BY <2>6, <2>a, <3>1, <3>3, <4>1, <2>1 DEF TpmPreloop, RstSteps
    <3> QED
      BY <3>2, <3>3
  <2>7. CASE TpmReset
    BY <2>7, <2>1 DEF TpmReset
  <2>8. CASE CmdWipeNow
    BY <2>8, <2>0 DEF CmdWipeNow
  <2>9. CASE TpmTakeEvents
    <3>1. pc'["TPM"] \notin RstSteps
      BY <2>9, <1>0, GotoIs DEF TpmTakeEvents, At, RstSteps
    <3> QED
      BY <2>9, <2>a, <3>1 DEF TpmTakeEvents
  <2>10. CASE TpmCommit
    <3>1. pc'["TPM"] \notin RstSteps
      BY <2>10, <1>0, GotoIs DEF TpmCommit, At, RstSteps
    <3> QED
      BY <2>10, <2>a, <3>1 DEF TpmCommit
  <2>11. CASE TpmCommand
    <3>1. pc'["TPM"] \notin RstSteps
      BY <2>11, <1>0, GotoIs DEF TpmCommand, At, RstSteps
    <3> QED
      BY <2>11, <2>a, <3>1 DEF TpmCommand
  <2>12. CASE CmdKind
    <3>1. pc'["TPM"] \notin RstSteps
      BY <2>12, <1>0, GotoIs DEF CmdKind, At, RstSteps
    <3> QED
      BY <2>12, <2>a, <3>1 DEF CmdKind
  <2>13. CASE CmdCommitNvmem
    <3>1. pc'["TPM"] \notin RstSteps
      BY <2>13, <1>0, GotoIs DEF CmdCommitNvmem, At, RstSteps
    <3> QED
      BY <2>13, <2>a, <3>1 DEF CmdCommitNvmem
  <2>14. CASE CmdRead
    <3>1. pc'["TPM"] \notin RstSteps
      BY <2>14, <1>0, GotoIs DEF CmdRead, At, RstSteps
    <3> QED
      BY <2>14, <2>a, <3>1 DEF CmdRead
  <2>15. CASE CmdWrite
    <3>1. pc'["TPM"] \notin RstSteps
      BY <2>15, <1>0, GotoIs DEF CmdWrite, At, RstSteps
    <3> QED
      BY <2>15, <2>a, <3>1 DEF CmdWrite
  <2>16. CASE CmdEnd
    <3>1. pc'["TPM"] \notin RstSteps
      BY <2>16, <1>0, GotoIs DEF CmdEnd, At, RstSteps
    <3> QED
      BY <2>16, <2>a, <3>1 DEF CmdEnd
  <2>17. CASE CmdWipeLater
    <3>1. pc'["TPM"] \notin RstSteps
      BY <2>17, <1>0, GotoIs DEF CmdWipeLater, At, RstSteps
    <3> QED
      BY <2>17, <2>a, <3>1 DEF CmdWipeLater
  <2> QED
    BY <1>b, <2>2, <2>3, <2>4, <2>5, <2>6, <2>7, <2>8, <2>9, <2>10, <2>11,
       <2>12, <2>13, <2>14, <2>15, <2>16, <2>17
    DEF TpmTask, TpmReset_
<1>c. ASSUME HooksTask, ~Booted, pc'["HOOKS"] = "rst_start" PROVE QuietInv'
  <2>1. RstDisable("HOOKS")
    <3>0. CASE RstStop("HOOKS") \/ RstCommit("HOOKS") \/ RstStart("HOOKS")
      BY <3>0, <1>0, <1>c, GotoIs DEF RstStop, RstCommit, RstStart
    <3>1. CASE reinstate_nvmem_commits
      BY <3>1, <1>0, <1>c, GotoIs DEF reinstate_nvmem_commits, Runs, At
    <3>2. CASE deferred_set_ap_off
      BY <3>2, <1>0, <1>c, GotoIs DEF deferred_set_ap_off, Runs, At
    <3>3. CASE deferred_tpm_rst_isr
      BY <3>3, <1>0, <1>c, GotoIs DEF deferred_tpm_rst_isr, Runs, At
    <3>4. CASE deferred_tpm_rst_isr_reboot
      BY <3>4, <1>0, <1>c, GotoIs DEF deferred_tpm_rst_isr_reboot, tpm_reset_request, Runs, At
    <3>5. CASE board_wipe_tpm
      BY <3>5, <1>0, <1>c, GotoIs DEF board_wipe_tpm, tpm_reset_request, Runs, At
    <3>6. CASE WipeDone
      BY <3>6, <1>0, <1>c, GotoIs DEF WipeDone, Runs, At
    <3>7. CASE board_fwmp_update_policies
      BY <3>7, <1>0, <1>c, GotoIs DEF board_fwmp_update_policies, Runs, At
    <3>8. CASE RebootWaitDone
      BY <3>8, <1>0, <1>c, GotoIs DEF RebootWaitDone, Runs, At
    <3>9. CASE UsbCommand
      BY <3>9, <1>0, <1>c, GotoIs DEF UsbCommand, Runs, At
    <3>10. CASE UsbFwmp
      BY <3>10, <1>0, <1>c, GotoIs DEF UsbFwmp, Runs, At
    <3> QED
      BY <1>c, <3>0, <3>1, <3>2, <3>3, <3>4, <3>5, <3>6, <3>7, <3>8, <3>9,
         <3>10
      DEF HooksTask, TpmReset_, Booted
  <2>2. MayRun("HOOKS") /\ nv.task = NoTask /\ events' = events
    BY <2>1 DEF RstDisable, DisableAndInit, At, CanLock, HooksLockInv
  <2>3. events = {} /\ pc["TPM"] \in {"preloop", "idle"} /\ evt = {}
    BY <1>0, <2>2, HooksRuns DEF FirstInv
  <2>4. TpmStays
    BY <2>1, <1>0, GotoIs DEF TypeOK, RstDisable, DisableAndInit, TpmStays
  <2> QED
    BY <2>2, <2>3, <2>4 DEF QuietInv, TpmStays, RstSteps
<1>d. ASSUME ~TpmTask, ~HooksTask, ~Booted, pc'["HOOKS"] = "rst_start"
      PROVE  QuietInv'
  <2>0. TpmStays
    BY <1>d, NotTpm
  <2>1. CASE ResetTimeout
    BY <1>d, <1>0, <2>1, GotoIs DEF ResetTimeout
  <2>a. ASSUME ~ResetTimeout, events' \subseteq events \cup {"alt", "wake"},
               Calls => Calls'
        PROVE  QuietInv'
    <3>1. pc["HOOKS"] = "rst_start"
      BY <1>d, <2>a, NotHooks DEF HooksStays
    <3> QED
      BY <2>0, <2>a, <3>1 DEF QuietInv, TpmStays
  <2>2. CASE DumpStart
    BY <2>2, <2>1, <2>a DEF DumpStart, Calls
  <2>3. CASE DumpEnd
    BY <2>3, <2>1, <2>a DEF DumpEnd, Calls
  <2>4. CASE EfsWrite
    BY <2>4, <2>1, <2>a DEF EfsWrite, Calls
  <2>5. CASE EfsUnlock
    BY <2>5, <2>1, <2>a DEF EfsUnlock, Calls
  <2>6. CASE AltPoll
    BY <2>6, <2>1, <2>a DEF AltPoll, Calls
  <2>7. CASE ConsoleInput
    BY <2>7, <2>1, <2>a DEF ConsoleInput, Calls
  <2>8. CASE tpm_alt_extension
    BY <2>8, <2>1, <2>a DEF tpm_alt_extension, Calls
  <2>9. CASE tpm_rst_asserted
    BY <2>9, <2>1, <2>a DEF tpm_rst_asserted, Calls
  <2>10. CASE tpm_rst_deasserted
    BY <2>10, <2>1, <2>a DEF tpm_rst_deasserted, Calls
  <2>11. CASE HostCommand
    BY <2>11, <2>1, <2>a DEF HostCommand, Calls
  <2>12. CASE UsbPacket
    BY <2>12, <2>1, <2>a DEF UsbPacket, Calls
  <2>13. CASE UNCHANGED vars
    BY <2>13, <2>1, <2>a DEF vars, Calls
  <2> QED
    BY <1>d, <2>1, <2>2, <2>3, <2>4, <2>5, <2>6, <2>7, <2>8, <2>9, <2>10,
       <2>11, <2>12, <2>13
    DEF Next, ConsoleTask, Environment, Booted
<1>e. CASE pc'["HOOKS"] # "rst_start"
  BY <1>e DEF QuietInv
<1> QED
  BY <1>a, <1>b, <1>c, <1>d, <1>e

\* Every step keeps the invariant of the interface.
LEMMA FifoStep ==
    ASSUME TypeOK, QuietInv, FifoInv, [Next]_vars
    PROVE  FifoInv'
<1> USE DEF Tasks
<1>0. /\ PcType(pc) /\ ReqType(req) /\ ifUp \in BOOLEAN
      /\ pc["TPM"] \in {"rst_commit", "rst_disable", "rst_start"} => ~ifUp \/ Calls
      /\ pc["TPM"] \in {"rst_disable", "rst_start"} => ~req.fifo \/ Calls
  BY DEF TypeOK, FifoInv
<1>a. ASSUME TpmTask
      PROVE  FifoInv'
  <2>1. CASE RstStop("TPM")
    <3>1. ~ifUp' /\ pc'["TPM"] = "rst_commit"
      BY <2>1, <1>0, GotoIs DEF RstStop
    <3> QED
      BY <3>1 DEF FifoInv
  <2>2. CASE RstCommit("TPM")
    <3>1. pc["TPM"] = "rst_commit" /\ ifUp' = ifUp /\ ~req'.fifo /\ alt' = alt
      BY <2>2, <1>0 DEF RstCommit, At, ReqType
    <3> QED
      BY <1>0, <3>1 DEF FifoInv, Calls
  <2>3. CASE RstDisable("TPM")
    <3>1. /\ pc["TPM"] = "rst_disable" /\ ifUp' = ifUp
          /\ req'.fifo = req.fifo /\ alt' = alt
      BY <2>3, <1>0 DEF RstDisable, DisableAndInit, At, ReqType
    <3> QED
      BY <1>0, <3>1 DEF FifoInv, Calls
  <2>4. CASE RstStart("TPM")
    <3>1. pc'["TPM"] \in {"idle", "rst_stop"} \cup CmdSteps
      BY <2>4, <1>0, GotoIs DEF RstStart, At, CmdSteps
    <3> QED
      BY <3>1 DEF FifoInv, CmdSteps
  <2>5. CASE TpmPreloop
    <3>1. pc'["TPM"] \in {"rst_stop", "preloop"}
      BY <2>5, <1>0, GotoIs DEF TpmPreloop, At
    <3> QED
      BY <3>1 DEF FifoInv
  <2>6. CASE TpmTakeEvents
    <3>1. pc'["TPM"] \in {"idle", "rst_stop"} \cup CmdSteps
      BY <2>6, <1>0, GotoIs DEF TpmTakeEvents, At, CmdSteps
    <3> QED
      BY <3>1 DEF FifoInv, CmdSteps
  <2>7. CASE TpmReset
    <3>1. pc'["TPM"] \in {"idle", "rst_stop"} \cup CmdSteps
      BY <2>7, <1>0, GotoIs DEF TpmReset, At, CmdSteps
    <3> QED
      BY <3>1 DEF FifoInv, CmdSteps
  <2>8. CASE TpmCommit
    <3>1. pc'["TPM"] \in {"idle", "rst_stop"} \cup CmdSteps
      BY <2>8, <1>0, GotoIs DEF TpmCommit, At, CmdSteps
    <3> QED
      BY <3>1 DEF FifoInv, CmdSteps
  <2>9. CASE TpmCommand
    <3>1. pc'["TPM"] \in {"idle", "rst_stop"} \cup CmdSteps
      BY <2>9, <1>0, GotoIs DEF TpmCommand, At, CmdSteps
    <3> QED
      BY <3>1 DEF FifoInv, CmdSteps
  <2>10. CASE CmdKind
    <3>1. pc'["TPM"] \in {"idle", "rst_stop"} \cup CmdSteps
      BY <2>10, <1>0, GotoIs DEF CmdKind, At, CmdSteps
    <3> QED
      BY <3>1 DEF FifoInv, CmdSteps
  <2>11. CASE CmdCommitNvmem
    <3>1. pc'["TPM"] \in {"idle", "rst_stop"} \cup CmdSteps
      BY <2>11, <1>0, GotoIs DEF CmdCommitNvmem, At, CmdSteps
    <3> QED
      BY <3>1 DEF FifoInv, CmdSteps
  <2>12. CASE CmdRead
    <3>1. pc'["TPM"] \in {"idle", "rst_stop"} \cup CmdSteps
      BY <2>12, <1>0, GotoIs DEF CmdRead, At, CmdSteps
    <3> QED
      BY <3>1 DEF FifoInv, CmdSteps
  <2>13. CASE CmdWrite
    <3>1. pc'["TPM"] \in {"idle", "rst_stop"} \cup CmdSteps
      BY <2>13, <1>0, GotoIs DEF CmdWrite, At, CmdSteps
    <3> QED
      BY <3>1 DEF FifoInv, CmdSteps
  <2>14. CASE CmdEnd
    <3>1. pc'["TPM"] \in {"idle", "rst_stop"} \cup CmdSteps
      BY <2>14, <1>0, GotoIs DEF CmdEnd, At, CmdSteps
    <3> QED
      BY <3>1 DEF FifoInv, CmdSteps
  <2>15. CASE CmdWipeLater
    <3>1. pc'["TPM"] \in {"idle", "rst_stop"} \cup CmdSteps
      BY <2>15, <1>0, GotoIs DEF CmdWipeLater, At, CmdSteps
    <3> QED
      BY <3>1 DEF FifoInv, CmdSteps
  <2>16. CASE CmdWipeNow
    <3>1. pc'["TPM"] \in {"idle", "rst_stop"} \cup CmdSteps
      BY <2>16, <1>0, GotoIs DEF CmdWipeNow, At, CmdSteps
    <3> QED
      BY <3>1 DEF FifoInv, CmdSteps
  <2> QED
    BY <1>a, <2>1, <2>2, <2>3, <2>4, <2>5, <2>6, <2>7, <2>8, <2>9,
       <2>10, <2>11, <2>12, <2>13, <2>14, <2>15, <2>16
    DEF TpmTask, TpmReset_
<1>b. CASE Booted
  BY <1>b, BootState DEF FifoInv
\* Only a reset starts the interface, and the FIFO is filled only through it.
<1>c. ASSUME ~TpmTask, ~Booted PROVE FifoInv'
  <2>0. pc'["TPM"] = pc["TPM"]
    BY <1>c, NotTpm DEF TpmStays
  <2>a. ASSUME ifUp' => ifUp, req'.fifo => req.fifo \/ ifUp, Calls => Calls'
        PROVE  FifoInv'
    BY <1>0, <2>0, <2>a DEF FifoInv
  <2>1. CASE RstStop("HOOKS")
    BY <2>1, <1>0, <2>a DEF RstStop, ReqType, Calls
  <2>2. CASE RstCommit("HOOKS")
    BY <2>2, <1>0, <2>a DEF RstCommit, ReqType, Calls
  <2>3. CASE RstDisable("HOOKS")
    BY <2>3, <1>0, <2>a DEF RstDisable, DisableAndInit, ReqType, Calls
  <2>4. CASE RstStart("HOOKS")
    <3>1. pc["HOOKS"] = "rst_start" /\ alt' = alt
      BY <2>4 DEF RstStart, At
    <3>2. pc["TPM"] \in RstSteps => Calls
      BY <3>1 DEF QuietInv
    <3> QED
      BY <2>0, <3>1, <3>2 DEF FifoInv, RstSteps, Calls
  <2>5. CASE reinstate_nvmem_commits
    BY <2>5, <1>0, <2>a DEF reinstate_nvmem_commits, Calls
  <2>6. CASE deferred_set_ap_off
    BY <2>6, <1>0, <2>a DEF deferred_set_ap_off, Calls
  <2>7. CASE deferred_tpm_rst_isr
    BY <2>7, <1>0, <2>a DEF deferred_tpm_rst_isr, tpm_reset_request, ReqType, Calls
  <2>8. CASE deferred_tpm_rst_isr_reboot
    BY <2>8, <1>0, <2>a DEF deferred_tpm_rst_isr_reboot, tpm_reset_request, ReqType, Calls
  <2>9. CASE board_wipe_tpm
    BY <2>9, <1>0, <2>a DEF board_wipe_tpm, tpm_reset_request, ReqType, Calls
  <2>10. CASE WipeDone
    BY <2>10, <1>0, <2>a DEF WipeDone, ReqType, Calls
  <2>11. CASE board_fwmp_update_policies
    BY <2>11, <1>0, <2>a DEF board_fwmp_update_policies, Calls
  <2>12. CASE RebootWaitDone
    BY <2>12, <1>0, <2>a DEF RebootWaitDone, Calls
  <2>13. CASE UsbCommand
    BY <2>13, <1>0, <2>a DEF UsbCommand, Calls
  <2>14. CASE UsbFwmp
    BY <2>14, <1>0, <2>a DEF UsbFwmp, Calls
  <2>15. CASE DumpStart
    BY <2>15, <1>0, <2>a DEF DumpStart, Calls
  <2>16. CASE DumpEnd
    BY <2>16, <1>0, <2>a DEF DumpEnd, Calls
  <2>17. CASE EfsWrite
    BY <2>17, <1>0, <2>a DEF EfsWrite, Calls
  <2>18. CASE EfsUnlock
    BY <2>18, <1>0, <2>a DEF EfsUnlock, Calls
  <2>19. CASE AltPoll
    BY <2>19, <1>0, <2>a DEF AltPoll, Calls
  <2>20. CASE ConsoleInput
    BY <2>20, <1>0, <2>a DEF ConsoleInput, Calls
  <2>21. CASE tpm_alt_extension
    BY <2>21, <1>0, <2>a DEF tpm_alt_extension, Calls
  <2>22. CASE tpm_rst_asserted
    BY <2>22, <1>0, <2>a DEF tpm_rst_asserted, Calls
  <2>23. CASE tpm_rst_deasserted
    BY <2>23, <1>0, <2>a DEF tpm_rst_deasserted, Calls
  <2>24. CASE HostCommand
    BY <2>24, <1>0, <2>a DEF HostCommand, Calls
  <2>25. CASE UsbPacket
    BY <2>25, <1>0, <2>a DEF UsbPacket, Calls
  <2>26. CASE ResetTimeout
    BY <2>26, <1>0, <2>a DEF ResetTimeout, Calls
  <2>27. CASE UNCHANGED vars
    BY <2>27, <1>0, <2>a DEF vars, Calls
  <2> QED
    BY <1>c, <2>1, <2>2, <2>3, <2>4, <2>5, <2>6, <2>7, <2>8, <2>9,
       <2>10, <2>11, <2>12, <2>13, <2>14, <2>15, <2>16, <2>17, <2>18,
       <2>19, <2>20, <2>21, <2>22, <2>23, <2>24, <2>25, <2>26, <2>27
    DEF Next, HooksTask, ConsoleTask, Environment, TpmReset_, Booted
<1> QED
  BY <1>a, <1>b, <1>c

\* Every step keeps the invariant of deep sleep.
LEMMA SleepStep ==
    ASSUME TypeOK, LockInv, UnsavedInv, HooksLockInv, AltInv, ApInv, FifoInv,
           SleepInv, [Next]_vars, TypeOK', UnsavedInv'
    PROVE  SleepInv'
<1> USE DEF Tasks
<1> DEFINE Late == ap.late /\ ~ap.rst /\ ap.state # "on"
           NoCommand == ~Unsaved /\ ~req.fifo /\ pc["TPM"] \notin CmdSteps
<1>0. /\ PcType(pc) /\ ReqType(req) /\ ApType(ap)
      /\ ap.late => pc["CONSOLE"] # "alt_wait"
      /\ Late => NoCommand
      /\ "ap_off" \in deferred => ap.state # "on"
      /\ evt = {"alt"} => pc["CONSOLE"] = "alt_wait"
  BY DEF TypeOK, SleepInv, ApInv, AltInv
<1>a. ASSUME Unsaved' PROVE Unsaved \/ CmdWrite
  BY <1>a, FlashStep DEF Unsaved
<1>b. ASSUME TpmTask PROVE SleepInv'
  <2>0. pc'["CONSOLE"] = pc["CONSOLE"]
    BY <1>b, TpmOnly DEF ConsoleStays
  <2>a. ASSUME ap' = ap, Late /\ NoCommand => ~CmdWrite,
               Late /\ NoCommand => ~req'.fifo /\ pc'["TPM"] \notin CmdSteps
        PROVE  SleepInv'
    BY <1>0, <1>a, <2>0, <2>a DEF SleepInv
  <2>1. CASE RstStop("TPM")
    <3>1. ap' = ap /\ pc["TPM"] \notin {"cmd_nv", "cmd_next"}
      BY <2>1 DEF RstStop, At
    <3>2. ~CmdWrite
      BY <3>1 DEF CmdWrite, At
    <3>3. ~req.fifo => ~req'.fifo
      BY <2>1, <1>0 DEF RstStop, ReqType
    <3>4. Late /\ NoCommand => pc'["TPM"] \notin CmdSteps
      BY <2>1, <1>0, GotoIs DEF RstStop, CmdSteps
    <3> QED
      BY <2>a, <3>1, <3>2, <3>3, <3>4
  <2>2. CASE RstCommit("TPM")
    <3>1. ap' = ap /\ pc["TPM"] \notin {"cmd_nv", "cmd_next"}
      BY <2>2 DEF RstCommit, At
    <3>2. ~CmdWrite
      BY <3>1 DEF CmdWrite, At
    <3>3. ~req.fifo => ~req'.fifo
      BY <2>2, <1>0 DEF RstCommit, ReqType
    <3>4. Late /\ NoCommand => pc'["TPM"] \notin CmdSteps
      BY <2>2, <1>0, GotoIs DEF RstCommit, CmdSteps
    <3> QED
      BY <2>a, <3>1, <3>2, <3>3, <3>4
  <2>3. CASE RstDisable("TPM")
    <3>1. ap'.late => pc["CONSOLE"] # "alt_wait"
      BY <2>3, <1>0 DEF RstDisable, DisableAndInit, SleepDelayed, ApType
    <3>2. pc["TPM"] = "rst_disable" /\ pc'["TPM"] = "rst_start"
      BY <2>3, <1>0, GotoIs DEF RstDisable, DisableAndInit, At
    <3>3. req'.fifo => Calls
      BY <2>3, <1>0, <3>2 DEF RstDisable, DisableAndInit, ReqType, FifoInv
    <3>4. Calls => pc["CONSOLE"] = "alt_wait"
      BY DEF Calls, AltInv
    <3>5. ~Unsaved'
      BY <3>2 DEF UnsavedInv
    <3> QED
      BY <2>0, <3>1, <3>2, <3>3, <3>4, <3>5 DEF SleepInv, CmdSteps
  <2>4. CASE RstStart("TPM")
    <3>1. ap' = ap /\ pc["TPM"] \notin {"cmd_nv", "cmd_next"}
      BY <2>4 DEF RstStart, At
    <3>2. ~CmdWrite
      BY <3>1 DEF CmdWrite, At
    <3>3. ~req.fifo => ~req'.fifo
      BY <2>4, <1>0 DEF RstStart
    <3>4. Late /\ NoCommand => pc'["TPM"] \notin CmdSteps
      BY <2>4, <1>0, GotoIs DEF RstStart, CmdSteps
    <3> QED
      BY <2>a, <3>1, <3>2, <3>3, <3>4
  <2>5. CASE TpmPreloop
    <3>1. ap' = ap /\ pc["TPM"] \notin {"cmd_nv", "cmd_next"}
      BY <2>5 DEF TpmPreloop, At
    <3>2. ~CmdWrite
      BY <3>1 DEF CmdWrite, At
    <3>3. ~req.fifo => ~req'.fifo
      BY <2>5, <1>0 DEF TpmPreloop
    <3>4. Late /\ NoCommand => pc'["TPM"] \notin CmdSteps
      BY <2>5, <1>0, GotoIs DEF TpmPreloop, CmdSteps
    <3> QED
      BY <2>a, <3>1, <3>2, <3>3, <3>4
  <2>6. CASE TpmTakeEvents
    <3>1. ap' = ap /\ pc["TPM"] \notin {"cmd_nv", "cmd_next"}
      BY <2>6 DEF TpmTakeEvents, At
    <3>2. ~CmdWrite
      BY <3>1 DEF CmdWrite, At
    <3>3. ~req.fifo => ~req'.fifo
      BY <2>6, <1>0 DEF TpmTakeEvents
    <3>4. Late /\ NoCommand => pc'["TPM"] \notin CmdSteps
      BY <2>6, <1>0, GotoIs DEF TpmTakeEvents, CmdSteps
    <3> QED
      BY <2>a, <3>1, <3>2, <3>3, <3>4
  <2>7. CASE TpmReset
    <3>1. ap' = ap /\ pc["TPM"] \notin {"cmd_nv", "cmd_next"}
      BY <2>7 DEF TpmReset, At
    <3>2. ~CmdWrite
      BY <3>1 DEF CmdWrite, At
    <3>3. ~req.fifo => ~req'.fifo
      BY <2>7, <1>0 DEF TpmReset
    <3>4. Late /\ NoCommand => pc'["TPM"] \notin CmdSteps
      BY <2>7, <1>0, GotoIs DEF TpmReset, CmdSteps
    <3> QED
      BY <2>a, <3>1, <3>2, <3>3, <3>4
  <2>8. CASE TpmCommit
    <3>1. ap' = ap /\ pc["TPM"] \notin {"cmd_nv", "cmd_next"}
      BY <2>8 DEF TpmCommit, At
    <3>2. ~CmdWrite
      BY <3>1 DEF CmdWrite, At
    <3>3. ~req.fifo => ~req'.fifo
      BY <2>8, <1>0 DEF TpmCommit
    <3>4. Late /\ NoCommand => pc'["TPM"] \notin CmdSteps
      BY <2>8, <1>0, GotoIs DEF TpmCommit, CmdSteps
    <3> QED
      BY <2>a, <3>1, <3>2, <3>3, <3>4
  <2>9. CASE TpmCommand
    <3>1. ap' = ap /\ pc["TPM"] \notin {"cmd_nv", "cmd_next"}
      BY <2>9 DEF TpmCommand, At
    <3>2. ~CmdWrite
      BY <3>1 DEF CmdWrite, At
    <3>3. ~req.fifo => ~req'.fifo
      BY <2>9, <1>0 DEF TpmCommand, ReqType
    <3>4. Late /\ NoCommand => pc'["TPM"] \notin CmdSteps
      BY <2>9, <1>0, GotoIs DEF TpmCommand, CmdSteps
    <3> QED
      BY <2>a, <3>1, <3>2, <3>3, <3>4
  <2>10. CASE CmdKind
    <3>1. ap' = ap /\ pc["TPM"] \in CmdSteps
      BY <2>10 DEF CmdKind, At, CmdSteps
    <3> QED
      BY <2>a, <3>1
  <2>11. CASE CmdCommitNvmem
    <3>1. ap' = ap /\ pc["TPM"] \in CmdSteps
      BY <2>11 DEF CmdCommitNvmem, At, CmdSteps
    <3> QED
      BY <2>a, <3>1
  <2>12. CASE CmdRead
    <3>1. ap' = ap /\ pc["TPM"] \in CmdSteps
      BY <2>12 DEF CmdRead, At, CmdSteps
    <3> QED
      BY <2>a, <3>1
  <2>13. CASE CmdWrite
    <3>1. ap' = ap /\ pc["TPM"] \in CmdSteps
      BY <2>13 DEF CmdWrite, At, CmdSteps
    <3> QED
      BY <2>a, <3>1
  <2>14. CASE CmdEnd
    <3>1. ap' = ap /\ pc["TPM"] \in CmdSteps
      BY <2>14 DEF CmdEnd, At, CmdSteps
    <3> QED
      BY <2>a, <3>1
  <2>15. CASE CmdWipeLater
    <3>1. ap' = ap /\ pc["TPM"] \in CmdSteps
      BY <2>15 DEF CmdWipeLater, At, CmdSteps
    <3> QED
      BY <2>a, <3>1
  <2>16. CASE CmdWipeNow
    <3>1. ap' = ap /\ pc["TPM"] \in CmdSteps
      BY <2>16 DEF CmdWipeNow, At, CmdSteps
    <3> QED
      BY <2>a, <3>1
  <2> QED
    BY <1>b, <2>1, <2>2, <2>3, <2>4, <2>5, <2>6, <2>7, <2>8, <2>9,
       <2>10, <2>11, <2>12, <2>13, <2>14, <2>15, <2>16
    DEF TpmTask, TpmReset_
<1>c. CASE Booted
  BY <1>c, BootState DEF SleepInv
\* The others bring no command in without a sign of it.
<1>d. ASSUME ~TpmTask, ~Booted PROVE SleepInv'
  <2>0. pc'["TPM"] = pc["TPM"] /\ ~CmdWrite
    BY <1>d, NotTpm DEF TpmStays, TpmTask
  <2>a. ASSUME Late' => Late, Late => ~req'.fifo,
               ap'.late => pc'["CONSOLE"] # "alt_wait"
        PROVE  SleepInv'
    BY <1>0, <1>a, <2>0, <2>a DEF SleepInv
  <2>1. CASE RstStop("HOOKS")
    <3>1. ap'.late = ap.late /\ (Late' => Late)
      BY <2>1, <1>0 DEF RstStop
    <3>2. ~req.fifo => ~req'.fifo
      BY <2>1, <1>0 DEF RstStop, ReqType
    <3>3. pc["CONSOLE"] # "alt_wait" => pc'["CONSOLE"] # "alt_wait"
      BY <2>1, <1>0, GotoIs DEF RstStop
    <3> QED
      BY <1>0, <2>a, <3>1, <3>2, <3>3
  <2>2. CASE RstCommit("HOOKS")
    <3>1. ap'.late = ap.late /\ (Late' => Late)
      BY <2>2, <1>0 DEF RstCommit
    <3>2. ~req.fifo => ~req'.fifo
      BY <2>2, <1>0 DEF RstCommit, ReqType
    <3>3. pc["CONSOLE"] # "alt_wait" => pc'["CONSOLE"] # "alt_wait"
      BY <2>2, <1>0, GotoIs DEF RstCommit
    <3> QED
      BY <1>0, <2>a, <3>1, <3>2, <3>3
  <2>3. CASE RstDisable("HOOKS")
    <3>1. pc["HOOKS"] = "rst_disable" /\ wipeFirst["HOOKS"]
      BY <2>3 DEF RstDisable, DisableAndInit, At, HooksLockInv, RstSteps
    <3>2. ~ap'.late
      BY <2>3, <1>0, <3>1 DEF RstDisable, DisableAndInit, SleepDelayed, ApType
    <3> QED
      BY <3>2 DEF SleepInv
  <2>4. CASE RstStart("HOOKS")
    <3>1. ap'.late = ap.late /\ (Late' => Late)
      BY <2>4, <1>0 DEF RstStart
    <3>2. ~req.fifo => ~req'.fifo
      BY <2>4, <1>0 DEF RstStart, ReqType
    <3>3. pc["CONSOLE"] # "alt_wait" => pc'["CONSOLE"] # "alt_wait"
      BY <2>4, <1>0, GotoIs DEF RstStart
    <3> QED
      BY <1>0, <2>a, <3>1, <3>2, <3>3
  <2>5. CASE reinstate_nvmem_commits
    <3>1. ap'.late = ap.late /\ (Late' => Late)
      BY <2>5, <1>0 DEF reinstate_nvmem_commits
    <3>2. ~req.fifo => ~req'.fifo
      BY <2>5, <1>0 DEF reinstate_nvmem_commits
    <3>3. pc["CONSOLE"] # "alt_wait" => pc'["CONSOLE"] # "alt_wait"
      BY <2>5, <1>0, GotoIs DEF reinstate_nvmem_commits
    <3> QED
      BY <1>0, <2>a, <3>1, <3>2, <3>3
  <2>6. CASE deferred_set_ap_off
    <3>1. ap'.late = ap.late /\ (Late' => Late)
      BY <2>6, <1>0 DEF deferred_set_ap_off, ApType, Runs
    <3>2. ~req.fifo => ~req'.fifo
      BY <2>6, <1>0 DEF deferred_set_ap_off
    <3>3. pc["CONSOLE"] # "alt_wait" => pc'["CONSOLE"] # "alt_wait"
      BY <2>6, <1>0, GotoIs DEF deferred_set_ap_off
    <3> QED
      BY <1>0, <2>a, <3>1, <3>2, <3>3
  <2>7. CASE deferred_tpm_rst_isr
    <3>1. ap'.late = ap.late /\ (Late' => Late)
      BY <2>7, <1>0 DEF deferred_tpm_rst_isr, ApType
    <3>2. ~req.fifo => ~req'.fifo
      BY <2>7, <1>0 DEF deferred_tpm_rst_isr, tpm_reset_request, ReqType
    <3>3. pc["CONSOLE"] # "alt_wait" => pc'["CONSOLE"] # "alt_wait"
      BY <2>7, <1>0, GotoIs DEF deferred_tpm_rst_isr
    <3> QED
      BY <1>0, <2>a, <3>1, <3>2, <3>3
  <2>8. CASE deferred_tpm_rst_isr_reboot
    <3>1. ap'.late = ap.late /\ (Late' => Late)
      BY <2>8, <1>0 DEF deferred_tpm_rst_isr_reboot, ApType
    <3>2. ~req.fifo => ~req'.fifo
      BY <2>8, <1>0 DEF deferred_tpm_rst_isr_reboot, tpm_reset_request, ReqType
    <3>3. pc["CONSOLE"] # "alt_wait" => pc'["CONSOLE"] # "alt_wait"
      BY <2>8, <1>0, GotoIs DEF deferred_tpm_rst_isr_reboot
    <3> QED
      BY <1>0, <2>a, <3>1, <3>2, <3>3
  <2>9. CASE board_wipe_tpm
    <3>1. ap'.late = ap.late /\ (Late' => Late)
      BY <2>9, <1>0 DEF board_wipe_tpm
    <3>2. ~req.fifo => ~req'.fifo
      BY <2>9, <1>0 DEF board_wipe_tpm, tpm_reset_request, ReqType
    <3>3. pc["CONSOLE"] # "alt_wait" => pc'["CONSOLE"] # "alt_wait"
      BY <2>9, <1>0, GotoIs DEF board_wipe_tpm
    <3> QED
      BY <1>0, <2>a, <3>1, <3>2, <3>3
  <2>10. CASE WipeDone
    <3>1. ap'.late = ap.late /\ (Late' => Late)
      BY <2>10, <1>0 DEF WipeDone
    <3>2. ~req.fifo => ~req'.fifo
      BY <2>10, <1>0 DEF WipeDone, ReqType
    <3>3. pc["CONSOLE"] # "alt_wait" => pc'["CONSOLE"] # "alt_wait"
      BY <2>10, <1>0, GotoIs DEF WipeDone
    <3> QED
      BY <1>0, <2>a, <3>1, <3>2, <3>3
  <2>11. CASE board_fwmp_update_policies
    <3>1. ap'.late = ap.late /\ (Late' => Late)
      BY <2>11, <1>0 DEF board_fwmp_update_policies
    <3>2. ~req.fifo => ~req'.fifo
      BY <2>11, <1>0 DEF board_fwmp_update_policies
    <3>3. pc["CONSOLE"] # "alt_wait" => pc'["CONSOLE"] # "alt_wait"
      BY <2>11, <1>0, GotoIs DEF board_fwmp_update_policies
    <3> QED
      BY <1>0, <2>a, <3>1, <3>2, <3>3
  <2>12. CASE RebootWaitDone
    <3>1. ap'.late = ap.late /\ (Late' => Late)
      BY <2>12, <1>0 DEF RebootWaitDone
    <3>2. ~req.fifo => ~req'.fifo
      BY <2>12, <1>0 DEF RebootWaitDone
    <3>3. pc["CONSOLE"] # "alt_wait" => pc'["CONSOLE"] # "alt_wait"
      BY <2>12, <1>0, GotoIs DEF RebootWaitDone
    <3> QED
      BY <1>0, <2>a, <3>1, <3>2, <3>3
  <2>13. CASE UsbCommand
    <3>1. ap'.late = ap.late /\ (Late' => Late)
      BY <2>13, <1>0 DEF UsbCommand
    <3>2. ~req.fifo => ~req'.fifo
      BY <2>13, <1>0 DEF UsbCommand
    <3>3. pc["CONSOLE"] # "alt_wait" => pc'["CONSOLE"] # "alt_wait"
      BY <2>13, <1>0, GotoIs DEF UsbCommand
    <3> QED
      BY <1>0, <2>a, <3>1, <3>2, <3>3
  <2>14. CASE UsbFwmp
    <3>1. ap'.late = ap.late /\ (Late' => Late)
      BY <2>14, <1>0 DEF UsbFwmp
    <3>2. ~req.fifo => ~req'.fifo
      BY <2>14, <1>0 DEF UsbFwmp
    <3>3. pc["CONSOLE"] # "alt_wait" => pc'["CONSOLE"] # "alt_wait"
      BY <2>14, <1>0, GotoIs DEF UsbFwmp
    <3> QED
      BY <1>0, <2>a, <3>1, <3>2, <3>3
  <2>15. CASE DumpStart
    <3>1. ap'.late = ap.late /\ (Late' => Late)
      BY <2>15, <1>0 DEF DumpStart
    <3>2. ~req.fifo => ~req'.fifo
      BY <2>15, <1>0 DEF DumpStart
    <3>3. pc["CONSOLE"] # "alt_wait" => pc'["CONSOLE"] # "alt_wait"
      BY <2>15, <1>0, GotoIs DEF DumpStart, At
    <3> QED
      BY <1>0, <2>a, <3>1, <3>2, <3>3
  <2>16. CASE DumpEnd
    <3>1. ap'.late = ap.late /\ (Late' => Late)
      BY <2>16, <1>0 DEF DumpEnd
    <3>2. ~req.fifo => ~req'.fifo
      BY <2>16, <1>0 DEF DumpEnd
    <3>3. pc["CONSOLE"] # "alt_wait" => pc'["CONSOLE"] # "alt_wait"
      BY <2>16, <1>0, GotoIs DEF DumpEnd, At
    <3> QED
      BY <1>0, <2>a, <3>1, <3>2, <3>3
  <2>17. CASE EfsWrite
    <3>1. ap'.late = ap.late /\ (Late' => Late)
      BY <2>17, <1>0 DEF EfsWrite
    <3>2. ~req.fifo => ~req'.fifo
      BY <2>17, <1>0 DEF EfsWrite
    <3>3. pc["CONSOLE"] # "alt_wait" => pc'["CONSOLE"] # "alt_wait"
      BY <2>17, <1>0, GotoIs DEF EfsWrite, At
    <3> QED
      BY <1>0, <2>a, <3>1, <3>2, <3>3
  <2>18. CASE EfsUnlock
    <3>1. ap'.late = ap.late /\ (Late' => Late)
      BY <2>18, <1>0 DEF EfsUnlock
    <3>2. ~req.fifo => ~req'.fifo
      BY <2>18, <1>0 DEF EfsUnlock
    <3>3. pc["CONSOLE"] # "alt_wait" => pc'["CONSOLE"] # "alt_wait"
      BY <2>18, <1>0, GotoIs DEF EfsUnlock, At
    <3> QED
      BY <1>0, <2>a, <3>1, <3>2, <3>3
  <2>19. CASE AltPoll
    <3>1. ap'.late = ap.late /\ (Late' => Late)
      BY <2>19, <1>0 DEF AltPoll
    <3>2. ~req.fifo => ~req'.fifo
      BY <2>19, <1>0 DEF AltPoll
    <3>3. pc["CONSOLE"] # "alt_wait" => pc'["CONSOLE"] # "alt_wait"
      BY <2>19, <1>0, GotoIs DEF AltPoll, At
    <3> QED
      BY <1>0, <2>a, <3>1, <3>2, <3>3
  <2>20. CASE ConsoleInput
    <3>1. ~ap'.late
      BY <2>20, <1>0 DEF ConsoleInput, ConsoleInUse, ApType
    <3> QED
      BY <3>1 DEF SleepInv
  <2>21. CASE tpm_alt_extension
    <3>1. ~ap'.late
      BY <2>21, <1>0 DEF tpm_alt_extension, ConsoleInUse, ApType
    <3> QED
      BY <3>1 DEF SleepInv
  <2>22. CASE tpm_rst_asserted
    <3>1. ~ap'.late
      BY <2>22, <1>0 DEF tpm_rst_asserted, ConsoleInUse, ApType
    <3> QED
      BY <3>1 DEF SleepInv
  <2>23. CASE tpm_rst_deasserted
    <3>1. ap'.late = ap.late /\ (Late' => Late)
      BY <2>23, <1>0 DEF tpm_rst_deasserted, ApType
    <3>2. ~req.fifo => ~req'.fifo
      BY <2>23, <1>0 DEF tpm_rst_deasserted
    <3>3. pc["CONSOLE"] # "alt_wait" => pc'["CONSOLE"] # "alt_wait"
      BY <2>23, <1>0, GotoIs DEF tpm_rst_deasserted
    <3> QED
      BY <1>0, <2>a, <3>1, <3>2, <3>3
  <2>24. CASE HostCommand
    <3>1. ap' = ap /\ ap.rst /\ pc' = pc
      BY <2>24 DEF HostCommand
    <3> QED
      BY <1>0, <2>a, <3>1
  <2>25. CASE UsbPacket
    <3>1. ap'.late = ap.late /\ (Late' => Late)
      BY <2>25, <1>0 DEF UsbPacket
    <3>2. ~req.fifo => ~req'.fifo
      BY <2>25, <1>0 DEF UsbPacket
    <3>3. pc["CONSOLE"] # "alt_wait" => pc'["CONSOLE"] # "alt_wait"
      BY <2>25, <1>0, GotoIs DEF UsbPacket
    <3> QED
      BY <1>0, <2>a, <3>1, <3>2, <3>3
  <2>26. CASE ResetTimeout
    <3>1. ap'.late = ap.late /\ (Late' => Late)
      BY <2>26, <1>0 DEF ResetTimeout
    <3>2. ~req.fifo => ~req'.fifo
      BY <2>26, <1>0 DEF ResetTimeout
    <3>3. pc["CONSOLE"] # "alt_wait" => pc'["CONSOLE"] # "alt_wait"
      BY <2>26, <1>0, GotoIs DEF ResetTimeout
    <3> QED
      BY <1>0, <2>a, <3>1, <3>2, <3>3
  <2>27. CASE UNCHANGED vars
    BY <2>27, <1>0, <2>a DEF vars
  <2> QED
    BY <1>d, <2>1, <2>2, <2>3, <2>4, <2>5, <2>6, <2>7, <2>8, <2>9,
       <2>10, <2>11, <2>12, <2>13, <2>14, <2>15, <2>16, <2>17, <2>18,
       <2>19, <2>20, <2>21, <2>22, <2>23, <2>24, <2>25, <2>26, <2>27
    DEF Next, HooksTask, ConsoleTask, Environment, TpmReset_, Booted
<1> QED
  BY <1>b, <1>c, <1>d

\* The chip is never ready for deep sleep with a write of a TPM command that
\* is only in the cache, whoever resets the TPM.
THEOREM SleepsSaved == Spec => []SavedBeforeDeepSleep
<1> DEFINE SInv == /\ UnsavedInv /\ AltInv /\ TimerInv /\ ApInv /\ FirstInv
                   /\ HooksLockInv /\ QuietInv /\ FifoInv /\ SleepInv
<1>1. Init => SInv
  BY DEF Init, nvmem_init, BootPc, Tasks, NoTask, UnsavedInv, Unsaved, AltInv,
         TimerInv, ApInv, FirstInv, HooksLockInv, QuietInv, FifoInv, SleepInv,
         RstSteps
<1>2. TypeOK /\ LockInv /\ SInv /\ [Next]_vars
      => UnsavedInv' /\ AltInv' /\ TimerInv' /\ ApInv'
  BY UnsavedStep, AltStep, TimerStep, ApStep
<1>3. TypeOK /\ LockInv /\ SInv /\ [Next]_vars
      => FirstInv' /\ HooksLockInv' /\ QuietInv' /\ FifoInv'
  BY FirstStep, HooksLockStep, QuietStep, FifoStep
<1>4. TypeOK /\ LockInv /\ SInv /\ [Next]_vars /\ TypeOK' /\ UnsavedInv'
      => SleepInv'
  BY SleepStep
<1>5. TypeOK /\ UnsavedInv /\ TimerInv /\ ApInv /\ SleepInv
      => SavedBeforeDeepSleep
  <2> SUFFICES ASSUME TypeOK, UnsavedInv, TimerInv, ApInv, SleepInv,
                      DeepSleepReady, hist.written > nv.flash
               PROVE  FALSE
    BY DEF SavedBeforeDeepSleep, TypeOK, NvType, HistType
  <2>1. /\ nv.task = "TPM" /\ pc["TPM"] \notin {"preloop", "rst_disable"}
        /\ nv.commits_enabled => pc["TPM"] = "cmd_next"
    BY DEF UnsavedInv, Unsaved
  <2>2. Blocked("TPM") /\ pc["TPM"] \in TpmSteps
    BY DEF DeepSleepReady, TypeOK, PcType, Tasks
  <2>3. pc["TPM"] = "idle" /\ events = {} /\ evt = {}
    BY <2>1, <2>2 DEF Blocked, TpmSteps, RstSteps, LockSteps, CanLock
  <2>4. "reinstate" \in deferred
    BY <2>1, <2>3 DEF TimerInv
  <2>5. ap.late /\ "tpm_rst" \notin deferred /\ "reboot" \notin deferred
    BY <2>4 DEF DeepSleepReady
  <2>6. ap.state # "on" /\ ~ap.rst
    BY <2>5 DEF DeepSleepReady, ApInv
  <2> QED
    BY <2>5, <2>6 DEF SleepInv, Unsaved
<1> QED
  BY <1>1, <1>2, <1>3, <1>4, <1>5, TypeCorrect, LockInvHolds, PTL DEF Spec

----------------------------------------------------------------------------
(* Wipes.                                                                  *)

\* No command comes over USB: the HOOKS task runs no reset.
NoUsbInv ==
    "usb" \notin deferred /\ pc["HOOKS"] \notin {"usb_fwmp"} \cup RstSteps

\* The HOOKS task keeps no lock, and the console only within a command that
\* gives it back.
HolderInv ==
    /\ nv.task # "HOOKS"
    /\ nv.task = "CONSOLE" => pc["CONSOLE"] \in {"dump", "efs_unlock"}
    /\ pc["CONSOLE"] = "dump" => ~nv.write_in_progress
    /\ pc["CONSOLE"] = "efs_unlock" => nv.commits_enabled

\* Before its first reset the TPM task got no command of the AP and nobody
\* asked for a wipe.  A command of the AP is never among the events that a
\* reset within a command, or the first one, hands on.
StartInv ==
    /\ pc["TPM"] = "preloop" =>
         /\ ~ifUp /\ "wake" \notin events
         /\ "wipe" \notin deferred /\ pc["HOOKS"] # "wait_wipe"
    /\ pc["TPM"] \in RstSteps /\ "reset" \notin evt => "wake" \notin evt
    /\ pc["TPM"] \in CmdSteps => evt \subseteq {"alt"}

\* As long as the wipe that was asked for is not done, the TPM task is about
\* to do it, or the request and its event are both there.  If the HOOKS task
\* was woken already, by a reset that was under way when it asked, the TPM
\* task does not stop for the lock before it comes to the wipe.
WipeInv ==
    /\ pc["HOOKS"] = "wait_wipe" /\ ~hist.wiped =>
         \/ pc["TPM"] = "rst_stop" /\ wipeFirst["TPM"]
         \/ /\ req.wipe_requested
            /\ pc["TPM"] \in {"idle", "rst_disable", "rst_start"} \cup CmdSteps
            /\ \/ "reset" \in events
               \/ pc["TPM"] = "idle" /\ "reset" \in evt
            /\ hooksEvent =>
                 /\ pc["TPM"] # "rst_disable"
                 /\ "wake" \in evt => "reset" \in evt
                 /\ pc["TPM"] \in CmdSteps => alt = "running"
    /\ pc["HOOKS"] = "fwmp" => hist.wiped

\* Without commands over USB there are none later.
LEMMA NoUsbStep ==
    ASSUME "usb" \notin Deferred, TypeOK, NoUsbInv, [Next]_vars
    PROVE  NoUsbInv'
<1> USE DEF Tasks
<1>0. /\ PcType(pc) /\ "usb" \notin deferred
      /\ pc["HOOKS"] \notin {"usb_fwmp"} \cup RstSteps
  BY DEF TypeOK, NoUsbInv
<1>a. CASE TpmTask
  BY <1>0, <1>a, TpmOnly DEF HooksStays, NoUsbInv
<1>b. CASE Booted
  BY <1>b, BootState DEF NoUsbInv, RstSteps
<1>c. ASSUME "usb" \notin deferred',
             \/ pc'["HOOKS"] = pc["HOOKS"]
             \/ pc'["HOOKS"] \in {"loop", "wait_wipe", "wait_reboot", "fwmp",
                                  "reboot", "system_reset"}
      PROVE  NoUsbInv'
  BY <1>0, <1>c DEF NoUsbInv, RstSteps
<1>1. CASE RstStop("HOOKS")
  BY <1>1, <1>0 DEF RstStop, At, RstSteps
<1>2. CASE RstCommit("HOOKS")
  BY <1>2, <1>0 DEF RstCommit, At, RstSteps
<1>3. CASE RstDisable("HOOKS")
  BY <1>3, <1>0 DEF RstDisable, DisableAndInit, At, RstSteps
<1>4. CASE RstStart("HOOKS")
  BY <1>4, <1>0 DEF RstStart, At, RstSteps
<1>5. CASE reinstate_nvmem_commits
  <2>1. "usb" \notin deferred'
    BY <1>5, <1>0 DEF reinstate_nvmem_commits
  <2> QED
    BY <1>5, <1>0, <1>c, <2>1, GotoIs DEF reinstate_nvmem_commits
<1>6. CASE deferred_set_ap_off
  <2>1. "usb" \notin deferred'
    BY <1>6, <1>0 DEF deferred_set_ap_off
  <2> QED
    BY <1>6, <1>0, <1>c, <2>1, GotoIs DEF deferred_set_ap_off
<1>7. CASE deferred_tpm_rst_isr
  <2>1. "usb" \notin deferred'
    BY <1>7, <1>0 DEF deferred_tpm_rst_isr
  <2> QED
    BY <1>7, <1>0, <1>c, <2>1, GotoIs DEF deferred_tpm_rst_isr
<1>8. CASE deferred_tpm_rst_isr_reboot
  <2>1. Goto("HOOKS", "system_reset") \/ Goto("HOOKS", "wait_reboot")
    BY <1>8 DEF deferred_tpm_rst_isr_reboot
  <2>2. pc'["HOOKS"] \in {"wait_reboot", "system_reset"}
    BY <1>0, <2>1, GotoIs
  <2> QED
    BY <1>8, <1>0, <1>c, <2>2 DEF deferred_tpm_rst_isr_reboot
<1>9. CASE board_wipe_tpm
  <2>1. Goto("HOOKS", "system_reset") \/ Goto("HOOKS", "wait_wipe")
    BY <1>9 DEF board_wipe_tpm
  <2>2. pc'["HOOKS"] \in {"wait_wipe", "system_reset"}
    BY <1>0, <2>1, GotoIs
  <2> QED
    BY <1>9, <1>0, <1>c, <2>2 DEF board_wipe_tpm
<1>10. CASE WipeDone
  <2>1. "usb" \notin deferred'
    BY <1>10, <1>0 DEF WipeDone
  <2> QED
    BY <1>10, <1>0, <1>c, <2>1, GotoIs DEF WipeDone
<1>11. CASE board_fwmp_update_policies
  <2>1. "usb" \notin deferred'
    BY <1>11, <1>0 DEF board_fwmp_update_policies
  <2> QED
    BY <1>11, <1>0, <1>c, <2>1, GotoIs DEF board_fwmp_update_policies
<1>12. CASE RebootWaitDone
  <2>1. "usb" \notin deferred'
    BY <1>12, <1>0 DEF RebootWaitDone
  <2> QED
    BY <1>12, <1>0, <1>c, <2>1, GotoIs DEF RebootWaitDone
<1>13. CASE UsbCommand
  BY <1>13, <1>0 DEF UsbCommand, Runs
<1>14. CASE UsbFwmp
  BY <1>14, <1>0 DEF UsbFwmp, At, RstSteps
<1>15. CASE DumpStart
  <2>1. "usb" \notin deferred'
    BY <1>15, <1>0 DEF DumpStart
  <2> QED
    BY <1>15, <1>0, <1>c, <2>1, GotoIs DEF DumpStart
<1>16. CASE DumpEnd
  <2>1. "usb" \notin deferred'
    BY <1>16, <1>0 DEF DumpEnd
  <2> QED
    BY <1>16, <1>0, <1>c, <2>1, GotoIs DEF DumpEnd
<1>17. CASE EfsWrite
  <2>1. "usb" \notin deferred'
    BY <1>17, <1>0 DEF EfsWrite
  <2> QED
    BY <1>17, <1>0, <1>c, <2>1, GotoIs DEF EfsWrite
<1>18. CASE EfsUnlock
  <2>1. "usb" \notin deferred'
    BY <1>18, <1>0 DEF EfsUnlock
  <2> QED
    BY <1>18, <1>0, <1>c, <2>1, GotoIs DEF EfsUnlock
<1>19. CASE AltPoll
  <2>1. "usb" \notin deferred'
    BY <1>19, <1>0 DEF AltPoll
  <2> QED
    BY <1>19, <1>0, <1>c, <2>1, GotoIs DEF AltPoll
<1>20. CASE ConsoleInput
  <2>1. "usb" \notin deferred'
    BY <1>20, <1>0 DEF ConsoleInput
  <2> QED
    BY <1>20, <1>0, <1>c, <2>1, GotoIs DEF ConsoleInput
<1>21. CASE tpm_alt_extension
  <2>1. "usb" \notin deferred'
    BY <1>21, <1>0 DEF tpm_alt_extension
  <2> QED
    BY <1>21, <1>0, <1>c, <2>1, GotoIs DEF tpm_alt_extension
<1>22. CASE tpm_rst_asserted
  <2>1. "usb" \notin deferred'
    BY <1>22, <1>0 DEF tpm_rst_asserted
  <2> QED
    BY <1>22, <1>0, <1>c, <2>1, GotoIs DEF tpm_rst_asserted
<1>23. CASE tpm_rst_deasserted
  <2>1. PICK d \in {"tpm_rst", "reboot"} : deferred' = deferred \cup {d}
    BY <1>23 DEF tpm_rst_deasserted
  <2> QED
    BY <1>23, <1>0, <1>c, <2>1 DEF tpm_rst_deasserted
<1>24. CASE HostCommand
  <2>1. "usb" \notin deferred'
    BY <1>24, <1>0 DEF HostCommand
  <2> QED
    BY <1>24, <1>0, <1>c, <2>1, GotoIs DEF HostCommand
<1>25. CASE UsbPacket
  <2>1. "usb" \notin deferred'
    BY <1>25, <1>0 DEF UsbPacket
  <2> QED
    BY <1>25, <1>0, <1>c, <2>1, GotoIs DEF UsbPacket
<1>26. CASE ResetTimeout
  <2>1. "usb" \notin deferred'
    BY <1>26, <1>0 DEF ResetTimeout
  <2> QED
    BY <1>26, <1>0, <1>c, <2>1, GotoIs DEF ResetTimeout
<1>27. CASE UNCHANGED vars
  BY <1>27, <1>0, <1>c DEF vars
<1> QED
  BY <1>1, <1>2, <1>3, <1>4, <1>5, <1>6, <1>7, <1>8, <1>9, <1>10, <1>11,
     <1>12, <1>13, <1>14, <1>15, <1>16, <1>17, <1>18, <1>19, <1>20,
     <1>21, <1>22, <1>23, <1>24, <1>25, <1>26, <1>27, <1>a, <1>b
  DEF Next, HooksTask, ConsoleTask, Environment, TpmReset_, Booted

\* Every step keeps the invariant of the holder of the lock.
LEMMA HolderStep ==
    ASSUME TypeOK, LockInv, NoUsbInv, HolderInv, [Next]_vars
    PROVE  HolderInv'
<1> USE DEF Tasks
<1>0. /\ NvType(nv) /\ PcType(pc)
      /\ nv.write_in_progress \/ ~nv.commits_enabled => nv.task # NoTask
      /\ pc["CONSOLE"] = "efs_unlock" =>
           nv.task = "CONSOLE" /\ nv.commits_enabled
      /\ pc["CONSOLE"] = "dump" =>
           nv.task = "CONSOLE" /\ ~nv.commits_enabled /\ ~nv.write_in_progress
      /\ nv.task # "HOOKS"
      /\ nv.task = "CONSOLE" => pc["CONSOLE"] \in {"dump", "efs_unlock"}
      /\ pc["HOOKS"] \notin {"usb_fwmp"} \cup RstSteps
  BY DEF TypeOK, LockInv, NvInv, NvCore, ConsoleHolds, NoUsbInv, HolderInv
<1>a. ASSUME pc'["CONSOLE"] = pc["CONSOLE"],
             nv'.task \in {nv.task, "TPM", NoTask},
             nv.task = "CONSOLE" =>
               /\ nv'.write_in_progress = nv.write_in_progress
               /\ nv'.commits_enabled = nv.commits_enabled
      PROVE  HolderInv'
  BY <1>0, <1>a DEF HolderInv, NoTask
<1>b. ASSUME TpmTask PROVE HolderInv'
  <2>0. pc'["CONSOLE"] = pc["CONSOLE"]
    BY <1>b, TpmOnly DEF ConsoleStays
  <2>1. CASE RstStop("TPM")
    <3>1. nv' = nvmem_erase_tpm_data(nv) \/ nv' = nv
      BY <2>1 DEF RstStop
    <3> QED
      BY <1>0, <1>a, <2>0, <3>1, EraseIs
  <2>2. CASE RstCommit("TPM")
    <3>1. nv' = nvmem_enable_commits(nv, "TPM")
      BY <2>2 DEF RstCommit
    <3>2. nv.task # "TPM" => nv' = nv
      BY <1>0, <3>1, EnableIs
    <3>3. nv.task = "TPM" => nv'.task \in {"TPM", NoTask}
      BY <1>0, <3>1, EnableIs
    <3> QED
      BY <1>a, <2>0, <3>2, <3>3
  <2>3. CASE RstDisable("TPM")
    <3>1. /\ nv' = TPM_Manufacture(nvmem_disable_commits(nv, "TPM"), "TPM")
          /\ nv.task \in {"TPM", NoTask}
      BY <2>3 DEF RstDisable, DisableAndInit, CanLock
    <3>2. nv'.task \in {"TPM", NoTask}
      BY <1>0, <3>1, DisableIs
    <3> QED
      BY <1>a, <2>0, <3>1, <3>2 DEF NoTask
  <2>4. CASE RstStart("TPM")
    BY <2>4, <1>a, <2>0 DEF RstStart
  <2>5. CASE TpmPreloop
    BY <2>5, <1>a, <2>0 DEF TpmPreloop
  <2>6. CASE TpmTakeEvents
    BY <2>6, <1>a, <2>0 DEF TpmTakeEvents
  <2>7. CASE TpmReset
    BY <2>7, <1>a, <2>0 DEF TpmReset
  <2>8. CASE TpmCommit
    <3>1. nv' = nvmem_enable_commits(nv, "TPM")
      BY <2>8 DEF TpmCommit
    <3>2. nv.task # "TPM" => nv' = nv
      BY <1>0, <3>1, EnableIs
    <3>3. nv.task = "TPM" => nv'.task \in {"TPM", NoTask}
      BY <1>0, <3>1, EnableIs
    <3> QED
      BY <1>a, <2>0, <3>2, <3>3
  <2>9. CASE TpmCommand
    BY <2>9, <1>a, <2>0 DEF TpmCommand
  <2>10. CASE CmdKind
    BY <2>10, <1>a, <2>0 DEF CmdKind
  <2>11. CASE CmdCommitNvmem
    <3>1. nv' = nvmem_enable_commits(nv, "TPM")
      BY <2>11 DEF CmdCommitNvmem
    <3>2. nv.task # "TPM" => nv' = nv
      BY <1>0, <3>1, EnableIs
    <3>3. nv.task = "TPM" => nv'.task \in {"TPM", NoTask}
      BY <1>0, <3>1, EnableIs
    <3> QED
      BY <1>a, <2>0, <3>2, <3>3
  <2>12. CASE CmdRead
    <3>1. /\ nv' = nvmem_read(nv, "TPM")
          /\ nv.task \in {"TPM", NoTask}
      BY <2>12 DEF CmdRead, CanLock
    <3>2. nv'.task \in {"TPM", NoTask}
      BY <1>0, <3>1, ReadIs
    <3> QED
      BY <1>a, <2>0, <3>1, <3>2 DEF NoTask
  <2>13. CASE CmdWrite
    <3>1. /\ nv' = nvmem_write(nv, "TPM")
          /\ nv.task \in {"TPM", NoTask}
      BY <2>13 DEF CmdWrite, CanLock
    <3>2. nv'.task \in {"TPM", NoTask}
      BY <1>0, <3>1, WriteIs
    <3> QED
      BY <1>a, <2>0, <3>1, <3>2 DEF NoTask
  <2>14. CASE CmdEnd
    <3>1. nv' = nvmem_commit(nv, "TPM")
      BY <2>14 DEF CmdEnd
    <3>2. nv.task # "TPM" => nv' = nv
      BY <1>0, <3>1, CommitIs
    <3>3. nv.task = "TPM" => nv'.task \in {"TPM", NoTask}
      BY <1>0, <3>1, CommitIs
    <3> QED
      BY <1>a, <2>0, <3>2, <3>3
  <2>15. CASE CmdWipeLater
    <3>1. /\ nv' = nvmem_read(nv, "TPM")
          /\ nv.task \in {"TPM", NoTask}
      BY <2>15 DEF CmdWipeLater, CanLock
    <3>2. nv'.task \in {"TPM", NoTask}
      BY <1>0, <3>1, ReadIs
    <3> QED
      BY <1>a, <2>0, <3>1, <3>2 DEF NoTask
  <2>16. CASE CmdWipeNow
    <3>1. /\ nv' = nvmem_read(nv, "TPM")
          /\ nv.task \in {"TPM", NoTask}
      BY <2>16 DEF CmdWipeNow, CanLock
    <3>2. nv'.task \in {"TPM", NoTask}
      BY <1>0, <3>1, ReadIs
    <3> QED
      BY <1>a, <2>0, <3>1, <3>2 DEF NoTask
  <2> QED
    BY <1>b, <2>1, <2>2, <2>3, <2>4, <2>5, <2>6, <2>7, <2>8, <2>9,
       <2>10, <2>11, <2>12, <2>13, <2>14, <2>15, <2>16
    DEF TpmTask, TpmReset_
<1>c. CASE Booted
  BY <1>c, BootState DEF HolderInv, NoTask
<1>1. CASE deferred_set_ap_off
  <2>1. nv' = nv
    BY <1>1, <1>0, EnableIs DEF deferred_set_ap_off
  <2> QED
    BY <1>1, <1>a, <2>1 DEF deferred_set_ap_off
<1>2. CASE board_fwmp_update_policies
  <2>1. nv' = nvmem_read(nv, "HOOKS") /\ nv.task = NoTask
    BY <1>2, <1>0 DEF board_fwmp_update_policies, CanLock
  <2>2. nv'.task = NoTask
    BY <1>0, <2>1, ReadIs
  <2>3. pc'["CONSOLE"] = pc["CONSOLE"]
    BY <1>2, <1>0, GotoIs DEF board_fwmp_update_policies
  <2> QED
    BY <1>a, <2>1, <2>2, <2>3 DEF NoTask
<1>3. CASE DumpStart
  <2>1. nv.task = NoTask /\ pc'["CONSOLE"] = "dump"
    BY <1>3, <1>0, GotoIs DEF DumpStart, At, CanLock
  <2>2. nv'.task = "CONSOLE" /\ ~nv'.write_in_progress
    BY <1>3, <1>0, <2>1
    DEF DumpStart, nvmem_disable_commits, nvmem_lock_cache, NvType
  <2> QED
    BY <2>1, <2>2 DEF HolderInv
<1>4. CASE DumpEnd
  <2>1. pc["CONSOLE"] = "dump" /\ pc'["CONSOLE"] = "prompt"
    BY <1>4, <1>0, GotoIs DEF DumpEnd, At
  <2>2. nv'.task = NoTask
    BY <1>4, <1>0, <2>1, EnableIs DEF DumpEnd
  <2> QED
    BY <2>1, <2>2 DEF HolderInv, NoTask
<1>5. CASE EfsWrite
  <2> DEFINE r == nvmem_read(nv, "CONSOLE")
  <2>1. nv.task = NoTask
    BY <1>5, <1>0 DEF EfsWrite, At, CanLock
  <2>2. NvType(r) /\ r.commits_enabled
    BY <1>0, <2>1, OpsType, ReadIs
  <2>3. CASE nv' = nv /\ Goto("CONSOLE", "prompt")
    BY <1>0, <2>1, <2>3, GotoIs DEF HolderInv, NoTask
  <2>4. CASE nv' = nvmem_write(r, "CONSOLE") /\ Goto("CONSOLE", "efs_unlock")
    <3> HIDE DEF r
    <3>1. nv'.task = "CONSOLE" /\ nv'.commits_enabled
      BY <2>2, <2>4, WriteIs
    <3>2. pc'["CONSOLE"] = "efs_unlock"
      BY <1>0, <2>4, GotoIs
    <3> QED
      BY <3>1, <3>2 DEF HolderInv
  <2> QED
    BY <1>5, <2>3, <2>4 DEF EfsWrite
<1>6. CASE EfsUnlock
  <2>1. pc["CONSOLE"] = "efs_unlock" /\ pc'["CONSOLE"] = "prompt"
    BY <1>6, <1>0, GotoIs DEF EfsUnlock, At
  <2>2. nv'.task = NoTask
    BY <1>6, <1>0, <2>1
    DEF EfsUnlock, nvmem_unlock_cache, nvmem_release_cache, NvType
  <2> QED
    BY <2>1, <2>2 DEF HolderInv, NoTask
<1>7. CASE AltPoll \/ ConsoleInput \/ tpm_alt_extension
  <2>1. nv' = nv /\ pc["CONSOLE"] \in {"alt_wait", "prompt"}
    BY <1>7 DEF AltPoll, ConsoleInput, tpm_alt_extension, At
  <2>2. pc'["CONSOLE"] \in {"alt_wait", "prompt", "dump_lock", "efs_write"}
    BY <1>7, <1>0, <2>1, GotoIs DEF AltPoll, ConsoleInput, tpm_alt_extension
  <2> QED
    BY <1>0, <2>1, <2>2 DEF HolderInv
<1>8. CASE RstStop("HOOKS")
  BY <1>8, <1>0 DEF RstStop, At, RstSteps
<1>9. CASE RstCommit("HOOKS")
  BY <1>9, <1>0 DEF RstCommit, At, RstSteps
<1>10. CASE RstDisable("HOOKS")
  BY <1>10, <1>0 DEF RstDisable, DisableAndInit, At, RstSteps
<1>11. CASE RstStart("HOOKS")
  BY <1>11, <1>0 DEF RstStart, At, RstSteps
<1>12. CASE reinstate_nvmem_commits
  <2>1. pc'["CONSOLE"] = pc["CONSOLE"]
    BY <1>12, <1>0, GotoIs DEF reinstate_nvmem_commits
  <2> QED
    BY <1>12, <1>a, <2>1 DEF reinstate_nvmem_commits
<1>13. CASE deferred_tpm_rst_isr
  <2>1. pc'["CONSOLE"] = pc["CONSOLE"]
    BY <1>13, <1>0, GotoIs DEF deferred_tpm_rst_isr
  <2> QED
    BY <1>13, <1>a, <2>1 DEF deferred_tpm_rst_isr
<1>14. CASE deferred_tpm_rst_isr_reboot
  <2>1. pc'["CONSOLE"] = pc["CONSOLE"]
    BY <1>14, <1>0, GotoIs DEF deferred_tpm_rst_isr_reboot
  <2> QED
    BY <1>14, <1>a, <2>1 DEF deferred_tpm_rst_isr_reboot
<1>15. CASE board_wipe_tpm
  <2>1. pc'["CONSOLE"] = pc["CONSOLE"]
    BY <1>15, <1>0, GotoIs DEF board_wipe_tpm
  <2> QED
    BY <1>15, <1>a, <2>1 DEF board_wipe_tpm
<1>16. CASE WipeDone
  <2>1. pc'["CONSOLE"] = pc["CONSOLE"]
    BY <1>16, <1>0, GotoIs DEF WipeDone
  <2> QED
    BY <1>16, <1>a, <2>1 DEF WipeDone
<1>17. CASE RebootWaitDone
  <2>1. pc'["CONSOLE"] = pc["CONSOLE"]
    BY <1>17, <1>0, GotoIs DEF RebootWaitDone
  <2> QED
    BY <1>17, <1>a, <2>1 DEF RebootWaitDone
<1>18. CASE UsbCommand
  <2>1. pc'["CONSOLE"] = pc["CONSOLE"]
    BY <1>18, <1>0, GotoIs DEF UsbCommand
  <2> QED
    BY <1>18, <1>a, <2>1 DEF UsbCommand
<1>19. CASE UsbFwmp
  BY <1>19, <1>0 DEF UsbFwmp, At, RstSteps
<1>20. CASE tpm_rst_asserted
  <2>1. pc'["CONSOLE"] = pc["CONSOLE"]
    BY <1>20, <1>0, GotoIs DEF tpm_rst_asserted
  <2> QED
    BY <1>20, <1>a, <2>1 DEF tpm_rst_asserted
<1>21. CASE tpm_rst_deasserted
  <2>1. pc'["CONSOLE"] = pc["CONSOLE"]
    BY <1>21, <1>0, GotoIs DEF tpm_rst_deasserted
  <2> QED
    BY <1>21, <1>a, <2>1 DEF tpm_rst_deasserted
<1>22. CASE HostCommand
  <2>1. pc'["CONSOLE"] = pc["CONSOLE"]
    BY <1>22, <1>0, GotoIs DEF HostCommand
  <2> QED
    BY <1>22, <1>a, <2>1 DEF HostCommand
<1>23. CASE UsbPacket
  <2>1. pc'["CONSOLE"] = pc["CONSOLE"]
    BY <1>23, <1>0, GotoIs DEF UsbPacket
  <2> QED
    BY <1>23, <1>a, <2>1 DEF UsbPacket
<1>24. CASE ResetTimeout
  <2>1. pc'["CONSOLE"] = pc["CONSOLE"]
    BY <1>24, <1>0, GotoIs DEF ResetTimeout
  <2> QED
    BY <1>24, <1>a, <2>1 DEF ResetTimeout
<1>25. CASE UNCHANGED vars
  BY <1>25, <1>a DEF vars
<1> QED
  BY <1>1, <1>2, <1>3, <1>4, <1>5, <1>6, <1>7, <1>8, <1>9, <1>10, <1>11,
     <1>12, <1>13, <1>14, <1>15, <1>16, <1>17, <1>18, <1>19, <1>20,
     <1>21, <1>22, <1>23, <1>24, <1>25, <1>b, <1>c
  DEF Next, HooksTask, ConsoleTask, Environment, TpmReset_, Booted


\* Every step keeps the invariant of the first reset.
LEMMA StartStep ==
    ASSUME TypeOK, NoUsbInv, StartInv, [Next]_vars
    PROVE  StartInv'
<1> USE DEF Tasks
<1>0. /\ PcType(pc) /\ ifUp \in BOOLEAN /\ evt \in SUBSET TpmEvents
      /\ pc["HOOKS"] \notin {"usb_fwmp"} \cup RstSteps
      /\ pc["TPM"] = "preloop" =>
           /\ ~ifUp /\ "wake" \notin events
           /\ "wipe" \notin deferred /\ pc["HOOKS"] # "wait_wipe"
      /\ pc["TPM"] \in RstSteps /\ "reset" \notin evt => "wake" \notin evt
      /\ pc["TPM"] \in CmdSteps => evt \subseteq {"alt"}
  BY DEF TypeOK, NoUsbInv, StartInv
<1>a. ASSUME pc'["TPM"] # "preloop",
             pc'["TPM"] \in RstSteps /\ "reset" \notin evt' =>
                 "wake" \notin evt',
             pc'["TPM"] \in CmdSteps => evt' \subseteq {"alt"}
      PROVE  StartInv'
  BY <1>a DEF StartInv
<1>b. ASSUME TpmTask PROVE StartInv'
  <2>0. HooksStays
    BY <1>b, TpmOnly
  <2>1. CASE TpmPreloop
    <3>1. events' = {} /\ ifUp' = ifUp /\ deferred' = deferred
      BY <2>1 DEF TpmPreloop
    <3>2. CASE pc' = pc
      BY <2>1, <1>0, <2>0, <3>1, <3>2
      DEF HooksStays, TpmPreloop, At, StartInv, RstSteps, CmdSteps
    <3>3. CASE Goto("TPM", "rst_stop")
      <4>1. pc'["TPM"] = "rst_stop"
        BY <1>0, <3>3, GotoIs
      <4>2. "wake" \notin evt'
        BY <2>1, <1>0, <3>3, <4>1 DEF TpmPreloop, At
      <4> QED
        BY <4>1, <4>2 DEF StartInv, CmdSteps
    <3> QED
      BY <2>1, <3>2, <3>3 DEF TpmPreloop
  <2>2. CASE RstStop("TPM")
    <3>1. pc'["TPM"] = "rst_commit"
      BY <2>2, <1>0, GotoIs DEF RstStop, At
    <3> QED
      BY <2>2, <1>0, <1>a, <3>1 DEF RstStop, At, RstSteps, CmdSteps
  <2>3. CASE RstCommit("TPM")
    <3>1. pc'["TPM"] = "rst_disable"
      BY <2>3, <1>0, GotoIs DEF RstCommit, At
    <3> QED
      BY <2>3, <1>0, <1>a, <3>1 DEF RstCommit, At, RstSteps, CmdSteps
  <2>4. CASE RstDisable("TPM")
    <3>1. pc'["TPM"] = "rst_start"
      BY <2>4, <1>0, GotoIs DEF RstDisable, DisableAndInit, At
    <3> QED
      BY <2>4, <1>0, <1>a, <3>1 DEF RstDisable, DisableAndInit, At, RstSteps, CmdSteps
  <2>5. CASE RstStart("TPM")
    <3>1. pc'["TPM"] = "idle"
      BY <2>5, <1>0, GotoIs DEF RstStart, At
    <3> QED
      BY <2>5, <1>0, <1>a, <3>1 DEF RstStart, At, RstSteps, CmdSteps
  <2>6. CASE TpmTakeEvents
    <3>1. pc'["TPM"] = "idle"
      BY <2>6, <1>0, GotoIs DEF TpmTakeEvents, At
    <3> QED
      BY <2>6, <1>0, <1>a, <3>1 DEF TpmTakeEvents, At, RstSteps, CmdSteps
  <2>7. CASE TpmReset
    <3>1. pc'["TPM"] = "rst_stop"
      BY <2>7, <1>0, GotoIs DEF TpmReset, At
    <3> QED
      BY <2>7, <1>0, <1>a, <3>1 DEF TpmReset, At, RstSteps, CmdSteps
  <2>8. CASE TpmCommit
    <3>1. pc'["TPM"] = "idle"
      BY <2>8, <1>0, GotoIs DEF TpmCommit, At
    <3> QED
      BY <2>8, <1>0, <1>a, <3>1 DEF TpmCommit, At, RstSteps, CmdSteps
  <2>9. CASE TpmCommand
    <3>1. pc'["TPM"] \in {"cmd", "idle"}
      BY <2>9, <1>0, GotoIs DEF TpmCommand
    <3>2. evt' \subseteq {"alt"}
      BY <2>9, <1>0 DEF TpmCommand, TpmEvents
    <3> QED
      BY <1>a, <3>1, <3>2 DEF RstSteps, CmdSteps
  <2>10. CASE CmdKind
    <3>1. pc'["TPM"] \in {"cmd_nv", "cmd_fwmp"}
      BY <2>10, <1>0, GotoIs DEF CmdKind
    <3> QED
      BY <2>10, <1>0, <1>a, <3>1 DEF CmdKind, At, RstSteps, CmdSteps
  <2>11. CASE CmdCommitNvmem
    <3>1. pc'["TPM"] = "idle"
      BY <2>11, <1>0, GotoIs DEF CmdCommitNvmem, At
    <3> QED
      BY <2>11, <1>0, <1>a, <3>1 DEF CmdCommitNvmem, At, RstSteps, CmdSteps
  <2>12. CASE CmdRead
    <3>1. pc'["TPM"] = "cmd_next"
      BY <2>12, <1>0, GotoIs DEF CmdRead, At
    <3> QED
      BY <2>12, <1>0, <1>a, <3>1 DEF CmdRead, At, RstSteps, CmdSteps
  <2>13. CASE CmdWrite
    <3>1. pc'["TPM"] = "cmd_next"
      BY <2>13, <1>0, GotoIs DEF CmdWrite, At
    <3> QED
      BY <2>13, <1>0, <1>a, <3>1 DEF CmdWrite, At, RstSteps, CmdSteps
  <2>14. CASE CmdEnd
    <3>1. pc'["TPM"] = "idle"
      BY <2>14, <1>0, GotoIs DEF CmdEnd, At
    <3> QED
      BY <2>14, <1>0, <1>a, <3>1 DEF CmdEnd, At, RstSteps, CmdSteps
  <2>15. CASE CmdWipeLater
    <3>1. pc'["TPM"] = "idle"
      BY <2>15, <1>0, GotoIs DEF CmdWipeLater, At
    <3> QED
      BY <2>15, <1>0, <1>a, <3>1 DEF CmdWipeLater, At, RstSteps, CmdSteps
  <2>16. CASE CmdWipeNow
    <3>1. pc'["TPM"] = "rst_stop"
      BY <2>16, <1>0, GotoIs DEF CmdWipeNow, At
    <3> QED
      BY <2>16, <1>0, <1>a, <3>1 DEF CmdWipeNow, At, RstSteps, CmdSteps
  <2> QED
    BY <1>b, <2>1, <2>2, <2>3, <2>4, <2>5, <2>6, <2>7, <2>8, <2>9,
       <2>10, <2>11, <2>12, <2>13, <2>14, <2>15, <2>16
    DEF TpmTask, TpmReset_
<1>c. CASE Booted
  BY <1>c, BootState DEF StartInv, RstSteps, CmdSteps
\* Before the first reset the others neither start the interface nor ask for
\* a wipe.
<1>d. ASSUME ~TpmTask, ~Booted PROVE StartInv'
  <2>0. pc'["TPM"] = pc["TPM"] /\ evt' = evt
    BY <1>d, NotTpm DEF TpmStays
  <2>a. ASSUME ifUp' => ifUp,
               "wake" \in events' => "wake" \in events \/ ifUp,
               "wipe" \in deferred' => "wipe" \in deferred,
               \/ pc'["HOOKS"] # "wait_wipe" \/ pc["HOOKS"] = "wait_wipe"
               \/ "wipe" \in deferred
        PROVE  StartInv'
    BY <1>0, <2>0, <2>a DEF StartInv
  <2>1. CASE RstStop("HOOKS")
    BY <2>1, <1>0 DEF RstStop, At, RstSteps
  <2>2. CASE RstCommit("HOOKS")
    BY <2>2, <1>0 DEF RstCommit, At, RstSteps
  <2>3. CASE RstDisable("HOOKS")
    BY <2>3, <1>0 DEF RstDisable, DisableAndInit, At, RstSteps
  <2>4. CASE RstStart("HOOKS")
    BY <2>4, <1>0 DEF RstStart, At, RstSteps
  <2>5. CASE reinstate_nvmem_commits
    <3>1. pc'["HOOKS"] # "wait_wipe" \/ pc["HOOKS"] = "wait_wipe"
      BY <2>5, <1>0, GotoIs DEF reinstate_nvmem_commits
    <3> QED
      BY <2>5, <1>0, <2>a, <3>1 DEF reinstate_nvmem_commits
  <2>6. CASE deferred_set_ap_off
    <3>1. pc'["HOOKS"] # "wait_wipe" \/ pc["HOOKS"] = "wait_wipe"
      BY <2>6, <1>0, GotoIs DEF deferred_set_ap_off
    <3> QED
      BY <2>6, <1>0, <2>a, <3>1 DEF deferred_set_ap_off
  <2>7. CASE deferred_tpm_rst_isr
    <3>1. pc'["HOOKS"] # "wait_wipe" \/ pc["HOOKS"] = "wait_wipe"
      BY <2>7, <1>0, GotoIs DEF deferred_tpm_rst_isr
    <3> QED
      BY <2>7, <1>0, <2>a, <3>1 DEF deferred_tpm_rst_isr, tpm_reset_request
  <2>8. CASE deferred_tpm_rst_isr_reboot
    <3>1. pc'["HOOKS"] # "wait_wipe" \/ pc["HOOKS"] = "wait_wipe"
      <4>1. CASE Goto("HOOKS", "system_reset")
        BY <4>1, <1>0, GotoIs
      <4>2. CASE Goto("HOOKS", "wait_reboot")
        BY <4>2, <1>0, GotoIs
      <4> QED
        BY <2>8, <4>1, <4>2 DEF deferred_tpm_rst_isr_reboot
    <3> QED
      BY <2>8, <1>0, <2>a, <3>1 DEF deferred_tpm_rst_isr_reboot, tpm_reset_request
  <2>9. CASE board_wipe_tpm
    BY <2>9, <2>a DEF board_wipe_tpm, Runs, tpm_reset_request
  <2>10. CASE WipeDone
    <3>1. pc'["HOOKS"] # "wait_wipe" \/ pc["HOOKS"] = "wait_wipe"
      BY <2>10, <1>0, GotoIs DEF WipeDone
    <3> QED
      BY <2>10, <1>0, <2>a, <3>1 DEF WipeDone
  <2>11. CASE board_fwmp_update_policies
    <3>1. pc'["HOOKS"] # "wait_wipe" \/ pc["HOOKS"] = "wait_wipe"
      BY <2>11, <1>0, GotoIs DEF board_fwmp_update_policies
    <3> QED
      BY <2>11, <1>0, <2>a, <3>1 DEF board_fwmp_update_policies
  <2>12. CASE RebootWaitDone
    <3>1. pc'["HOOKS"] # "wait_wipe" \/ pc["HOOKS"] = "wait_wipe"
      BY <2>12, <1>0, GotoIs DEF RebootWaitDone
    <3> QED
      BY <2>12, <1>0, <2>a, <3>1 DEF RebootWaitDone
  <2>13. CASE UsbCommand
    <3>1. pc'["HOOKS"] # "wait_wipe" \/ pc["HOOKS"] = "wait_wipe"
      BY <2>13, <1>0, GotoIs DEF UsbCommand
    <3> QED
      BY <2>13, <1>0, <2>a, <3>1 DEF UsbCommand
  <2>14. CASE UsbFwmp
    BY <2>14, <1>0 DEF UsbFwmp, At, RstSteps
  <2>15. CASE DumpStart
    <3>1. pc'["HOOKS"] # "wait_wipe" \/ pc["HOOKS"] = "wait_wipe"
      BY <2>15, <1>0, GotoIs DEF DumpStart
    <3> QED
      BY <2>15, <1>0, <2>a, <3>1 DEF DumpStart
  <2>16. CASE DumpEnd
    <3>1. pc'["HOOKS"] # "wait_wipe" \/ pc["HOOKS"] = "wait_wipe"
      BY <2>16, <1>0, GotoIs DEF DumpEnd
    <3> QED
      BY <2>16, <1>0, <2>a, <3>1 DEF DumpEnd
  <2>17. CASE EfsWrite
    <3>1. pc'["HOOKS"] # "wait_wipe" \/ pc["HOOKS"] = "wait_wipe"
      BY <2>17, <1>0, GotoIs DEF EfsWrite
    <3> QED
      BY <2>17, <1>0, <2>a, <3>1 DEF EfsWrite
  <2>18. CASE EfsUnlock
    <3>1. pc'["HOOKS"] # "wait_wipe" \/ pc["HOOKS"] = "wait_wipe"
      BY <2>18, <1>0, GotoIs DEF EfsUnlock
    <3> QED
      BY <2>18, <1>0, <2>a, <3>1 DEF EfsUnlock
  <2>19. CASE AltPoll
    <3>1. pc'["HOOKS"] # "wait_wipe" \/ pc["HOOKS"] = "wait_wipe"
      BY <2>19, <1>0, GotoIs DEF AltPoll
    <3> QED
      BY <2>19, <1>0, <2>a, <3>1 DEF AltPoll
  <2>20. CASE ConsoleInput
    <3>1. pc'["HOOKS"] # "wait_wipe" \/ pc["HOOKS"] = "wait_wipe"
      BY <2>20, <1>0, GotoIs DEF ConsoleInput
    <3> QED
      BY <2>20, <1>0, <2>a, <3>1 DEF ConsoleInput
  <2>21. CASE tpm_alt_extension
    <3>1. pc'["HOOKS"] # "wait_wipe" \/ pc["HOOKS"] = "wait_wipe"
      BY <2>21, <1>0, GotoIs DEF tpm_alt_extension
    <3> QED
      BY <2>21, <1>0, <2>a, <3>1 DEF tpm_alt_extension
  <2>22. CASE tpm_rst_asserted
    <3>1. pc'["HOOKS"] # "wait_wipe" \/ pc["HOOKS"] = "wait_wipe"
      BY <2>22, <1>0, GotoIs DEF tpm_rst_asserted
    <3> QED
      BY <2>22, <1>0, <2>a, <3>1 DEF tpm_rst_asserted
  <2>23. CASE tpm_rst_deasserted
    <3>1. PICK d \in {"tpm_rst", "reboot"} : deferred' = deferred \cup {d}
      BY <2>23 DEF tpm_rst_deasserted
    <3> QED
      BY <2>23, <2>a, <3>1 DEF tpm_rst_deasserted
  <2>24. CASE HostCommand
    <3>1. pc'["HOOKS"] # "wait_wipe" \/ pc["HOOKS"] = "wait_wipe"
      BY <2>24, <1>0, GotoIs DEF HostCommand
    <3> QED
      BY <2>24, <1>0, <2>a, <3>1 DEF HostCommand
  <2>25. CASE UsbPacket
    <3>1. pc'["HOOKS"] # "wait_wipe" \/ pc["HOOKS"] = "wait_wipe"
      BY <2>25, <1>0, GotoIs DEF UsbPacket
    <3> QED
      BY <2>25, <1>0, <2>a, <3>1 DEF UsbPacket
  <2>26. CASE ResetTimeout
    <3>1. pc'["HOOKS"] # "wait_wipe" \/ pc["HOOKS"] = "wait_wipe"
      BY <2>26, <1>0, GotoIs DEF ResetTimeout
    <3> QED
      BY <2>26, <1>0, <2>a, <3>1 DEF ResetTimeout
  <2>27. CASE UNCHANGED vars
    BY <2>27, <2>a DEF vars
  <2> QED
    BY <1>d, <2>1, <2>2, <2>3, <2>4, <2>5, <2>6, <2>7, <2>8, <2>9,
       <2>10, <2>11, <2>12, <2>13, <2>14, <2>15, <2>16, <2>17, <2>18,
       <2>19, <2>20, <2>21, <2>22, <2>23, <2>24, <2>25, <2>26, <2>27
    DEF Next, HooksTask, ConsoleTask, Environment, TpmReset_, Booted
<1> QED
  BY <1>b, <1>c, <1>d

\* Every step keeps the invariant of the wipe.
LEMMA WipeStep ==
    ASSUME TypeOK, WaitInv, AltInv, NoUsbInv, HolderInv, StartInv, WipeInv,
           [Next]_vars
    PROVE  WipeInv'
<1> USE DEF Tasks
<1> DEFINE Doing == pc["TPM"] = "rst_stop" /\ wipeFirst["TPM"]
           Asked ==
             /\ req.wipe_requested
             /\ pc["TPM"] \in {"idle", "rst_disable", "rst_start"} \cup CmdSteps
             /\ \/ "reset" \in events
                \/ pc["TPM"] = "idle" /\ "reset" \in evt
             /\ hooksEvent =>
                  /\ pc["TPM"] # "rst_disable"
                  /\ "wake" \in evt => "reset" \in evt
                  /\ pc["TPM"] \in CmdSteps => alt = "running"
<1>0. /\ PcType(pc) /\ ReqType(req) /\ HistType(hist) /\ NvType(nv)
      /\ hooksEvent \in BOOLEAN /\ wipeFirst \in [Tasks -> BOOLEAN]
      /\ pc["HOOKS"] \notin {"usb_fwmp"} \cup RstSteps
      /\ pc["HOOKS"] = "wait_wipe" /\ ~hist.wiped => Doing \/ Asked
      /\ pc["HOOKS"] = "fwmp" => hist.wiped
      /\ pc["TPM"] \in RstSteps /\ "reset" \notin evt => "wake" \notin evt
      /\ pc["TPM"] \in CmdSteps => evt \subseteq {"alt"}
      /\ alt # "done" => pc["CONSOLE"] = "alt_wait"
  BY DEF TypeOK, NoUsbInv, StartInv, WipeInv, AltInv
<1>a. ASSUME hist.wiped => hist'.wiped,
             pc'["HOOKS"] = "wait_wipe" => pc["HOOKS"] = "wait_wipe",
             pc'["HOOKS"] = "fwmp" => pc["HOOKS"] = "fwmp",
             ~hist'.wiped /\ (Doing \/ Asked) => Doing' \/ Asked'
      PROVE  WipeInv'
  BY <1>0, <1>a DEF WipeInv
\* The TPM task comes to the wipe.
<1>b. ASSUME TpmTask PROVE WipeInv'
  <2>0. pc'["HOOKS"] = pc["HOOKS"]
    BY <1>b, TpmOnly DEF HooksStays
  <2>a. ASSUME hist' = hist, Doing \/ Asked => Doing' \/ Asked' PROVE WipeInv'
    BY <1>a, <2>0, <2>a
  <2>1. CASE RstStop("TPM")
    <3>1. pc["TPM"] = "rst_stop"
      BY <2>1 DEF RstStop, At
    <3>2. CASE wipeFirst["TPM"]
      <4>1. hist'.wiped
        BY <2>1, <1>0, <3>2 DEF RstStop, HistType
      <4> QED
        BY <1>a, <2>0, <4>1
    <3>3. CASE ~wipeFirst["TPM"]
      <4>1. hist' = hist
        BY <2>1, <3>3 DEF RstStop
      <4>2. ~Doing /\ ~Asked
        BY <3>1, <3>3 DEF CmdSteps
      <4> QED
        BY <2>a, <4>1, <4>2
    <3> QED
      BY <3>2, <3>3
  <2>2. CASE RstCommit("TPM")
    <3>1. hist' = hist /\ pc["TPM"] \in {"rst_commit", "preloop"}
      BY <2>2 DEF RstCommit, At
    <3>2. ~Doing /\ ~Asked
      BY <3>1 DEF CmdSteps
    <3> QED
      BY <2>a, <3>1, <3>2
  <2>3. CASE RstDisable("TPM")
    <3>1. /\ hist' = hist /\ pc["TPM"] = "rst_disable"
          /\ evt' = evt /\ events' = events
      BY <2>3 DEF RstDisable, DisableAndInit, At
    <3>2. pc'["TPM"] = "rst_start"
      BY <2>3, <1>0, GotoIs DEF RstDisable, DisableAndInit
    <3>3. req'.wipe_requested = req.wipe_requested
      BY <2>3, <1>0 DEF RstDisable, DisableAndInit, ReqType
    <3>4. "wake" \in evt => "reset" \in evt
      BY <1>0, <3>1 DEF RstSteps
    <3>5. Asked => Asked'
      BY <3>1, <3>2, <3>3, <3>4 DEF CmdSteps
    <3>6. ~Doing
      BY <3>1
    <3> QED
      BY <2>a, <3>1, <3>5, <3>6
  <2>4. CASE RstStart("TPM")
    <3>1. /\ hist' = hist /\ req' = req /\ hooksEvent' = hooksEvent
          /\ pc["TPM"] = "rst_start" /\ events' = events
      BY <2>4 DEF RstStart, At
    <3>2. pc'["TPM"] = "idle"
      BY <2>4, <1>0, GotoIs DEF RstStart
    <3>3. "wake" \in evt' => "reset" \in evt'
      BY <2>4, <1>0, <3>1 DEF RstStart, RstSteps
    <3>4. Asked => Asked'
      BY <3>1, <3>2, <3>3 DEF CmdSteps
    <3>5. ~Doing
      BY <3>1
    <3> QED
      BY <2>a, <3>1, <3>4, <3>5
  <2>5. CASE TpmPreloop
    <3>1. hist' = hist /\ pc["TPM"] \in {"rst_commit", "preloop"}
      BY <2>5 DEF TpmPreloop, At
    <3>2. ~Doing /\ ~Asked
      BY <3>1 DEF CmdSteps
    <3> QED
      BY <2>a, <3>1, <3>2
  <2>6. CASE TpmTakeEvents
    <3>1. /\ hist' = hist /\ req' = req /\ pc' = pc /\ hooksEvent' = hooksEvent
          /\ pc["TPM"] = "idle" /\ evt = {} /\ evt' = events
      BY <2>6 DEF TpmTakeEvents, At
    <3>2. Asked => Asked'
      BY <3>1 DEF CmdSteps
    <3> QED
      BY <2>a, <3>1, <3>2
  <2>7. CASE TpmReset
    <3>1. hist' = hist /\ pc["TPM"] = "idle"
      BY <2>7 DEF TpmReset, At
    <3>2. pc'["TPM"] = "rst_stop"
      BY <2>7, <1>0, GotoIs DEF TpmReset
    <3>3. req.wipe_requested => wipeFirst'["TPM"]
      BY <2>7, <1>0 DEF TpmReset
    <3> QED
      BY <2>a, <3>1, <3>2, <3>3
  <2>8. CASE TpmCommit
    <3>1. /\ hist' = hist /\ req' = req /\ pc' = pc /\ hooksEvent' = hooksEvent
          /\ pc["TPM"] = "idle" /\ events' = events /\ alt' = alt
          /\ "reset" \notin evt /\ evt' = evt \ {"commit"}
      BY <2>8 DEF TpmCommit, At
    <3>2. Asked => Asked'
      BY <3>1 DEF CmdSteps
    <3> QED
      BY <2>a, <3>1, <3>2
  <2>9. CASE TpmCommand
    <3>1. /\ hist' = hist /\ hooksEvent' = hooksEvent /\ events' = events
          /\ pc["TPM"] = "idle" /\ "reset" \notin evt
      BY <2>9 DEF TpmCommand, At
    <3>2. req'.wipe_requested = req.wipe_requested
      BY <2>9, <1>0 DEF TpmCommand, ReqType
    <3>3. pc'["TPM"] \in {"cmd", "idle"}
      BY <2>9, <1>0, GotoIs DEF TpmCommand
    <3>4. "wake" \notin evt => alt' = "running" /\ evt' = {}
      BY <2>9 DEF TpmCommand
    <3>5. Asked => Asked'
      BY <3>1, <3>2, <3>3, <3>4 DEF CmdSteps
    <3> QED
      BY <2>a, <3>1, <3>5
  <2>10. CASE CmdKind
    <3>1. /\ req' = req /\ hooksEvent' = hooksEvent /\ events' = events
          /\ evt' = evt /\ pc["TPM"] \in CmdSteps
      BY <2>10 DEF CmdKind, At, CmdSteps
    <3>2. pc'["TPM"] \in {"cmd_nv", "cmd_fwmp"} /\ alt' = alt
      BY <2>10, <1>0, GotoIs DEF CmdKind
    <3>3. hist'.wiped = hist.wiped
      BY <2>10, <1>0 DEF CmdKind
    <3>4. Asked => Asked'
      BY <1>0, <3>1, <3>2 DEF CmdSteps
    <3> QED
      BY <1>a, <2>0, <3>1, <3>3, <3>4 DEF CmdSteps
  <2>11. CASE CmdCommitNvmem
    <3>1. /\ req' = req /\ hooksEvent' = hooksEvent /\ events' = events
          /\ evt' = evt /\ pc["TPM"] \in CmdSteps
      BY <2>11 DEF CmdCommitNvmem, At, CmdSteps
    <3>2. pc'["TPM"] \in {"idle"}
      BY <2>11, <1>0, GotoIs DEF CmdCommitNvmem
    <3>3. hist'.wiped = hist.wiped
      BY <2>11, <1>0 DEF CmdCommitNvmem
    <3>4. Asked => Asked'
      BY <1>0, <3>1, <3>2 DEF CmdSteps
    <3> QED
      BY <1>a, <2>0, <3>1, <3>3, <3>4 DEF CmdSteps
  <2>12. CASE CmdRead
    <3>1. /\ req' = req /\ hooksEvent' = hooksEvent /\ events' = events
          /\ evt' = evt /\ pc["TPM"] \in CmdSteps
      BY <2>12 DEF CmdRead, At, CmdSteps
    <3>2. pc'["TPM"] \in {"cmd_next"} /\ alt' = alt
      BY <2>12, <1>0, GotoIs DEF CmdRead
    <3>3. hist'.wiped = hist.wiped
      BY <2>12, <1>0 DEF CmdRead
    <3>4. Asked => Asked'
      BY <1>0, <3>1, <3>2 DEF CmdSteps
    <3> QED
      BY <1>a, <2>0, <3>1, <3>3, <3>4 DEF CmdSteps
  <2>13. CASE CmdWrite
    <3>1. /\ req' = req /\ hooksEvent' = hooksEvent /\ events' = events
          /\ evt' = evt /\ pc["TPM"] \in CmdSteps
      BY <2>13 DEF CmdWrite, At, CmdSteps
    <3>2. pc'["TPM"] \in {"cmd_next"} /\ alt' = alt
      BY <2>13, <1>0, GotoIs DEF CmdWrite
    <3>3. hist'.wiped = hist.wiped
      BY <2>13, <1>0 DEF CmdWrite, HistType
    <3>4. Asked => Asked'
      BY <1>0, <3>1, <3>2 DEF CmdSteps
    <3> QED
      BY <1>a, <2>0, <3>1, <3>3, <3>4 DEF CmdSteps
  <2>14. CASE CmdEnd
    <3>1. /\ req' = req /\ hooksEvent' = hooksEvent /\ events' = events
          /\ evt' = evt /\ pc["TPM"] \in CmdSteps
      BY <2>14 DEF CmdEnd, At, CmdSteps
    <3>2. pc'["TPM"] \in {"idle"}
      BY <2>14, <1>0, GotoIs DEF CmdEnd
    <3>3. hist'.wiped = hist.wiped
      BY <2>14, <1>0 DEF CmdEnd
    <3>4. Asked => Asked'
      BY <1>0, <3>1, <3>2 DEF CmdSteps
    <3> QED
      BY <1>a, <2>0, <3>1, <3>3, <3>4 DEF CmdSteps
  <2>15. CASE CmdWipeLater
    <3>1. /\ req' = req /\ hooksEvent' = hooksEvent /\ events' = events
          /\ evt' = evt /\ pc["TPM"] \in CmdSteps
      BY <2>15 DEF CmdWipeLater, At, CmdSteps
    <3>2. pc'["TPM"] \in {"idle"}
      BY <2>15, <1>0, GotoIs DEF CmdWipeLater
    <3>3. hist'.wiped = hist.wiped
      BY <2>15, <1>0 DEF CmdWipeLater
    <3>4. Asked => Asked'
      BY <1>0, <3>1, <3>2 DEF CmdSteps
    <3> QED
      BY <1>a, <2>0, <3>1, <3>3, <3>4 DEF CmdSteps
  <2>16. CASE CmdWipeNow
    <3>1. hist' = hist
      BY <2>16 DEF CmdWipeNow
    <3>2. pc'["TPM"] = "rst_stop"
      BY <2>16, <1>0, GotoIs DEF CmdWipeNow
    <3>3. wipeFirst'["TPM"]
      BY <2>16, <1>0 DEF CmdWipeNow
    <3> QED
      BY <2>a, <3>1, <3>2, <3>3
  <2> QED
    BY <1>b, <2>1, <2>2, <2>3, <2>4, <2>5, <2>6, <2>7, <2>8, <2>9,
       <2>10, <2>11, <2>12, <2>13, <2>14, <2>15, <2>16
    DEF TpmTask, TpmReset_
<1>c. CASE Booted
  BY <1>c, BootState DEF WipeInv
\* The request.
<1>d. CASE board_wipe_tpm
  <2>1. /\ MayRun("HOOKS") /\ pc["HOOKS"] = "loop" /\ "wipe" \in deferred
        /\ evt' = evt /\ hooksEvent' = hooksEvent /\ alt' = alt
    BY <1>d DEF board_wipe_tpm, Runs, At
  <2>2. CASE req.in_progress
    <3>1. pc'["HOOKS"] = "system_reset"
      BY <1>0, <1>d, <2>2, GotoIs DEF board_wipe_tpm, tpm_reset_request
    <3> QED
      BY <3>1 DEF WipeInv
  <2>3. CASE ~req.in_progress
    <3>1. pc'["HOOKS"] = "wait_wipe" /\ pc'["TPM"] = pc["TPM"]
      BY <1>0, <1>d, <2>3, GotoIs DEF board_wipe_tpm
    <3>2. "reset" \in events' /\ req'.wipe_requested
      BY <1>0, <1>d, <2>3 DEF board_wipe_tpm, tpm_reset_request, ReqType
    <3>3. ~hooksEvent
      BY <2>1 DEF WaitInv
    <3>4. pc["TPM"] \in {"idle", "cmd_nv", "cmd_fwmp", "rst_disable"}
      BY <1>0, <2>1, HooksRuns DEF StartInv
    <3> QED
      BY <2>1, <3>1, <3>2, <3>3, <3>4 DEF WipeInv, CmdSteps
  <2> QED
    BY <2>2, <2>3
\* The HOOKS task goes on: the TPM task has stopped, and not before the wipe.
<1>e. CASE WipeDone
  <2>1. /\ MayRun("HOOKS") /\ pc["HOOKS"] = "wait_wipe" /\ hooksEvent
        /\ hist' = hist
    BY <1>e DEF WipeDone, At
  <2>2. ~Doing
    BY <1>0, <2>1, HooksRuns
  <2>3. ~Asked
    <3> SUFFICES ASSUME Asked PROVE FALSE
      OBVIOUS
    <3>1. pc["TPM"] \in {"cmd_nv", "cmd_fwmp"} /\ nv.task \notin {"TPM", NoTask}
      BY <1>0, <2>1, HooksRuns
    <3>2. pc["CONSOLE"] = "alt_wait"
      BY <1>0, <2>1, <3>1 DEF CmdSteps
    <3> QED
      BY <1>0, <3>1, <3>2 DEF HolderInv, NvType
  <2>4. hist.wiped
    BY <1>0, <2>1, <2>2, <2>3
  <2> QED
    BY <2>1, <2>4 DEF WipeInv
\* The others leave the request alone.
<1>f. ASSUME ~TpmTask, ~Booted PROVE WipeInv'
  <2>0. TpmStays
    BY <1>f, NotTpm
  <2>a. ASSUME hist'.wiped = hist.wiped, hooksEvent' => hooksEvent,
               req.wipe_requested => req'.wipe_requested,
               alt = "running" => alt' = "running",
               \/ pc'["HOOKS"] = pc["HOOKS"]
               \/ pc'["HOOKS"] \notin {"wait_wipe", "fwmp"}
        PROVE  WipeInv'
    <3>1. Doing => Doing'
      BY <2>0 DEF TpmStays
    <3>2. Asked => Asked'
      BY <2>0, <2>a DEF TpmStays
    <3> QED
      BY <1>a, <2>a, <3>1, <3>2
  <2>1. CASE RstStop("HOOKS")
    BY <2>1, <1>0 DEF RstStop, At, RstSteps
  <2>2. CASE RstCommit("HOOKS")
    BY <2>2, <1>0 DEF RstCommit, At, RstSteps
  <2>3. CASE RstDisable("HOOKS")
    BY <2>3, <1>0 DEF RstDisable, DisableAndInit, At, RstSteps
  <2>4. CASE RstStart("HOOKS")
    BY <2>4, <1>0 DEF RstStart, At, RstSteps
  <2>5. CASE reinstate_nvmem_commits
    <3>1. \/ pc'["HOOKS"] = pc["HOOKS"]
          \/ pc'["HOOKS"] \notin {"wait_wipe", "fwmp"}
      BY <2>5, <1>0, GotoIs DEF reinstate_nvmem_commits
    <3>2. req.wipe_requested => req'.wipe_requested
      BY <2>5, <1>0 DEF reinstate_nvmem_commits
    <3>3. hist'.wiped = hist.wiped /\ (hooksEvent' => hooksEvent)
      BY <2>5, <1>0 DEF reinstate_nvmem_commits
    <3>4. alt = "running" => alt' = "running"
      BY <2>5, <1>0 DEF reinstate_nvmem_commits
    <3> QED
      BY <2>a, <3>1, <3>2, <3>3, <3>4
  <2>6. CASE deferred_set_ap_off
    <3>1. \/ pc'["HOOKS"] = pc["HOOKS"]
          \/ pc'["HOOKS"] \notin {"wait_wipe", "fwmp"}
      BY <2>6, <1>0, GotoIs DEF deferred_set_ap_off
    <3>2. req.wipe_requested => req'.wipe_requested
      BY <2>6, <1>0 DEF deferred_set_ap_off
    <3>3. hist'.wiped = hist.wiped /\ (hooksEvent' => hooksEvent)
      BY <2>6, <1>0 DEF deferred_set_ap_off
    <3>4. alt = "running" => alt' = "running"
      BY <2>6, <1>0 DEF deferred_set_ap_off
    <3> QED
      BY <2>a, <3>1, <3>2, <3>3, <3>4
  <2>7. CASE deferred_tpm_rst_isr
    <3>1. \/ pc'["HOOKS"] = pc["HOOKS"]
          \/ pc'["HOOKS"] \notin {"wait_wipe", "fwmp"}
      BY <2>7, <1>0, GotoIs DEF deferred_tpm_rst_isr
    <3>2. req.wipe_requested => req'.wipe_requested
      BY <2>7, <1>0 DEF deferred_tpm_rst_isr, tpm_reset_request, ReqType
    <3>3. hist'.wiped = hist.wiped /\ (hooksEvent' => hooksEvent)
      BY <2>7, <1>0 DEF deferred_tpm_rst_isr
    <3>4. alt = "running" => alt' = "running"
      BY <2>7, <1>0 DEF deferred_tpm_rst_isr
    <3> QED
      BY <2>a, <3>1, <3>2, <3>3, <3>4
  <2>8. CASE deferred_tpm_rst_isr_reboot
    <3>0. Goto("HOOKS", "system_reset") \/ Goto("HOOKS", "wait_reboot")
      BY <2>8 DEF deferred_tpm_rst_isr_reboot
    <3>1. pc'["HOOKS"] \notin {"wait_wipe", "fwmp"}
      BY <1>0, <3>0, GotoIs
    <3>2. req.wipe_requested => req'.wipe_requested
      BY <2>8, <1>0 DEF deferred_tpm_rst_isr_reboot, tpm_reset_request, ReqType
    <3>3. hist'.wiped = hist.wiped /\ (hooksEvent' => hooksEvent)
      BY <2>8, <1>0 DEF deferred_tpm_rst_isr_reboot, HistType
    <3>4. alt = "running" => alt' = "running"
      BY <2>8, <1>0 DEF deferred_tpm_rst_isr_reboot
    <3> QED
      BY <2>a, <3>1, <3>2, <3>3, <3>4
  <2>9. CASE board_fwmp_update_policies
    <3>1. \/ pc'["HOOKS"] = pc["HOOKS"]
          \/ pc'["HOOKS"] \notin {"wait_wipe", "fwmp"}
      BY <2>9, <1>0, GotoIs DEF board_fwmp_update_policies
    <3>2. req.wipe_requested => req'.wipe_requested
      BY <2>9, <1>0 DEF board_fwmp_update_policies
    <3>3. hist'.wiped = hist.wiped /\ (hooksEvent' => hooksEvent)
      BY <2>9, <1>0 DEF board_fwmp_update_policies
    <3>4. alt = "running" => alt' = "running"
      BY <2>9, <1>0 DEF board_fwmp_update_policies
    <3> QED
      BY <2>a, <3>1, <3>2, <3>3, <3>4
  <2>10. CASE RebootWaitDone
    <3>1. \/ pc'["HOOKS"] = pc["HOOKS"]
          \/ pc'["HOOKS"] \notin {"wait_wipe", "fwmp"}
      BY <2>10, <1>0, GotoIs DEF RebootWaitDone
    <3>2. req.wipe_requested => req'.wipe_requested
      BY <2>10, <1>0 DEF RebootWaitDone
    <3>3. hist'.wiped = hist.wiped /\ (hooksEvent' => hooksEvent)
      BY <2>10, <1>0 DEF RebootWaitDone
    <3>4. alt = "running" => alt' = "running"
      BY <2>10, <1>0 DEF RebootWaitDone
    <3> QED
      BY <2>a, <3>1, <3>2, <3>3, <3>4
  <2>11. CASE UsbCommand
    <3>1. \/ pc'["HOOKS"] = pc["HOOKS"]
          \/ pc'["HOOKS"] \notin {"wait_wipe", "fwmp"}
      BY <2>11, <1>0, GotoIs DEF UsbCommand
    <3>2. req.wipe_requested => req'.wipe_requested
      BY <2>11, <1>0 DEF UsbCommand
    <3>3. hist'.wiped = hist.wiped /\ (hooksEvent' => hooksEvent)
      BY <2>11, <1>0 DEF UsbCommand
    <3>4. alt = "running" => alt' = "running"
      BY <2>11, <1>0 DEF UsbCommand
    <3> QED
      BY <2>a, <3>1, <3>2, <3>3, <3>4
  <2>12. CASE UsbFwmp
    BY <2>12, <1>0 DEF UsbFwmp, At, RstSteps
  <2>13. CASE DumpStart
    <3>1. \/ pc'["HOOKS"] = pc["HOOKS"]
          \/ pc'["HOOKS"] \notin {"wait_wipe", "fwmp"}
      BY <2>13, <1>0, GotoIs DEF DumpStart
    <3>2. req.wipe_requested => req'.wipe_requested
      BY <2>13, <1>0 DEF DumpStart
    <3>3. hist'.wiped = hist.wiped /\ (hooksEvent' => hooksEvent)
      BY <2>13, <1>0 DEF DumpStart
    <3>4. alt = "running" => alt' = "running"
      BY <2>13, <1>0 DEF DumpStart
    <3> QED
      BY <2>a, <3>1, <3>2, <3>3, <3>4
  <2>14. CASE DumpEnd
    <3>1. \/ pc'["HOOKS"] = pc["HOOKS"]
          \/ pc'["HOOKS"] \notin {"wait_wipe", "fwmp"}
      BY <2>14, <1>0, GotoIs DEF DumpEnd
    <3>2. req.wipe_requested => req'.wipe_requested
      BY <2>14, <1>0 DEF DumpEnd
    <3>3. hist'.wiped = hist.wiped /\ (hooksEvent' => hooksEvent)
      BY <2>14, <1>0 DEF DumpEnd
    <3>4. alt = "running" => alt' = "running"
      BY <2>14, <1>0 DEF DumpEnd
    <3> QED
      BY <2>a, <3>1, <3>2, <3>3, <3>4
  <2>15. CASE EfsWrite
    <3>1. \/ pc'["HOOKS"] = pc["HOOKS"]
          \/ pc'["HOOKS"] \notin {"wait_wipe", "fwmp"}
      BY <2>15, <1>0, GotoIs DEF EfsWrite
    <3>2. req.wipe_requested => req'.wipe_requested
      BY <2>15, <1>0 DEF EfsWrite
    <3>3. hist'.wiped = hist.wiped /\ (hooksEvent' => hooksEvent)
      BY <2>15, <1>0 DEF EfsWrite
    <3>4. alt = "running" => alt' = "running"
      BY <2>15, <1>0 DEF EfsWrite
    <3> QED
      BY <2>a, <3>1, <3>2, <3>3, <3>4
  <2>16. CASE EfsUnlock
    <3>1. \/ pc'["HOOKS"] = pc["HOOKS"]
          \/ pc'["HOOKS"] \notin {"wait_wipe", "fwmp"}
      BY <2>16, <1>0, GotoIs DEF EfsUnlock
    <3>2. req.wipe_requested => req'.wipe_requested
      BY <2>16, <1>0 DEF EfsUnlock
    <3>3. hist'.wiped = hist.wiped /\ (hooksEvent' => hooksEvent)
      BY <2>16, <1>0 DEF EfsUnlock
    <3>4. alt = "running" => alt' = "running"
      BY <2>16, <1>0 DEF EfsUnlock
    <3> QED
      BY <2>a, <3>1, <3>2, <3>3, <3>4
  <2>17. CASE AltPoll
    <3>1. \/ pc'["HOOKS"] = pc["HOOKS"]
          \/ pc'["HOOKS"] \notin {"wait_wipe", "fwmp"}
      BY <2>17, <1>0, GotoIs DEF AltPoll
    <3>2. req.wipe_requested => req'.wipe_requested
      BY <2>17, <1>0 DEF AltPoll
    <3>3. hist'.wiped = hist.wiped /\ (hooksEvent' => hooksEvent)
      BY <2>17, <1>0 DEF AltPoll
    <3>4. alt = "running" => alt' = "running"
      BY <2>17, <1>0 DEF AltPoll, At
    <3> QED
      BY <2>a, <3>1, <3>2, <3>3, <3>4
  <2>18. CASE ConsoleInput
    <3>1. \/ pc'["HOOKS"] = pc["HOOKS"]
          \/ pc'["HOOKS"] \notin {"wait_wipe", "fwmp"}
      BY <2>18, <1>0, GotoIs DEF ConsoleInput
    <3>2. req.wipe_requested => req'.wipe_requested
      BY <2>18, <1>0 DEF ConsoleInput
    <3>3. hist'.wiped = hist.wiped /\ (hooksEvent' => hooksEvent)
      BY <2>18, <1>0 DEF ConsoleInput
    <3>4. alt = "running" => alt' = "running"
      BY <2>18, <1>0 DEF ConsoleInput
    <3> QED
      BY <2>a, <3>1, <3>2, <3>3, <3>4
  <2>19. CASE tpm_alt_extension
    <3>1. \/ pc'["HOOKS"] = pc["HOOKS"]
          \/ pc'["HOOKS"] \notin {"wait_wipe", "fwmp"}
      BY <2>19, <1>0, GotoIs DEF tpm_alt_extension
    <3>2. req.wipe_requested => req'.wipe_requested
      BY <2>19, <1>0 DEF tpm_alt_extension
    <3>3. hist'.wiped = hist.wiped /\ (hooksEvent' => hooksEvent)
      BY <2>19, <1>0 DEF tpm_alt_extension
    <3>4. alt = "running" => alt' = "running"
      BY <2>19, <1>0 DEF tpm_alt_extension, At
    <3> QED
      BY <2>a, <3>1, <3>2, <3>3, <3>4
  <2>20. CASE tpm_rst_asserted
    <3>1. \/ pc'["HOOKS"] = pc["HOOKS"]
          \/ pc'["HOOKS"] \notin {"wait_wipe", "fwmp"}
      BY <2>20, <1>0, GotoIs DEF tpm_rst_asserted
    <3>2. req.wipe_requested => req'.wipe_requested
      BY <2>20, <1>0 DEF tpm_rst_asserted
    <3>3. hist'.wiped = hist.wiped /\ (hooksEvent' => hooksEvent)
      BY <2>20, <1>0 DEF tpm_rst_asserted
    <3>4. alt = "running" => alt' = "running"
      BY <2>20, <1>0 DEF tpm_rst_asserted
    <3> QED
      BY <2>a, <3>1, <3>2, <3>3, <3>4
  <2>21. CASE tpm_rst_deasserted
    <3>1. \/ pc'["HOOKS"] = pc["HOOKS"]
          \/ pc'["HOOKS"] \notin {"wait_wipe", "fwmp"}
      BY <2>21, <1>0, GotoIs DEF tpm_rst_deasserted
    <3>2. req.wipe_requested => req'.wipe_requested
      BY <2>21, <1>0 DEF tpm_rst_deasserted
    <3>3. hist'.wiped = hist.wiped /\ (hooksEvent' => hooksEvent)
      BY <2>21, <1>0 DEF tpm_rst_deasserted
    <3>4. alt = "running" => alt' = "running"
      BY <2>21, <1>0 DEF tpm_rst_deasserted
    <3> QED
      BY <2>a, <3>1, <3>2, <3>3, <3>4
  <2>22. CASE HostCommand
    <3>1. \/ pc'["HOOKS"] = pc["HOOKS"]
          \/ pc'["HOOKS"] \notin {"wait_wipe", "fwmp"}
      BY <2>22, <1>0, GotoIs DEF HostCommand
    <3>2. req.wipe_requested => req'.wipe_requested
      BY <2>22, <1>0 DEF HostCommand, ReqType
    <3>3. hist'.wiped = hist.wiped /\ (hooksEvent' => hooksEvent)
      BY <2>22, <1>0 DEF HostCommand
    <3>4. alt = "running" => alt' = "running"
      BY <2>22, <1>0 DEF HostCommand
    <3> QED
      BY <2>a, <3>1, <3>2, <3>3, <3>4
  <2>23. CASE UsbPacket
    <3>1. \/ pc'["HOOKS"] = pc["HOOKS"]
          \/ pc'["HOOKS"] \notin {"wait_wipe", "fwmp"}
      BY <2>23, <1>0, GotoIs DEF UsbPacket
    <3>2. req.wipe_requested => req'.wipe_requested
      BY <2>23, <1>0 DEF UsbPacket
    <3>3. hist'.wiped = hist.wiped /\ (hooksEvent' => hooksEvent)
      BY <2>23, <1>0 DEF UsbPacket
    <3>4. alt = "running" => alt' = "running"
      BY <2>23, <1>0 DEF UsbPacket
    <3> QED
      BY <2>a, <3>1, <3>2, <3>3, <3>4
  <2>24. CASE ResetTimeout
    <3>1. \/ pc'["HOOKS"] = pc["HOOKS"]
          \/ pc'["HOOKS"] \notin {"wait_wipe", "fwmp"}
      BY <2>24, <1>0, GotoIs DEF ResetTimeout
    <3>2. req.wipe_requested => req'.wipe_requested
      BY <2>24, <1>0 DEF ResetTimeout
    <3>3. hist'.wiped = hist.wiped /\ (hooksEvent' => hooksEvent)
      BY <2>24, <1>0 DEF ResetTimeout
    <3>4. alt = "running" => alt' = "running"
      BY <2>24, <1>0 DEF ResetTimeout
    <3> QED
      BY <2>a, <3>1, <3>2, <3>3, <3>4
  <2>25. CASE UNCHANGED vars
    BY <2>25, <2>a DEF vars
  <2> QED
    BY <1>d, <1>e, <1>f, <2>1, <2>2, <2>3, <2>4, <2>5, <2>6, <2>7, <2>8,
       <2>9, <2>10, <2>11, <2>12, <2>13, <2>14, <2>15, <2>16, <2>17,
       <2>18, <2>19, <2>20, <2>21, <2>22, <2>23, <2>24, <2>25
    DEF Next, HooksTask, ConsoleTask, Environment, TpmReset_, Booted
<1> QED
  BY <1>b, <1>c, <1>f

\* When board_wipe_tpm() goes on after the reset it asked for, the TPM data
\* was erased since it asked, whatever the TPM task was doing at that moment:
\* as long as a wipe is asked for by the TPM task's own commands and not over
\* USB, where it can come before the first reset.
THEOREM WipesErase ==
    ASSUME "usb" \notin Deferred
    PROVE  Spec => []WipeMeansErased
<1>1. Init => /\ WaitInv /\ AltInv /\ NoUsbInv /\ HolderInv /\ StartInv
              /\ WipeInv
  BY DEF Init, nvmem_init, BootPc, Tasks, NoTask, RstSteps, CmdSteps, WaitInv,
         AltInv, NoUsbInv, HolderInv, StartInv, WipeInv
<1>2. TypeOK /\ WaitInv /\ [Next]_vars => WaitInv'
  BY WaitStep
<1>3. TypeOK /\ AltInv /\ [Next]_vars => AltInv'
  BY AltStep
<1>4. TypeOK /\ NoUsbInv /\ [Next]_vars => NoUsbInv'
  BY NoUsbStep
<1>5. TypeOK /\ LockInv /\ NoUsbInv /\ HolderInv /\ [Next]_vars => HolderInv'
  BY HolderStep
<1>6. TypeOK /\ NoUsbInv /\ StartInv /\ [Next]_vars => StartInv'
  BY StartStep
<1>7. /\ TypeOK /\ WaitInv /\ AltInv /\ NoUsbInv /\ HolderInv /\ StartInv
      /\ WipeInv /\ [Next]_vars
      => WipeInv'
  BY WipeStep
<1>8. WipeInv => WipeMeansErased
  BY DEF WipeInv, WipeMeansErased
<1> QED
  BY <1>1, <1>2, <1>3, <1>4, <1>5, <1>6, <1>7, <1>8, TypeCorrect,
     LockInvHolds, PTL DEF Spec

=============================================================================
