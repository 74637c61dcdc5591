------------------------ MODULE NvmemCommit_proofs ------------------------
(***************************************************************************)
(* Proofs about NvmemCommit for any set of deferred functions and any      *)
(* number of writes and environment steps.                                 *)
(***************************************************************************)
EXTENDS NvmemCommit, TLAPS

\* What the functions of nvmem.c keep, w being the last write of a TPM
\* command: LockCoversPending, and the write is in the cache ...
NvCore(n, w) ==
    /\ n.write_in_progress \/ ~n.commits_enabled => n.task # NoTask
    /\ w <= n.cache
    /\ n.cache <= n.writes
    /\ n.flash <= n.writes

\* ... and, if it is not in flash, marked as an update, with the lock held
\* and kept from release.
NvInv(n, w) ==
    /\ NvCore(n, w)
    /\ w > n.flash =>
         /\ n.task \in {"TPM", "HOOKS"}
         /\ n.nvmem_updated
         /\ n.write_in_progress \/ ~n.commits_enabled

\* A console command that is to unlock the cache holds the lock.
ConsoleHolds ==
    /\ pc["CONSOLE"] = "efs_unlock" => nv.task = "CONSOLE"
    /\ pc["CONSOLE"] = "dump" => nv.task = "CONSOLE" /\ ~nv.commits_enabled

LockInv == NvInv(nv, hist.written) /\ ConsoleHolds

\* Only the TPM task and the console disable commits, unless a USB command
\* resets the TPM from the HOOKS task.
ReinstateInv ==
    /\ pc["HOOKS"] \notin RstSteps
    /\ ~nv.commits_enabled => nv.task = "TPM" \/ pc["CONSOLE"] = "dump"

----------------------------------------------------------------------------
(* Types.                                                                  *)

\* The functions of nvmem.c keep the type of their state.
LEMMA OpsType ==
    ASSUME NEW n, NvType(n), NEW t \in Tasks
    PROVE  /\ NvType(nvmem_lock_cache(n, t))
           /\ NvType(nvmem_release_cache(n))
           /\ NvType(nvmem_unlock_cache(n))
           /\ NvType(nvmem_save(n))
           /\ NvType(nvmem_read(n, t))
           /\ NvType(nvmem_write(n, t))
           /\ NvType(nvmem_commit(n, t))
           /\ NvType(nvmem_enable_commits(n, t))
           /\ NvType(nvmem_disable_commits(n, t))
           /\ NvType(TPM_Manufacture(n, t))
           /\ NvType(nvmem_erase_tpm_data(n))
<1> USE DEF NvType
<1>1. NvType(nvmem_lock_cache(n, t))
  BY DEF nvmem_lock_cache
<1>2. ASSUME NEW m, NvType(m) PROVE NvType(nvmem_release_cache(m))
  BY <1>2 DEF nvmem_release_cache
<1>3. ASSUME NEW m, NvType(m) PROVE NvType(nvmem_unlock_cache(m))
  <2>1. NvType([m EXCEPT !.write_in_progress = FALSE])
    BY <1>3
  <2> QED
    BY <2>1, <1>2 DEF nvmem_unlock_cache
<1>4. ASSUME NEW m, NvType(m) PROVE NvType(nvmem_save(m))
  <2>1. NvType([m EXCEPT !.flash = m.cache])
    BY <1>4
  <2> QED
    BY <2>1, <1>3 DEF nvmem_save
<1>5. NvType(nvmem_read(n, t))
  BY <1>1, <1>2 DEF nvmem_read
<1>6. ASSUME NEW m, NvType(m) PROVE NvType(nvmem_write(m, t))
  <2>1. NvType(nvmem_lock_cache(m, t))
    BY <1>6 DEF nvmem_lock_cache
  <2>2. m.writes + 1 \in Nat
    BY <1>6
  <2> QED
    BY <2>1, <2>2 DEF nvmem_write
<1>7. ASSUME NEW m, NvType(m) PROVE NvType(nvmem_commit(m, t))
  BY <1>7, <1>2, <1>4 DEF nvmem_commit
<1>8. NvType(nvmem_enable_commits(n, t))
  <2>1. NvType([n EXCEPT !.commits_enabled = TRUE])
    OBVIOUS
  <2> QED
    BY <2>1, <1>7 DEF nvmem_enable_commits
<1>9. NvType(nvmem_disable_commits(n, t))
  BY DEF nvmem_disable_commits, nvmem_lock_cache
<1>10. NvType(TPM_Manufacture(n, t))
  BY <1>6, <1>7 DEF TPM_Manufacture
<1>11. NvType(nvmem_erase_tpm_data(n))
  BY DEF nvmem_erase_tpm_data
<1> QED
  BY <1>1, <1>2, <1>3, <1>4, <1>5, <1>6, <1>7, <1>8, <1>9, <1>10, <1>11

\* So do the other records when a field gets a value of its type.
LEMMA PcUpdate ==
    ASSUME NEW p, PcType(p)
    PROVE  /\ \A s \in HooksSteps : PcType([p EXCEPT !["HOOKS"] = s])
           /\ \A s \in TpmSteps : PcType([p EXCEPT !["TPM"] = s])
           /\ \A s \in ConsoleSteps : PcType([p EXCEPT !["CONSOLE"] = s])
BY DEF PcType, Tasks

\* The state at the start of the firmware has its type, whatever the flash
\* holds.
LEMMA BootType ==
    ASSUME NEW f \in Nat, NEW w \in Nat
    PROVE  PcType(BootPc) /\ NvType(nvmem_init(f, w))
<1>1. PcType(BootPc)
  BY DEF PcType, BootPc, Tasks, HooksSteps, TpmSteps, ConsoleSteps
<1>2. NvType(nvmem_init(f, w))
  BY DEF NvType, nvmem_init
<1> QED
  BY <1>1, <1>2

\* The request flags keep their type when one of them is set or cleared.
LEMMA ReqUpdate ==
    ASSUME NEW r, ReqType(r), NEW b \in BOOLEAN
    PROVE  /\ r.in_progress \in BOOLEAN
           /\ r.wipe_requested \in BOOLEAN
           /\ r.waiting \in BOOLEAN
           /\ r.wipe_ok \in BOOLEAN
           /\ r.fifo \in BOOLEAN
           /\ ReqType([r EXCEPT !.in_progress = b])
           /\ ReqType([r EXCEPT !.wipe_requested = b])
           /\ ReqType([r EXCEPT !.waiting = b])
           /\ ReqType([r EXCEPT !.wipe_ok = b])
           /\ ReqType([r EXCEPT !.fifo = b])
BY DEF ReqType

\* The AP record keeps its type when a field gets a value of its type.
LEMMA ApUpdate ==
    ASSUME NEW a, ApType(a), NEW b \in BOOLEAN
    PROVE  /\ ApType([a EXCEPT !.rst = b])
           /\ ApType([a EXCEPT !.deep_sleep = b])
           /\ ApType([a EXCEPT !.late = b])
           /\ \A s \in {"off", "debouncing", "on"} :
                 ApType([a EXCEPT !.state = s])
BY DEF ApType

\* The history keeps its type when an erasure resets it.
LEMMA HistUpdate ==
    ASSUME NEW h, HistType(h)
    PROVE  HistType([h EXCEPT !.written = 0, !.due = 0, !.wiped = TRUE])
BY DEF HistType

\* Every variable of the model keeps its type, whatever the constants are.
THEOREM TypeCorrect == Spec => []TypeOK
<1> USE DEF TypeOK, Tasks
<1>1. Init => TypeOK
  <2> SUFFICES ASSUME Init PROVE TypeOK
    OBVIOUS
  <2>1. NvType(nv) /\ PcType(pc)
    BY BootType DEF Init
  <2>2. ReqType(req)
    BY DEF Init, ReqType
  <2>3. ApType(ap)
    BY DEF Init, ApType
  <2>4. HistType(hist)
    BY DEF Init, HistType
  <2> QED
    BY <2>1, <2>2, <2>3, <2>4 DEF Init, AltResults
<1>2. TypeOK /\ [Next]_vars => TypeOK'
  <2> SUFFICES ASSUME TypeOK, [Next]_vars PROVE TypeOK'
    OBVIOUS
  <2>1. ASSUME NEW t \in {"TPM", "HOOKS"}, RstStop(t) PROVE TypeOK'
    <3>1. NvType(nv')
      BY <2>1, OpsType
      DEF RstStop
    <3>2. PcType(pc')
      BY <2>1, PcUpdate
      DEF RstStop, Goto, RstSteps, HooksSteps, TpmSteps, At
    <3>3. ReqType(req')
      BY <2>1
      DEF RstStop, ReqType
    <3>a. \/ hist' = [hist EXCEPT !.written = 0, !.due = 0, !.wiped = TRUE]
          \/ hist' = hist
      BY <2>1 DEF RstStop
    <3>4. HistType(hist')
      BY <3>a, HistUpdate
    <3> QED
      BY <2>1, <3>1, <3>2, <3>3, <3>4
      DEF RstStop
  <2>2. ASSUME NEW t \in {"TPM", "HOOKS"}, RstCommit(t) PROVE TypeOK'
    <3>1. NvType(nv')
      BY <2>2, OpsType
      DEF RstCommit
    <3>2. PcType(pc')
      BY <2>2, PcUpdate
      DEF RstCommit, Goto, RstSteps, HooksSteps, TpmSteps, At
    <3>3. ReqType(req')
      BY <2>2
      DEF RstCommit, ReqType
    <3> QED
      BY <2>2, <3>1, <3>2, <3>3
      DEF RstCommit
  <2>3. ASSUME NEW t \in {"TPM", "HOOKS"}, RstDisable(t) PROVE TypeOK'
    <3>1. NvType(nv')
      BY <2>3, OpsType
      DEF RstDisable, DisableAndInit
    <3>2. PcType(pc')
      BY <2>3, PcUpdate
      DEF RstDisable, DisableAndInit, Goto, RstSteps, HooksSteps, TpmSteps, At
    <3>3. deferred' \in SUBSET DeferredNames
      BY <2>3
      DEF RstDisable, DisableAndInit, DeferredNames
    <3>4. ReqType(req')
      BY <2>3
      DEF RstDisable, DisableAndInit, ReqType
    <3>5. ApType(ap')
      BY <2>3
      DEF RstDisable, DisableAndInit, ApType, SleepDelayed
    <3>6. hooksEvent' \in BOOLEAN
      BY <2>3
      DEF RstDisable, DisableAndInit, ReqType
    <3> QED
      BY <2>3, <3>1, <3>2, <3>3, <3>4, <3>5, <3>6
      DEF RstDisable, DisableAndInit
  <2>4. ASSUME NEW t \in {"TPM", "HOOKS"}, RstStart(t) PROVE TypeOK'
    <3>1. PcType(pc')
      BY <2>4, PcUpdate
      DEF RstStart, CommandDone, Goto, RstSteps, HooksSteps, TpmSteps, At
    <3>2. evt' \in SUBSET TpmEvents /\ events' \in SUBSET TpmEvents
      BY <2>4
      DEF RstStart, CommandDone, TpmEvents
    <3>3. alt' \in AltResults
      BY <2>4
      DEF RstStart, CommandDone, AltResults
    <3> QED
      BY <2>4, <3>1, <3>2, <3>3
      DEF RstStart, CommandDone
  <2>5. CASE TpmPreloop
    <3>a. Goto("TPM", "rst_stop") \/ UNCHANGED pc
      BY <2>5 DEF TpmPreloop
    <3>b. "rst_stop" \in TpmSteps
      BY DEF TpmSteps, RstSteps
    <3>1. PcType(pc')
      BY <3>a, <3>b, PcUpdate DEF Goto
    <3>2. evt' \in SUBSET TpmEvents /\ events' \in SUBSET TpmEvents
      BY <2>5
      DEF TpmPreloop, TpmEvents
    <3>3. wipeFirst' \in [Tasks -> BOOLEAN]
      BY <2>5
      DEF TpmPreloop
    <3> QED
      BY <2>5, <3>1, <3>2, <3>3
      DEF TpmPreloop
  <2>6. CASE TpmTakeEvents
    BY <2>6
    DEF TpmTakeEvents
  <2>7. CASE TpmReset
    <3>1. PcType(pc')
      BY <2>7, PcUpdate
      DEF TpmReset, Goto, TpmSteps, RstSteps
    <3>2. wipeFirst' \in [Tasks -> BOOLEAN]
      BY <2>7
      DEF TpmReset, ReqType
    <3> QED
      BY <2>7, <3>1, <3>2
      DEF TpmReset
  <2>8. CASE TpmCommit
    BY <2>8, OpsType
    DEF TpmCommit
  <2>9. CASE TpmCommand
    <3>1. PcType(pc')
      BY <2>9, PcUpdate
      DEF TpmCommand, Goto, TpmSteps
    <3>2. evt' \in SUBSET TpmEvents /\ events' \in SUBSET TpmEvents
      BY <2>9
      DEF TpmCommand, TpmEvents
    <3>3. ReqType(req')
      BY <2>9
      DEF TpmCommand, ReqType
    <3>4. alt' \in AltResults
      BY <2>9
      DEF TpmCommand, AltResults
    <3> QED
      BY <2>9, <3>1, <3>2, <3>3, <3>4
      DEF TpmCommand
  <2>10. CASE CmdKind
    <3>a. PICK s \in {"cmd_nv", "cmd_fwmp"} : Goto("TPM", s)
      BY <2>10 DEF CmdKind
    <3>1. PcType(pc')
      BY <3>a, PcUpdate DEF Goto, TpmSteps
    <3> QED
      BY <2>10, <3>1
      DEF CmdKind
  <2>11. CASE CmdCommitNvmem
    BY <2>11, OpsType, PcUpdate
    DEF CmdCommitNvmem, CommandDone, Goto, TpmSteps, AltResults
  <2>12. CASE CmdRead
    BY <2>12, OpsType, PcUpdate
    DEF CmdRead, Goto, TpmSteps
  <2>13. CASE CmdWrite
    <3>1. NvType(nv')
      BY <2>13, OpsType
      DEF CmdWrite
    <3>2. PcType(pc')
      BY <2>13, PcUpdate
      DEF CmdWrite, Goto, TpmSteps
    <3>3. HistType(hist')
      BY <2>13
      DEF CmdWrite, HistType, NvType
    <3> QED
      BY <2>13, <3>1, <3>2, <3>3
      DEF CmdWrite
  <2>14. CASE CmdEnd
    BY <2>14, OpsType, PcUpdate
    DEF CmdEnd, CommandDone, Goto, TpmSteps, AltResults
  <2>15. CASE CmdWipeLater
    BY <2>15, OpsType, PcUpdate
    DEF CmdWipeLater, CommandDone, Goto, TpmSteps, AltResults, DeferredNames
  <2>16. CASE CmdWipeNow
    BY <2>16, OpsType, PcUpdate
    DEF CmdWipeNow, Goto, TpmSteps, RstSteps
  <2>17. CASE reinstate_nvmem_commits
    BY <2>17
    DEF reinstate_nvmem_commits, Runs, TpmEvents
  <2>18. CASE deferred_set_ap_off
    BY <2>18, OpsType, ApUpdate
    DEF deferred_set_ap_off, Runs
  <2>19. CASE deferred_tpm_rst_isr
    <3>1. evt' \in SUBSET TpmEvents /\ events' \in SUBSET TpmEvents
      BY <2>19
      DEF deferred_tpm_rst_isr, Runs, tpm_reset_request, TpmEvents
    <3>2. deferred' \in SUBSET DeferredNames
      BY <2>19
      DEF deferred_tpm_rst_isr, Runs, tpm_reset_request, DeferredNames
    <3>3. ReqType(req')
      BY <2>19
      DEF deferred_tpm_rst_isr, Runs, tpm_reset_request, ReqType
    <3>4. ApType(ap')
      BY <2>19
      DEF deferred_tpm_rst_isr, Runs, tpm_reset_request, ApType
    <3> QED
      BY <2>19, <3>1, <3>2, <3>3, <3>4
      DEF deferred_tpm_rst_isr, Runs, tpm_reset_request
  <2>20. CASE deferred_tpm_rst_isr_reboot
    <3>1. PcType(pc')
      BY <2>20, PcUpdate
      DEF deferred_tpm_rst_isr_reboot, Runs, tpm_reset_request, Goto, HooksSteps
    <3>2. evt' \in SUBSET TpmEvents /\ events' \in SUBSET TpmEvents
      BY <2>20
      DEF deferred_tpm_rst_isr_reboot, Runs, tpm_reset_request, TpmEvents
    <3>3. deferred' \in SUBSET DeferredNames
      BY <2>20
      DEF deferred_tpm_rst_isr_reboot, Runs, tpm_reset_request, DeferredNames
    <3>4. ReqType(req')
      BY <2>20
      DEF deferred_tpm_rst_isr_reboot, Runs, tpm_reset_request, ReqType
    <3>5. ApType(ap')
      BY <2>20
      DEF deferred_tpm_rst_isr_reboot, Runs, tpm_reset_request, ApType
    <3>6. HistType(hist')
      BY <2>20
      DEF deferred_tpm_rst_isr_reboot, Runs, tpm_reset_request, HistType
    <3> QED
      BY <2>20, <3>1, <3>2, <3>3, <3>4, <3>5, <3>6
      DEF deferred_tpm_rst_isr_reboot, Runs, tpm_reset_request
  <2>21. CASE board_wipe_tpm
    <3>1. PcType(pc')
      BY <2>21, PcUpdate
      DEF board_wipe_tpm, Runs, tpm_reset_request, Goto, HooksSteps
    <3>2. evt' \in SUBSET TpmEvents /\ events' \in SUBSET TpmEvents
      BY <2>21
      DEF board_wipe_tpm, Runs, tpm_reset_request, TpmEvents
    <3>3. deferred' \in SUBSET DeferredNames
      BY <2>21
      DEF board_wipe_tpm, Runs, tpm_reset_request, DeferredNames
    <3>4. ReqType(req')
      BY <2>21
      DEF board_wipe_tpm, Runs, tpm_reset_request, ReqType
    <3>5. HistType(hist')
      BY <2>21
      DEF board_wipe_tpm, Runs, tpm_reset_request, HistType
    <3> QED
      BY <2>21, <3>1, <3>2, <3>3, <3>4, <3>5
      DEF board_wipe_tpm, Runs, tpm_reset_request
  <2>22. CASE WipeDone
    <3>1. PcType(pc')
      BY <2>22, PcUpdate
      DEF WipeDone, Goto, HooksSteps
    <3>2. evt' \in SUBSET TpmEvents /\ events' \in SUBSET TpmEvents
      BY <2>22
      DEF WipeDone, TpmEvents
    <3>3. ReqType(req')
      BY <2>22
      DEF WipeDone, ReqType
    <3>4. HistType(hist')
      BY <2>22
      DEF WipeDone, HistType
    <3> QED
      BY <2>22, <3>1, <3>2, <3>3, <3>4
      DEF WipeDone
  <2>23. CASE board_fwmp_update_policies
    BY <2>23, OpsType, PcUpdate
    DEF board_fwmp_update_policies, Goto, HooksSteps
  <2>24. CASE RebootWaitDone
    BY <2>24, PcUpdate
    DEF RebootWaitDone, Goto, HooksSteps
  <2>25. CASE UsbCommand
    BY <2>25, PcUpdate
    DEF UsbCommand, Runs, Goto, HooksSteps
  <2>26. CASE UsbFwmp
    <3>1. NvType(nv')
      BY <2>26, OpsType
      DEF UsbFwmp
    <3>a. Goto("HOOKS", "loop") \/ Goto("HOOKS", "rst_stop")
      BY <2>26 DEF UsbFwmp
    <3>b. {"loop", "rst_stop"} \subseteq HooksSteps
      BY DEF HooksSteps, RstSteps
    <3>2. PcType(pc')
      BY <3>a, <3>b, PcUpdate DEF Goto
    <3>3. deferred' \in SUBSET DeferredNames
      BY <2>26
      DEF UsbFwmp, DeferredNames
    <3>4. wipeFirst' \in [Tasks -> BOOLEAN]
      BY <2>26
      DEF UsbFwmp
    <3> QED
      BY <2>26, <3>1, <3>2, <3>3, <3>4
      DEF UsbFwmp
  <2>27. CASE DumpStart
    BY <2>27, OpsType, PcUpdate
    DEF DumpStart, Goto, ConsoleSteps
  <2>28. CASE DumpEnd
    BY <2>28, OpsType, PcUpdate
    DEF DumpEnd, Goto, ConsoleSteps
  <2>29. CASE EfsWrite
    BY <2>29, OpsType, PcUpdate
    DEF EfsWrite, Goto, ConsoleSteps
  <2>30. CASE EfsUnlock
    BY <2>30, OpsType, PcUpdate
    DEF EfsUnlock, Goto, ConsoleSteps
  <2>31. CASE AltPoll
    <3>1. PcType(pc')
      BY <2>31, PcUpdate
      DEF AltPoll, Goto, ConsoleSteps
    <3>2. evt' \in SUBSET TpmEvents /\ events' \in SUBSET TpmEvents
      BY <2>31
      DEF AltPoll, TpmEvents
    <3>3. alt' \in AltResults
      BY <2>31
      DEF AltPoll, AltResults
    <3> QED
      BY <2>31, <3>1, <3>2, <3>3
      DEF AltPoll
  <2>32. CASE ConsoleInput
    <3>a. PICK s \in {"dump_lock", "efs_write"} : Goto("CONSOLE", s)
      BY <2>32 DEF ConsoleInput
    <3>1. PcType(pc')
      BY <3>a, PcUpdate DEF Goto, ConsoleSteps
    <3>2. ApType(ap')
      BY <2>32
      DEF ConsoleInput, ConsoleInUse, ApType
    <3> QED
      BY <2>32, <3>1, <3>2
      DEF ConsoleInput, ConsoleInUse
  <2>33. CASE tpm_alt_extension
    <3>1. PcType(pc')
      BY <2>33, PcUpdate
      DEF tpm_alt_extension, ConsoleInUse, Goto, ConsoleSteps
    <3>2. evt' \in SUBSET TpmEvents /\ events' \in SUBSET TpmEvents
      BY <2>33
      DEF tpm_alt_extension, ConsoleInUse, TpmEvents
    <3>3. ApType(ap')
      BY <2>33
      DEF tpm_alt_extension, ConsoleInUse, ApType
    <3>4. alt' \in AltResults
      BY <2>33
      DEF tpm_alt_extension, ConsoleInUse, AltResults
    <3> QED
      BY <2>33, <3>1, <3>2, <3>3, <3>4
      DEF tpm_alt_extension, ConsoleInUse
  <2>34. CASE tpm_rst_asserted
    <3>1. deferred' \in SUBSET DeferredNames
      BY <2>34
      DEF tpm_rst_asserted, Interrupt, DeferredNames
    <3>2. ApType(ap')
      BY <2>34
      DEF tpm_rst_asserted, Interrupt, ApType
    <3> QED
      BY <2>34, <3>1, <3>2
      DEF tpm_rst_asserted, Interrupt
  <2>35. CASE tpm_rst_deasserted
    <3>1. deferred' \in SUBSET DeferredNames
      BY <2>35
      DEF tpm_rst_deasserted, Interrupt, DeferredNames
    <3>2. ApType(ap')
      BY <2>35
      DEF tpm_rst_deasserted, Interrupt, ApType
    <3> QED
      BY <2>35, <3>1, <3>2
      DEF tpm_rst_deasserted, Interrupt
  <2>36. CASE HostCommand
    <3>1. evt' \in SUBSET TpmEvents /\ events' \in SUBSET TpmEvents
      BY <2>36
      DEF HostCommand, Interrupt, TpmEvents
    <3>2. ReqType(req')
      BY <2>36
      DEF HostCommand, Interrupt, ReqType
    <3> QED
      BY <2>36, <3>1, <3>2
      DEF HostCommand, Interrupt
  <2>37. CASE UsbPacket
    BY <2>37
    DEF UsbPacket, Interrupt, DeferredNames
  <2>38. CASE ResetTimeout
    BY <2>38, PcUpdate
    DEF ResetTimeout, Goto, HooksSteps
  <2>39. ASSUME NEW f \in Nat, NEW w \in Nat, NEW r \in BOOLEAN,
              Boot(f, w, r), env' \in Nat
       PROVE  TypeOK'
    <3>1. NvType(nv') /\ PcType(pc')
      BY <2>39, BootType DEF Boot
    <3>2. ReqType(req') /\ deferred' \in SUBSET DeferredNames
      BY <2>39 DEF Boot, ReqType, DeferredNames
    <3>3. ApType(ap')
      BY <2>39 DEF Boot, ApType
    <3>4. HistType(hist') /\ alt' \in AltResults
      BY <2>39 DEF Boot, HistType, AltResults
    <3> QED
      BY <2>39, <3>1, <3>2, <3>3, <3>4 DEF Boot
  <2>40. CASE SystemReset \/ DeepSleep \/ PowerLoss
    <3>1. nv.flash \in Nat /\ nv.writes \in Nat /\ ap.rst \in BOOLEAN
      BY DEF NvType, ApType
    <3>2. env' = env \/ env' = env + 1
      BY <2>40, Zenon DEF SystemReset, DeepSleep, PowerLoss, Interrupt
    <3>3. \E r \in BOOLEAN : Boot(nv.flash, nv.writes, r)
      BY <2>40, <3>1 DEF SystemReset, DeepSleep, PowerLoss
    <3>4. env' \in Nat
      BY <3>2
    <3> QED
      BY <2>39, <3>1, <3>3, <3>4
  <2>41. CASE UNCHANGED vars
    BY <2>41 DEF vars
  <2> QED
    BY <2>1, <2>2, <2>3, <2>4, <2>5, <2>6, <2>7, <2>8, <2>9, <2>10, <2>11,
       <2>12, <2>13, <2>14, <2>15, <2>16, <2>17, <2>18, <2>19, <2>20,
       <2>21, <2>22, <2>23, <2>24, <2>25, <2>26, <2>27, <2>28, <2>29,
       <2>30, <2>31, <2>32, <2>33, <2>34, <2>35, <2>36, <2>37, <2>38,
       <2>40, <2>41
    DEF Next, TpmTask, HooksTask, ConsoleTask, Environment, TpmReset_
<1> QED
  BY <1>1, <1>2, PTL DEF Spec

----------------------------------------------------------------------------
(* The lock.                                                               *)

\* What the functions of nvmem.c do to NvInv.  Saving restores it from its
\* first part; a release is safe because a write that is not in flash keeps
\* the lock; taking the lock is safe if the task may take it.
LEMMA ReleaseInv ==
    ASSUME NEW n, NvType(n), NEW w \in Nat, NvInv(n, w)
    PROVE  NvInv(nvmem_release_cache(n), w)
BY DEF NvInv, NvCore, NvType, nvmem_release_cache

\* nvmem_unlock_cache() keeps NvInv if nothing a TPM command wrote is lost.
LEMMA UnlockInv ==
    ASSUME NEW n, NvType(n), NEW w \in Nat, NvCore(n, w), w <= n.flash
    PROVE  NvInv(nvmem_unlock_cache(n), w)
<1> DEFINE m == [n EXCEPT !.write_in_progress = FALSE]
<1>1. NvType(m) /\ NvCore(m, w) /\ m.flash = n.flash
  BY DEF NvCore, NvType
<1>2. NvInv(m, w)
  BY <1>1 DEF NvInv, NvType
<1> QED
  BY <1>1, <1>2, ReleaseInv DEF nvmem_unlock_cache

\* nvmem_save() establishes NvInv: the flash gets all that was written.
LEMMA SaveInv ==
    ASSUME NEW n, NvType(n), NEW w \in Nat, NvCore(n, w)
    PROVE  /\ NvInv(nvmem_save(n), w)
           /\ NvInv([nvmem_save(n) EXCEPT !.nvmem_updated = FALSE], w)
<1> DEFINE m == [n EXCEPT !.flash = n.cache]
<1>1. NvType(m) /\ NvCore(m, w) /\ w <= m.flash
  BY DEF NvCore, NvType
<1>2. NvInv(nvmem_save(n), w)
  BY <1>1, UnlockInv DEF nvmem_save
<1>3. nvmem_save(n).flash = n.cache
  BY DEF nvmem_save, nvmem_unlock_cache, nvmem_release_cache, NvType
<1>4. NvType(nvmem_save(n))
  BY OpsType DEF Tasks
<1>5. w <= n.cache /\ n.cache \in Nat
  BY DEF NvCore, NvType
<1> QED
  BY <1>2, <1>3, <1>4, <1>5 DEF NvInv, NvCore, NvType

\* A task that may take the lock keeps NvInv when it reads, writes or
\* disables the commits.
LEMMA LockInvariant ==
    ASSUME NEW n, NvType(n), NEW w \in Nat, NvInv(n, w),
           NEW t \in Tasks, n.task \in {t, NoTask}
    PROVE  /\ NvInv(nvmem_lock_cache(n, t), w)
           /\ NvInv(nvmem_read(n, t), w)
           /\ NvInv(nvmem_disable_commits(n, t), w)
           /\ NvInv(nvmem_write(n, t), w)
           /\ t \in {"TPM", "HOOKS"} => NvInv(nvmem_write(n, t), n.writes + 1)
<1> USE DEF NvInv, NvCore, NvType, Tasks, NoTask
<1>1. NvInv(nvmem_lock_cache(n, t), w)
  BY DEF nvmem_lock_cache
<1>2. NvInv(nvmem_read(n, t), w)
  <2> HIDE DEF NvInv, NvCore, NvType
  <2> QED
    BY <1>1, OpsType, ReleaseInv DEF nvmem_read
<1>3. NvInv(nvmem_disable_commits(n, t), w)
  BY DEF nvmem_disable_commits, nvmem_lock_cache
<1>4. NvInv(nvmem_write(n, t), w)
  BY DEF nvmem_write, nvmem_lock_cache
<1>5. t \in {"TPM", "HOOKS"} => NvInv(nvmem_write(n, t), n.writes + 1)
  BY DEF nvmem_write, nvmem_lock_cache
<1> QED
  BY <1>1, <1>2, <1>3, <1>4, <1>5

\* nvmem_commit() and nvmem_enable_commits() keep NvInv for every task.
LEMMA CommitInv ==
    ASSUME NEW n, NvType(n), NEW w \in Nat, NvInv(n, w), NEW t \in Tasks
    PROVE  /\ NvInv(nvmem_commit(n, t), w)
           /\ NvInv(nvmem_enable_commits(n, t), w)
<1>1. NvInv(nvmem_commit(n, t), w)
  BY ReleaseInv, SaveInv DEF nvmem_commit, NvInv
<1>2. NvInv(nvmem_enable_commits(n, t), w)
  <2> DEFINE m == [n EXCEPT !.commits_enabled = TRUE]
  <2>1. CASE n.commits_enabled \/ n.task # t
    BY <2>1 DEF nvmem_enable_commits
  <2>2. CASE ~n.commits_enabled /\ n.task = t
    <3>1. NvType(m) /\ NvCore(m, w) /\ m.task = t /\ m.commits_enabled
      BY <2>2 DEF NvType, NvInv, NvCore
    <3>2. nvmem_enable_commits(n, t) = nvmem_commit(m, t)
      BY <2>2 DEF nvmem_enable_commits
    <3>3. CASE m.nvmem_updated
      BY <3>1, <3>2, <3>3, SaveInv DEF nvmem_commit
    <3>4. CASE ~m.nvmem_updated
      <4>1. w <= n.flash /\ m.flash = n.flash
        BY <3>4 DEF NvInv, NvType
      <4>2. NvInv(m, w)
        BY <3>1, <4>1 DEF NvInv, NvType
      <4> QED
        BY <3>1, <3>2, <3>4, <4>2, ReleaseInv DEF nvmem_commit
    <3> QED
      BY <3>3, <3>4
  <2> QED
    BY <2>1, <2>2
<1> QED
  BY <1>1, <1>2

\* The manufacture of an erased TPM during a reset keeps NvInv.
LEMMA ManufactureInv ==
    ASSUME NEW n, NvType(n), NEW w \in Nat, NvInv(n, w), NEW t \in Tasks,
           n.task = t
    PROVE  NvInv(TPM_Manufacture(n, t), w)
<1>1. NvType(nvmem_write(n, t))
  BY OpsType
<1>2. NvInv(nvmem_write(n, t), w)
  BY LockInvariant
<1>3. NvInv(nvmem_commit(nvmem_write(n, t), t), w)
  BY <1>1, <1>2, CommitInv
<1> QED
  BY <1>3 DEF TPM_Manufacture

\* An erasure keeps NvInv, although it does not take the lock: after it no
\* write of a TPM command is outstanding.
LEMMA EraseInv ==
    ASSUME NEW n, NvType(n), NEW w \in Nat, NvInv(n, w)
    PROVE  NvInv(nvmem_erase_tpm_data(n), 0)
BY DEF NvInv, NvCore, NvType, nvmem_erase_tpm_data

\* While the console holds the lock the other tasks' commits do nothing.
LEMMA OthersKeepLock ==
    ASSUME NEW n, NvType(n), NEW t \in Tasks, n.task # t
    PROVE  /\ nvmem_commit(n, t) = n
           /\ nvmem_enable_commits(n, t) = n
           /\ nvmem_erase_tpm_data(n).task = n.task
           /\ nvmem_erase_tpm_data(n).commits_enabled = n.commits_enabled
BY DEF nvmem_commit, nvmem_enable_commits, nvmem_erase_tpm_data, NvType

\* The other tasks' steps leave the console where it is.
LEMMA GotoOther ==
    ASSUME PcType(pc), NEW t \in {"TPM", "HOOKS"}, NEW s, Goto(t, s)
    PROVE  pc'["CONSOLE"] = pc["CONSOLE"]
BY DEF PcType, Goto, Tasks

\* Steps that neither touch the NV memory nor move the console.
Quiet ==
    /\ UNCHANGED nv
    /\ hist'.written = hist.written
    /\ pc'["CONSOLE"] = pc["CONSOLE"]


\* LockInv holds in every state: the first theorem of the project about the
\* lock of nvmem.c.
THEOREM LockInvHolds == Spec => []LockInv
<1>1. Init => LockInv
  BY DEF Init, LockInv, NvInv, NvCore, ConsoleHolds, nvmem_init, BootPc, Tasks
<1>2. TypeOK /\ LockInv /\ [Next]_vars => LockInv'
  <2> SUFFICES ASSUME TypeOK, LockInv, [Next]_vars PROVE LockInv'
    OBVIOUS
  <2> USE DEF Tasks
  <2>0. /\ NvType(nv) /\ PcType(pc) /\ HistType(hist)
        /\ hist.written \in Nat
        /\ NvInv(nv, hist.written) /\ ConsoleHolds
    BY DEF TypeOK, LockInv, HistType
  <2>1. ASSUME NEW t \in {"TPM", "HOOKS"}, RstStart(t) PROVE Quiet
    BY <2>1, <2>0, GotoOther DEF RstStart, Quiet
  <2>2. ASSUME TpmPreloop PROVE Quiet
    BY <2>2, <2>0, GotoOther DEF TpmPreloop, Quiet
  <2>3. ASSUME TpmTakeEvents PROVE Quiet
    BY <2>3, <2>0, GotoOther DEF TpmTakeEvents, Quiet
  <2>4. ASSUME TpmReset PROVE Quiet
    BY <2>4, <2>0, GotoOther DEF TpmReset, Quiet
  <2>5. ASSUME TpmCommand PROVE Quiet
    BY <2>5, <2>0, GotoOther DEF TpmCommand, Quiet
  <2>6. ASSUME CmdKind PROVE Quiet
    BY <2>6, <2>0, GotoOther DEF CmdKind, Quiet
  <2>7. ASSUME reinstate_nvmem_commits PROVE Quiet
    BY <2>7, <2>0, GotoOther DEF reinstate_nvmem_commits, Quiet
  <2>8. ASSUME deferred_tpm_rst_isr PROVE Quiet
    BY <2>8, <2>0, GotoOther DEF deferred_tpm_rst_isr, Quiet
  <2>9. ASSUME deferred_tpm_rst_isr_reboot PROVE Quiet
    BY <2>9, <2>0, GotoOther DEF deferred_tpm_rst_isr_reboot, Quiet, HistType
  <2>10. ASSUME board_wipe_tpm PROVE Quiet
    BY <2>10, <2>0, GotoOther DEF board_wipe_tpm, Quiet, HistType
  <2>11. ASSUME WipeDone PROVE Quiet
    BY <2>11, <2>0, GotoOther DEF WipeDone, Quiet, HistType
  <2>12. ASSUME RebootWaitDone PROVE Quiet
    BY <2>12, <2>0, GotoOther DEF RebootWaitDone, Quiet
  <2>13. ASSUME UsbCommand PROVE Quiet
    BY <2>13, <2>0, GotoOther DEF UsbCommand, Quiet
  <2>14. ASSUME tpm_rst_asserted PROVE Quiet
    BY <2>14, <2>0, GotoOther DEF tpm_rst_asserted, Quiet
  <2>15. ASSUME tpm_rst_deasserted PROVE Quiet
    BY <2>15, <2>0, GotoOther DEF tpm_rst_deasserted, Quiet
  <2>16. ASSUME HostCommand PROVE Quiet
    BY <2>16, <2>0, GotoOther DEF HostCommand, Quiet
  <2>17. ASSUME UsbPacket PROVE Quiet
    BY <2>17, <2>0, GotoOther DEF UsbPacket, Quiet
  <2>18. ASSUME ResetTimeout PROVE Quiet
    BY <2>18, <2>0, GotoOther DEF ResetTimeout, Quiet
  <2>19. ASSUME Quiet PROVE LockInv'
    BY <2>19 DEF Quiet, LockInv, ConsoleHolds
  <2>20. ASSUME NEW t \in {"TPM", "HOOKS"}, RstStop(t) PROVE LockInv'
    <3>a. ASSUME wipeFirst[t] PROVE NvInv(nv', hist'.written)
      <4>1. nv' = nvmem_erase_tpm_data(nv)
        BY <2>20, <2>0, <3>a DEF RstStop
      <4>2. hist'.written = 0
        BY <2>20, <2>0, <2>0, <3>a DEF RstStop, HistType
      <4> QED
        BY <4>1, <4>2, <2>0, EraseInv
    <3>b. ASSUME ~wipeFirst[t] PROVE NvInv(nv', hist'.written)
      BY <2>20, <2>0, <3>b DEF RstStop, HistType
    <3>1. NvInv(nv', hist'.written)
      BY <3>a, <3>b
    <3>2. pc'["CONSOLE"] = pc["CONSOLE"]
      BY <2>20, <2>0, GotoOther DEF RstStop
    <3>3. nv.task = "CONSOLE" => nv'.task = nv.task
                               /\ nv'.commits_enabled = nv.commits_enabled
      BY <2>20, <2>0, OthersKeepLock DEF RstStop
    <3> QED
      BY <3>1, <3>2, <3>3 DEF LockInv, ConsoleHolds
  <2>21. ASSUME NEW t \in {"TPM", "HOOKS"}, RstCommit(t) PROVE LockInv'
    <3>1. NvInv(nv', hist'.written)
      BY <2>21, <2>0, CommitInv
      DEF RstCommit
    <3>2. pc'["CONSOLE"] = pc["CONSOLE"]
      BY <2>21, <2>0, GotoOther DEF RstCommit
    <3>3. nv.task = "CONSOLE" => nv'.task = nv.task
                               /\ nv'.commits_enabled = nv.commits_enabled
      BY <2>21, <2>0, OthersKeepLock DEF RstCommit
    <3> QED
      BY <3>1, <3>2, <3>3 DEF LockInv, ConsoleHolds
  <2>22. ASSUME NEW t \in {"TPM", "HOOKS"}, RstDisable(t) PROVE LockInv'
    <3>a. nv.task \in {t, NoTask}
      BY <2>22, <2>0 DEF RstDisable, DisableAndInit, CanLock
    <3>b. /\ NvType(nvmem_disable_commits(nv, t))
          /\ NvInv(nvmem_disable_commits(nv, t), hist.written)
          /\ nvmem_disable_commits(nv, t).task = t
      <4>1. nvmem_disable_commits(nv, t).task = t
        BY <2>0 DEF nvmem_disable_commits, nvmem_lock_cache, NvType
      <4> QED
        BY <2>0, <3>a, <4>1, OpsType, LockInvariant
    <3>1. NvInv(nv', hist'.written)
      BY <2>22, <2>0, <3>b, ManufactureInv DEF RstDisable, DisableAndInit
    <3>2. pc'["CONSOLE"] = pc["CONSOLE"]
      BY <2>22, <2>0, GotoOther DEF RstDisable, DisableAndInit
    <3>3. nv.task # "CONSOLE"
      BY <2>22, <2>0 DEF RstDisable, DisableAndInit, CanLock, NoTask
    <3> QED
      BY <3>1, <3>2, <3>3 DEF LockInv, ConsoleHolds
  <2>23. CASE TpmCommit
    <3>1. NvInv(nv', hist'.written)
      BY <2>23, <2>0, CommitInv
      DEF TpmCommit
    <3>2. pc'["CONSOLE"] = pc["CONSOLE"]
      BY <2>23, <2>0, GotoOther DEF TpmCommit
    <3>3. nv.task = "CONSOLE" => nv'.task = nv.task
                               /\ nv'.commits_enabled = nv.commits_enabled
      BY <2>23, <2>0, OthersKeepLock DEF TpmCommit
    <3> QED
      BY <3>1, <3>2, <3>3 DEF LockInv, ConsoleHolds
  <2>24. CASE CmdCommitNvmem
    <3>1. NvInv(nv', hist'.written)
      BY <2>24, <2>0, CommitInv
      DEF CmdCommitNvmem
    <3>2. pc'["CONSOLE"] = pc["CONSOLE"]
      BY <2>24, <2>0, GotoOther DEF CmdCommitNvmem
    <3>3. nv.task = "CONSOLE" => nv'.task = nv.task
                               /\ nv'.commits_enabled = nv.commits_enabled
      BY <2>24, <2>0, OthersKeepLock DEF CmdCommitNvmem
    <3> QED
      BY <3>1, <3>2, <3>3 DEF LockInv, ConsoleHolds
  <2>25. CASE CmdEnd
    <3>1. NvInv(nv', hist'.written)
      BY <2>25, <2>0, CommitInv
      DEF CmdEnd
    <3>2. pc'["CONSOLE"] = pc["CONSOLE"]
      BY <2>25, <2>0, GotoOther DEF CmdEnd
    <3>3. nv.task = "CONSOLE" => nv'.task = nv.task
                               /\ nv'.commits_enabled = nv.commits_enabled
      BY <2>25, <2>0, OthersKeepLock DEF CmdEnd
    <3> QED
      BY <3>1, <3>2, <3>3 DEF LockInv, ConsoleHolds
  <2>26. CASE deferred_set_ap_off
    <3>1. NvInv(nv', hist'.written)
      BY <2>26, <2>0, CommitInv
      DEF deferred_set_ap_off
    <3>2. pc'["CONSOLE"] = pc["CONSOLE"]
      BY <2>26, <2>0, GotoOther DEF deferred_set_ap_off
    <3>3. nv.task = "CONSOLE" => nv'.task = nv.task
                               /\ nv'.commits_enabled = nv.commits_enabled
      BY <2>26, <2>0, OthersKeepLock DEF deferred_set_ap_off
    <3> QED
      BY <3>1, <3>2, <3>3 DEF LockInv, ConsoleHolds
  <2>27. CASE CmdRead
    <3>1. NvInv(nv', hist'.written)
      BY <2>27, <2>0, LockInvariant
      DEF CmdRead, CanLock
    <3>2. pc'["CONSOLE"] = pc["CONSOLE"]
      BY <2>27, <2>0, GotoOther DEF CmdRead, CanLock
    <3>3. nv.task # "CONSOLE"
      BY <2>27, <2>0 DEF CmdRead, CanLock, NoTask
    <3> QED
      BY <3>1, <3>2, <3>3 DEF LockInv, ConsoleHolds
  <2>28. CASE CmdWrite
    <3>1. NvInv(nv', hist'.written)
      BY <2>28, <2>0, LockInvariant
      DEF CmdWrite, CanLock
    <3>2. pc'["CONSOLE"] = pc["CONSOLE"]
      BY <2>28, <2>0, GotoOther DEF CmdWrite, CanLock
    <3>3. nv.task # "CONSOLE"
      BY <2>28, <2>0 DEF CmdWrite, CanLock, NoTask
    <3> QED
      BY <3>1, <3>2, <3>3 DEF LockInv, ConsoleHolds
  <2>29. CASE CmdWipeLater
    <3>1. NvInv(nv', hist'.written)
      BY <2>29, <2>0, LockInvariant
      DEF CmdWipeLater, CanLock
    <3>2. pc'["CONSOLE"] = pc["CONSOLE"]
      BY <2>29, <2>0, GotoOther DEF CmdWipeLater, CanLock
    <3>3. nv.task # "CONSOLE"
      BY <2>29, <2>0 DEF CmdWipeLater, CanLock, NoTask
    <3> QED
      BY <3>1, <3>2, <3>3 DEF LockInv, ConsoleHolds
  <2>30. CASE CmdWipeNow
    <3>1. NvInv(nv', hist'.written)
      BY <2>30, <2>0, LockInvariant
      DEF CmdWipeNow, CanLock
    <3>2. pc'["CONSOLE"] = pc["CONSOLE"]
      BY <2>30, <2>0, GotoOther DEF CmdWipeNow, CanLock
    <3>3. nv.task # "CONSOLE"
      BY <2>30, <2>0 DEF CmdWipeNow, CanLock, NoTask
    <3> QED
      BY <3>1, <3>2, <3>3 DEF LockInv, ConsoleHolds
  <2>31. CASE board_fwmp_update_policies
    <3>1. NvInv(nv', hist'.written)
      BY <2>31, <2>0, LockInvariant
      DEF board_fwmp_update_policies, CanLock
    <3>2. pc'["CONSOLE"] = pc["CONSOLE"]
      BY <2>31, <2>0, GotoOther DEF board_fwmp_update_policies, CanLock
    <3>3. nv.task # "CONSOLE"
      BY <2>31, <2>0 DEF board_fwmp_update_policies, CanLock, NoTask
    <3> QED
      BY <3>1, <3>2, <3>3 DEF LockInv, ConsoleHolds
  <2>32. CASE UsbFwmp
    <3>1. NvInv(nv', hist'.written)
      BY <2>32, <2>0, LockInvariant
      DEF UsbFwmp, CanLock
    <3>2. pc'["CONSOLE"] = pc["CONSOLE"]
      BY <2>32, <2>0, GotoOther DEF UsbFwmp, CanLock
    <3>3. nv.task # "CONSOLE"
      BY <2>32, <2>0 DEF UsbFwmp, CanLock, NoTask
    <3> QED
      BY <3>1, <3>2, <3>3 DEF LockInv, ConsoleHolds
  <2>33. CASE DumpStart
    <3>1. NvInv(nv', hist'.written)
      BY <2>33, <2>0, LockInvariant
      DEF DumpStart, CanLock, nvmem_disable_commits, nvmem_lock_cache
    <3>2. ConsoleHolds'
      BY <2>33, <2>0 DEF DumpStart, CanLock, nvmem_disable_commits, nvmem_lock_cache, ConsoleHolds, At, Goto, PcType
    <3> QED
      BY <3>1, <3>2 DEF LockInv
  <2>34. CASE DumpEnd
    <3>1. NvInv(nv', hist'.written)
      BY <2>34, <2>0, CommitInv
      DEF DumpEnd
    <3>2. ConsoleHolds'
      BY <2>34, <2>0 DEF DumpEnd, ConsoleHolds, At, Goto, PcType
    <3> QED
      BY <3>1, <3>2 DEF LockInv
  <2>35. CASE EfsWrite
    <3>a. nv.task \in {"CONSOLE", NoTask}
      BY <2>35, <2>0 DEF EfsWrite, CanLock
    <3> DEFINE r == nvmem_read(nv, "CONSOLE")
    <3>c. NvType(r) /\ NvInv(r, hist.written)
      BY <2>0, <3>a, OpsType, LockInvariant
    <3>d. r.task \in {"CONSOLE", NoTask}
      BY <2>0 DEF nvmem_read, nvmem_lock_cache, nvmem_release_cache, NvType
    <3>b. /\ NvInv(nvmem_write(r, "CONSOLE"), hist.written)
          /\ nvmem_write(r, "CONSOLE").task = "CONSOLE"
      <4>1. NvInv(nvmem_write(r, "CONSOLE"), hist.written)
        BY <2>0, <3>c, <3>d, LockInvariant
      <4>2. nvmem_write(r, "CONSOLE").task = "CONSOLE"
        BY <3>c DEF nvmem_write, nvmem_lock_cache, NvType
      <4> QED
        BY <4>1, <4>2
    <3>1. NvInv(nv', hist'.written)
      BY <2>35, <2>0, <3>b
      DEF EfsWrite
    <3>2. ConsoleHolds'
      BY <2>35, <2>0, <3>b DEF EfsWrite, ConsoleHolds, At, Goto, PcType
    <3> QED
      BY <3>1, <3>2 DEF LockInv
  <2>36. CASE EfsUnlock
    <3>a. NvCore(nv, hist.written) /\ hist.written <= nv.flash
      BY <2>36, <2>0 DEF EfsUnlock, At, ConsoleHolds, NvInv, NvType
    <3>1. NvInv(nv', hist'.written)
      BY <2>36, <2>0, <3>a, UnlockInv
      DEF EfsUnlock
    <3>2. ConsoleHolds'
      BY <2>36, <2>0 DEF EfsUnlock, ConsoleHolds, At, Goto, PcType
    <3> QED
      BY <3>1, <3>2 DEF LockInv
  <2>37. CASE AltPoll
    <3>1. NvInv(nv', hist'.written)
      BY <2>37, <2>0
      DEF AltPoll
    <3>2. ConsoleHolds'
      BY <2>37, <2>0 DEF AltPoll, ConsoleHolds, At, Goto, PcType
    <3> QED
      BY <3>1, <3>2 DEF LockInv
  <2>38. CASE ConsoleInput
    <3>1. NvInv(nv', hist'.written)
      BY <2>38, <2>0
      DEF ConsoleInput
    <3>2. ConsoleHolds'
      BY <2>38, <2>0 DEF ConsoleInput, ConsoleHolds, At, Goto, PcType
    <3> QED
      BY <3>1, <3>2 DEF LockInv
  <2>39. CASE tpm_alt_extension
    <3>1. NvInv(nv', hist'.written)
      BY <2>39, <2>0
      DEF tpm_alt_extension
    <3>2. ConsoleHolds'
      BY <2>39, <2>0 DEF tpm_alt_extension, ConsoleHolds, At, Goto, PcType
    <3> QED
      BY <3>1, <3>2 DEF LockInv
  <2>40. CASE SystemReset \/ DeepSleep \/ PowerLoss
    <3>1. PICK r : Boot(nv.flash, nv.writes, r)
      BY <2>40, <2>0 DEF SystemReset, DeepSleep, PowerLoss
    <3>2. NvInv(nv', hist'.written)
      BY <2>0, <3>1 DEF Boot, nvmem_init, NvInv, NvCore, NvType
    <3>3. pc'["CONSOLE"] = "prompt"
      BY <3>1 DEF Boot, BootPc
    <3> QED
      BY <3>2, <3>3 DEF LockInv, ConsoleHolds
  <2>41. CASE UNCHANGED vars
    BY <2>41 DEF vars, LockInv, ConsoleHolds
  <2> QED
    BY <2>1, <2>2, <2>3, <2>4, <2>5, <2>6, <2>7, <2>8, <2>9, <2>10, <2>11,
       <2>12, <2>13, <2>14, <2>15, <2>16, <2>17, <2>18, <2>19, <2>20,
       <2>21, <2>22, <2>23, <2>24, <2>25, <2>26, <2>27, <2>28, <2>29,
       <2>30, <2>31, <2>32, <2>33, <2>34, <2>35, <2>36, <2>37, <2>38,
       <2>39, <2>40, <2>41
    DEF Next, TpmTask, HooksTask, ConsoleTask, Environment, TpmReset_
<1> QED
  BY <1>1, <1>2, TypeCorrect, PTL DEF Spec

\* LockCoversPending is a part of LockInv: no task finds the lock free while a
\* write waits for its commit or commits are disabled.
THEOREM LockAlwaysCovers == Spec => []LockCoversPending
<1>1. LockInv => LockCoversPending
  BY DEF LockInv, NvInv, NvCore, LockCoversPending
<1> QED
  BY <1>1, LockInvHolds, PTL

\* What a TPM command wrote and is not in flash is kept under the lock and
\* marked for the next commit, whichever tasks run and in whatever order.
THEOREM UnsavedAlwaysLocked == Spec => []UnsavedIsLocked
<1>1. LockInv => UnsavedIsLocked
  BY DEF LockInv, NvInv, UnsavedIsLocked
<1> QED
  BY <1>1, LockInvHolds, PTL

----------------------------------------------------------------------------
(* Who can enable the commits again.                                       *)

\* A commit changes nothing while commits are disabled; enabling them, when
\* it does anything, leaves them enabled.
LEMMA CommitEnabled ==
    ASSUME NEW n, NvType(n), NEW t \in Tasks
    PROVE  /\ ~nvmem_commit(n, t).commits_enabled =>
                 nvmem_commit(n, t) = n
           /\ ~nvmem_enable_commits(n, t).commits_enabled =>
                 n.task # t /\ nvmem_enable_commits(n, t) = n
<1>1. ASSUME NEW m, NvType(m)
      PROVE  /\ nvmem_commit(m, t).commits_enabled = m.commits_enabled
             /\ ~m.commits_enabled => nvmem_commit(m, t) = m
  BY <1>1 DEF nvmem_commit, nvmem_save, nvmem_unlock_cache,
              nvmem_release_cache, NvType
<1> DEFINE m == [n EXCEPT !.commits_enabled = TRUE]
<1>2. NvType(m) /\ m.commits_enabled
  BY DEF NvType
<1> QED
  BY <1>1, <1>2 DEF nvmem_enable_commits

\* Reading and writing change neither flag nor, while commits are disabled,
\* more than the owner of the lock, which is then the task that reads.
LEMMA AccessEnabled ==
    ASSUME NEW n, NvType(n), NEW t \in Tasks
    PROVE  /\ nvmem_read(n, t).commits_enabled = n.commits_enabled
           /\ nvmem_write(n, t).commits_enabled = n.commits_enabled
           /\ ~n.commits_enabled => nvmem_read(n, t).task = t
           /\ nvmem_write(n, t).task = t
BY DEF nvmem_read, nvmem_write, nvmem_lock_cache, nvmem_release_cache, NvType

\* nvmem_commit() does nothing while commits are disabled.
LEMMA CommitDisabled ==
    ASSUME NEW n, NvType(n), NEW t \in Tasks, ~n.commits_enabled
    PROVE  nvmem_commit(n, t) = n
BY DEF nvmem_commit, nvmem_release_cache

\* nvmem_erase_tpm_data() changes neither the owner of the lock nor the
\* commit flag.
LEMMA EraseKeeps ==
    ASSUME NEW n, NvType(n)
    PROVE  /\ nvmem_erase_tpm_data(n).task = n.task
           /\ nvmem_erase_tpm_data(n).commits_enabled = n.commits_enabled
BY DEF nvmem_erase_tpm_data, NvType

\* Without a USB command that resets the TPM at once the HOOKS task never
\* runs tpm_reset_now(), and never holds the lock with commits disabled.
LEMMA ReinstateInvHolds ==
    ASSUME "usb_open" \notin Deferred
    PROVE  Spec => []ReinstateInv
<1>1. Init => ReinstateInv
  BY DEF Init, ReinstateInv, nvmem_init, BootPc, Tasks, RstSteps
<1>2. TypeOK /\ LockInv /\ ReinstateInv /\ [Next]_vars => ReinstateInv'
  <2> SUFFICES ASSUME TypeOK, LockInv, ReinstateInv, [Next]_vars
               PROVE  ReinstateInv'
    OBVIOUS
  <2> USE DEF Tasks
  <2>0. /\ NvType(nv) /\ PcType(pc) /\ HistType(hist)
        /\ ReinstateInv /\ ConsoleHolds
    BY DEF TypeOK, LockInv
  <2>1. ASSUME Quiet, pc'["HOOKS"] \notin RstSteps PROVE ReinstateInv'
    BY <2>1, <2>0 DEF Quiet, ReinstateInv
  <2>2. CASE RstStart("TPM")
    <3>1. Quiet
      BY <2>2, <2>0, GotoOther DEF RstStart, Quiet
    <3>2. pc'["HOOKS"] = pc["HOOKS"]
      BY <2>2, <2>0 DEF RstStart, Goto, PcType
    <3> QED
      BY <2>0, <2>1, <3>1, <3>2 DEF ReinstateInv
  <2>3. CASE TpmPreloop
    <3>1. Quiet
      BY <2>3, <2>0, GotoOther DEF TpmPreloop, Quiet
    <3>2. pc'["HOOKS"] = pc["HOOKS"]
      BY <2>3, <2>0 DEF TpmPreloop, Goto, PcType
    <3> QED
      BY <2>0, <2>1, <3>1, <3>2 DEF ReinstateInv
  <2>4. CASE TpmTakeEvents
    <3>1. Quiet
      BY <2>4, <2>0, GotoOther DEF TpmTakeEvents, Quiet
    <3>2. pc'["HOOKS"] = pc["HOOKS"]
      BY <2>4, <2>0 DEF TpmTakeEvents, Goto, PcType
    <3> QED
      BY <2>0, <2>1, <3>1, <3>2 DEF ReinstateInv
  <2>5. CASE TpmReset
    <3>1. Quiet
      BY <2>5, <2>0, GotoOther DEF TpmReset, Quiet
    <3>2. pc'["HOOKS"] = pc["HOOKS"]
      BY <2>5, <2>0 DEF TpmReset, Goto, PcType
    <3> QED
      BY <2>0, <2>1, <3>1, <3>2 DEF ReinstateInv
  <2>6. CASE TpmCommand
    <3>1. Quiet
      BY <2>6, <2>0, GotoOther DEF TpmCommand, Quiet
    <3>2. pc'["HOOKS"] = pc["HOOKS"]
      BY <2>6, <2>0 DEF TpmCommand, Goto, PcType
    <3> QED
      BY <2>0, <2>1, <3>1, <3>2 DEF ReinstateInv
  <2>7. CASE CmdKind
    <3>1. Quiet
      BY <2>7, <2>0, GotoOther DEF CmdKind, Quiet
    <3>2. pc'["HOOKS"] = pc["HOOKS"]
      BY <2>7, <2>0 DEF CmdKind, Goto, PcType
    <3> QED
      BY <2>0, <2>1, <3>1, <3>2 DEF ReinstateInv
  <2>8. CASE reinstate_nvmem_commits
    <3>1. Quiet
      BY <2>8, <2>0, GotoOther DEF reinstate_nvmem_commits, Quiet
    <3>2. pc'["HOOKS"] \notin RstSteps
      BY <2>8, <2>0 DEF reinstate_nvmem_commits, Goto, PcType, ReinstateInv, RstSteps
    <3> QED
      BY <2>0, <2>1, <3>1, <3>2 DEF ReinstateInv
  <2>9. CASE deferred_tpm_rst_isr
    <3>1. Quiet
      BY <2>9, <2>0, GotoOther DEF deferred_tpm_rst_isr, Quiet
    <3>2. pc'["HOOKS"] \notin RstSteps
      BY <2>9, <2>0 DEF deferred_tpm_rst_isr, Goto, PcType, ReinstateInv, RstSteps
    <3> QED
      BY <2>0, <2>1, <3>1, <3>2 DEF ReinstateInv
  <2>10. CASE deferred_tpm_rst_isr_reboot
    <3>1. Quiet
      BY <2>10, <2>0, GotoOther DEF deferred_tpm_rst_isr_reboot, Quiet, HistType
    <3>2. pc'["HOOKS"] \notin RstSteps
      BY <2>10, <2>0 DEF deferred_tpm_rst_isr_reboot, Goto, PcType, ReinstateInv, RstSteps
    <3> QED
      BY <2>0, <2>1, <3>1, <3>2 DEF ReinstateInv
  <2>11. CASE board_wipe_tpm
    <3>1. Quiet
      BY <2>11, <2>0, GotoOther DEF board_wipe_tpm, Quiet, HistType
    <3>2. pc'["HOOKS"] \notin RstSteps
      BY <2>11, <2>0 DEF board_wipe_tpm, Goto, PcType, ReinstateInv, RstSteps
    <3> QED
      BY <2>0, <2>1, <3>1, <3>2 DEF ReinstateInv
  <2>12. CASE WipeDone
    <3>1. Quiet
      BY <2>12, <2>0, GotoOther DEF WipeDone, Quiet, HistType
    <3>2. pc'["HOOKS"] \notin RstSteps
      BY <2>12, <2>0 DEF WipeDone, Goto, PcType, ReinstateInv, RstSteps
    <3> QED
      BY <2>0, <2>1, <3>1, <3>2 DEF ReinstateInv
  <2>13. CASE RebootWaitDone
    <3>1. Quiet
      BY <2>13, <2>0, GotoOther DEF RebootWaitDone, Quiet
    <3>2. pc'["HOOKS"] \notin RstSteps
      BY <2>13, <2>0 DEF RebootWaitDone, Goto, PcType, ReinstateInv, RstSteps
    <3> QED
      BY <2>0, <2>1, <3>1, <3>2 DEF ReinstateInv
  <2>14. CASE UsbCommand
    <3>1. Quiet
      BY <2>14, <2>0, GotoOther DEF UsbCommand, Quiet
    <3>2. pc'["HOOKS"] \notin RstSteps
      BY <2>14, <2>0 DEF UsbCommand, Goto, PcType, ReinstateInv, RstSteps
    <3> QED
      BY <2>0, <2>1, <3>1, <3>2 DEF ReinstateInv
  <2>15. CASE ResetTimeout
    <3>1. Quiet
      BY <2>15, <2>0, GotoOther DEF ResetTimeout, Quiet
    <3>2. pc'["HOOKS"] \notin RstSteps
      BY <2>15, <2>0 DEF ResetTimeout, Goto, PcType, ReinstateInv, RstSteps
    <3> QED
      BY <2>0, <2>1, <3>1, <3>2 DEF ReinstateInv
  <2>16. CASE tpm_rst_asserted
    <3>1. Quiet
      BY <2>16, <2>0, GotoOther DEF tpm_rst_asserted, Quiet
    <3>2. pc'["HOOKS"] \notin RstSteps
      BY <2>16, <2>0 DEF tpm_rst_asserted, Goto, PcType, ReinstateInv, RstSteps
    <3> QED
      BY <2>0, <2>1, <3>1, <3>2 DEF ReinstateInv
  <2>17. CASE tpm_rst_deasserted
    <3>1. Quiet
      BY <2>17, <2>0, GotoOther DEF tpm_rst_deasserted, Quiet
    <3>2. pc'["HOOKS"] \notin RstSteps
      BY <2>17, <2>0 DEF tpm_rst_deasserted, Goto, PcType, ReinstateInv, RstSteps
    <3> QED
      BY <2>0, <2>1, <3>1, <3>2 DEF ReinstateInv
  <2>18. CASE HostCommand
    <3>1. Quiet
      BY <2>18, <2>0, GotoOther DEF HostCommand, Quiet
    <3>2. pc'["HOOKS"] \notin RstSteps
      BY <2>18, <2>0 DEF HostCommand, Goto, PcType, ReinstateInv, RstSteps
    <3> QED
      BY <2>0, <2>1, <3>1, <3>2 DEF ReinstateInv
  <2>19. CASE UsbPacket
    <3>1. Quiet
      BY <2>19, <2>0, GotoOther DEF UsbPacket, Quiet
    <3>2. pc'["HOOKS"] \notin RstSteps
      BY <2>19, <2>0 DEF UsbPacket, Goto, PcType, ReinstateInv, RstSteps
    <3> QED
      BY <2>0, <2>1, <3>1, <3>2 DEF ReinstateInv
  <2>20. CASE RstStop("TPM")
    <3>1. pc'["HOOKS"] \notin RstSteps /\ pc'["CONSOLE"] = pc["CONSOLE"]
      BY <2>20, <2>0, GotoOther
      DEF RstStop, Goto, PcType, ReinstateInv, RstSteps
    <3>2. ~nv'.commits_enabled => nv'.task = "TPM" \/ pc["CONSOLE"] = "dump"
      BY <2>20, <2>0, OthersKeepLock, EraseKeeps
      DEF RstStop, ReinstateInv
    <3> QED
      BY <3>1, <3>2 DEF ReinstateInv
  <2>21. CASE RstCommit("TPM")
    <3>1. pc'["HOOKS"] \notin RstSteps /\ pc'["CONSOLE"] = pc["CONSOLE"]
      BY <2>21, <2>0, GotoOther
      DEF RstCommit, Goto, PcType, ReinstateInv, RstSteps
    <3>2. ~nv'.commits_enabled => nv'.task = "TPM" \/ pc["CONSOLE"] = "dump"
      BY <2>21, <2>0, CommitEnabled
      DEF RstCommit, ReinstateInv
    <3> QED
      BY <3>1, <3>2 DEF ReinstateInv
  <2>22. CASE RstDisable("TPM")
    <3>1. pc'["HOOKS"] \notin RstSteps
      BY <2>22, <2>0 DEF RstDisable, DisableAndInit, Goto, PcType, ReinstateInv
    <3>2. NvType(nvmem_disable_commits(nv, "TPM"))
      BY <2>0, OpsType
    <3>3. /\ nvmem_disable_commits(nv, "TPM").task = "TPM"
          /\ ~nvmem_disable_commits(nv, "TPM").commits_enabled
      BY <2>0 DEF nvmem_disable_commits, nvmem_lock_cache, NvType
    <3>4. nv'.task = "TPM"
      <4> DEFINE d == nvmem_disable_commits(nv, "TPM")
      <4>1. NvType(nvmem_write(d, "TPM"))
        BY <3>2, OpsType
      <4>2. /\ nvmem_write(d, "TPM").task = "TPM"
            /\ ~nvmem_write(d, "TPM").commits_enabled
        BY <3>2, <3>3, AccessEnabled
      <4>3. nvmem_commit(nvmem_write(d, "TPM"), "TPM").task = "TPM"
        BY <4>1, <4>2, CommitDisabled
      <4> QED
        BY <2>22, <3>3, <4>3 DEF RstDisable, DisableAndInit, TPM_Manufacture
    <3> QED
      BY <3>1, <3>4 DEF ReinstateInv
  <2>23. CASE TpmCommit
    <3>1. pc'["HOOKS"] \notin RstSteps /\ pc'["CONSOLE"] = pc["CONSOLE"]
      BY <2>23, <2>0, GotoOther
      DEF TpmCommit, Goto, PcType, ReinstateInv, RstSteps
    <3>2. ~nv'.commits_enabled => nv'.task = "TPM" \/ pc["CONSOLE"] = "dump"
      BY <2>23, <2>0, CommitEnabled
      DEF TpmCommit, ReinstateInv
    <3> QED
      BY <3>1, <3>2 DEF ReinstateInv
  <2>24. CASE CmdCommitNvmem
    <3>1. pc'["HOOKS"] \notin RstSteps /\ pc'["CONSOLE"] = pc["CONSOLE"]
      BY <2>24, <2>0, GotoOther
      DEF CmdCommitNvmem, Goto, PcType, ReinstateInv, RstSteps
    <3>2. ~nv'.commits_enabled => nv'.task = "TPM" \/ pc["CONSOLE"] = "dump"
      BY <2>24, <2>0, CommitEnabled
      DEF CmdCommitNvmem, ReinstateInv
    <3> QED
      BY <3>1, <3>2 DEF ReinstateInv
  <2>25. CASE CmdEnd
    <3>1. pc'["HOOKS"] \notin RstSteps /\ pc'["CONSOLE"] = pc["CONSOLE"]
      BY <2>25, <2>0, GotoOther
      DEF CmdEnd, Goto, PcType, ReinstateInv, RstSteps
    <3>2. ~nv'.commits_enabled => nv'.task = "TPM" \/ pc["CONSOLE"] = "dump"
      BY <2>25, <2>0, CommitEnabled
      DEF CmdEnd, ReinstateInv
    <3> QED
      BY <3>1, <3>2 DEF ReinstateInv
  <2>26. CASE deferred_set_ap_off
    <3>1. pc'["HOOKS"] \notin RstSteps /\ pc'["CONSOLE"] = pc["CONSOLE"]
      BY <2>26, <2>0, GotoOther
      DEF deferred_set_ap_off, Runs, At, Goto, PcType, ReinstateInv, RstSteps
    <3>2. ~nv'.commits_enabled => nv'.task = "TPM" \/ pc["CONSOLE"] = "dump"
      BY <2>26, <2>0, CommitEnabled
      DEF deferred_set_ap_off, Runs, At, ReinstateInv
    <3> QED
      BY <3>1, <3>2 DEF ReinstateInv
  <2>27. CASE CmdRead
    <3>1. pc'["HOOKS"] \notin RstSteps /\ pc'["CONSOLE"] = pc["CONSOLE"]
      BY <2>27, <2>0, GotoOther
      DEF CmdRead, Goto, PcType, ReinstateInv, RstSteps
    <3>2. ~nv'.commits_enabled => nv'.task = "TPM" \/ pc["CONSOLE"] = "dump"
      BY <2>27, <2>0, AccessEnabled
      DEF CmdRead, ReinstateInv
    <3> QED
      BY <3>1, <3>2 DEF ReinstateInv
  <2>28. CASE CmdWrite
    <3>1. pc'["HOOKS"] \notin RstSteps /\ pc'["CONSOLE"] = pc["CONSOLE"]
      BY <2>28, <2>0, GotoOther
      DEF CmdWrite, Goto, PcType, ReinstateInv, RstSteps
    <3>2. ~nv'.commits_enabled => nv'.task = "TPM" \/ pc["CONSOLE"] = "dump"
      BY <2>28, <2>0, AccessEnabled
      DEF CmdWrite, ReinstateInv
    <3> QED
      BY <3>1, <3>2 DEF ReinstateInv
  <2>29. CASE CmdWipeLater
    <3>1. pc'["HOOKS"] \notin RstSteps /\ pc'["CONSOLE"] = pc["CONSOLE"]
      BY <2>29, <2>0, GotoOther
      DEF CmdWipeLater, Goto, PcType, ReinstateInv, RstSteps
    <3>2. ~nv'.commits_enabled => nv'.task = "TPM" \/ pc["CONSOLE"] = "dump"
      BY <2>29, <2>0, AccessEnabled
      DEF CmdWipeLater, ReinstateInv
    <3> QED
      BY <3>1, <3>2 DEF ReinstateInv
  <2>30. CASE CmdWipeNow
    <3>1. pc'["HOOKS"] \notin RstSteps /\ pc'["CONSOLE"] = pc["CONSOLE"]
      BY <2>30, <2>0, GotoOther
      DEF CmdWipeNow, Goto, PcType, ReinstateInv, RstSteps
    <3>2. ~nv'.commits_enabled => nv'.task = "TPM" \/ pc["CONSOLE"] = "dump"
      BY <2>30, <2>0, AccessEnabled
      DEF CmdWipeNow, ReinstateInv
    <3> QED
      BY <3>1, <3>2 DEF ReinstateInv
  <2>31. CASE board_fwmp_update_policies
    <3>1. pc'["HOOKS"] \notin RstSteps /\ pc'["CONSOLE"] = pc["CONSOLE"]
      BY <2>31, <2>0, GotoOther
      DEF board_fwmp_update_policies, Goto, PcType, ReinstateInv, RstSteps
    <3>2. ~nv'.commits_enabled => nv'.task = "TPM" \/ pc["CONSOLE"] = "dump"
      BY <2>31, <2>0, AccessEnabled
      DEF board_fwmp_update_policies, ReinstateInv, CanLock, ConsoleHolds, NoTask
    <3> QED
      BY <3>1, <3>2 DEF ReinstateInv
  <2>32. CASE UsbFwmp
    <3>1. pc'["HOOKS"] \notin RstSteps /\ pc'["CONSOLE"] = pc["CONSOLE"]
      BY <2>32, <2>0, GotoOther
      DEF UsbFwmp, Goto, PcType, ReinstateInv, RstSteps
    <3>2. ~nv'.commits_enabled => nv'.task = "TPM" \/ pc["CONSOLE"] = "dump"
      BY <2>32, <2>0, AccessEnabled
      DEF UsbFwmp, ReinstateInv, CanLock, ConsoleHolds, NoTask
    <3> QED
      BY <3>1, <3>2 DEF ReinstateInv
  <2>33. CASE DumpStart
    <3>1. pc'["HOOKS"] = pc["HOOKS"]
      BY <2>33, <2>0 DEF DumpStart, Goto, PcType
    <3>2. ~nv'.commits_enabled => nv'.task = "TPM" \/ pc'["CONSOLE"] = "dump"
      BY <2>33, <2>0
      DEF DumpStart, At, Goto, PcType, ReinstateInv, ConsoleHolds
    <3> QED
      BY <2>0, <3>1, <3>2 DEF ReinstateInv
  <2>34. CASE DumpEnd
    <3>1. pc'["HOOKS"] = pc["HOOKS"]
      BY <2>34, <2>0 DEF DumpEnd, Goto, PcType
    <3>2. ~nv'.commits_enabled => nv'.task = "TPM" \/ pc'["CONSOLE"] = "dump"
      BY <2>34, <2>0, CommitEnabled
      DEF DumpEnd, At, Goto, PcType, ReinstateInv, ConsoleHolds
    <3> QED
      BY <2>0, <3>1, <3>2 DEF ReinstateInv
  <2>35. CASE EfsWrite
    <3>1. pc'["HOOKS"] = pc["HOOKS"]
      BY <2>35, <2>0 DEF EfsWrite, Goto, PcType
    <3>2. ~nv'.commits_enabled => nv'.task = "TPM" \/ pc'["CONSOLE"] = "dump"
      <4>1. nv.commits_enabled
        BY <2>35, <2>0
        DEF EfsWrite, At, ReinstateInv, CanLock, NoTask
      <4>2. NvType(nvmem_read(nv, "CONSOLE"))
        BY <2>0, OpsType
      <4>3. /\ nvmem_read(nv, "CONSOLE").commits_enabled
            /\ nvmem_write(nvmem_read(nv, "CONSOLE"), "CONSOLE").commits_enabled
        BY <2>0, <4>1, <4>2, AccessEnabled
      <4> QED
        BY <2>35, <4>1, <4>3 DEF EfsWrite
    <3> QED
      BY <2>0, <3>1, <3>2 DEF ReinstateInv
  <2>36. CASE EfsUnlock
    <3>1. pc'["HOOKS"] = pc["HOOKS"]
      BY <2>36, <2>0 DEF EfsUnlock, Goto, PcType
    <3>2. ~nv'.commits_enabled => nv'.task = "TPM" \/ pc'["CONSOLE"] = "dump"
      BY <2>36, <2>0
      DEF EfsUnlock, At, Goto, PcType, ReinstateInv, ConsoleHolds, nvmem_unlock_cache, nvmem_release_cache, NvType
    <3> QED
      BY <2>0, <3>1, <3>2 DEF ReinstateInv
  <2>37. CASE AltPoll
    <3>1. pc'["HOOKS"] = pc["HOOKS"]
      BY <2>37, <2>0 DEF AltPoll, Goto, PcType
    <3>2. ~nv'.commits_enabled => nv'.task = "TPM" \/ pc'["CONSOLE"] = "dump"
      BY <2>37, <2>0
      DEF AltPoll, At, Goto, PcType, ReinstateInv, ConsoleHolds
    <3> QED
      BY <2>0, <3>1, <3>2 DEF ReinstateInv
  <2>38. CASE ConsoleInput
    <3>1. pc'["HOOKS"] = pc["HOOKS"]
      BY <2>38, <2>0 DEF ConsoleInput, Goto, PcType
    <3>2. ~nv'.commits_enabled => nv'.task = "TPM" \/ pc'["CONSOLE"] = "dump"
      BY <2>38, <2>0
      DEF ConsoleInput, At, Goto, PcType, ReinstateInv, ConsoleHolds
    <3> QED
      BY <2>0, <3>1, <3>2 DEF ReinstateInv
  <2>39. CASE tpm_alt_extension
    <3>1. pc'["HOOKS"] = pc["HOOKS"]
      BY <2>39, <2>0 DEF tpm_alt_extension, Goto, PcType
    <3>2. ~nv'.commits_enabled => nv'.task = "TPM" \/ pc'["CONSOLE"] = "dump"
      BY <2>39, <2>0
      DEF tpm_alt_extension, At, Goto, PcType, ReinstateInv, ConsoleHolds
    <3> QED
      BY <2>0, <3>1, <3>2 DEF ReinstateInv
  <2>40. CASE SystemReset \/ DeepSleep \/ PowerLoss
    <3>1. PICK r : Boot(nv.flash, nv.writes, r)
      BY <2>40 DEF SystemReset, DeepSleep, PowerLoss
    <3>2. nv'.commits_enabled
      BY <3>1 DEF Boot, nvmem_init
    <3>3. pc'["HOOKS"] = "loop"
      BY <3>1 DEF Boot, BootPc
    <3> QED
      BY <3>2, <3>3 DEF ReinstateInv, RstSteps
  <2>41. CASE UNCHANGED vars
    BY <2>41, <2>0 DEF vars, ReinstateInv
  <2>42. ~TpmReset_("HOOKS")
    BY <2>0 DEF TpmReset_, RstStop, RstCommit, RstDisable, DisableAndInit,
                RstStart, At, ReinstateInv, RstSteps
  <2> QED
    BY <2>2, <2>3, <2>4, <2>5, <2>6, <2>7, <2>8, <2>9, <2>10, <2>11, <2>12,
       <2>13, <2>14, <2>15, <2>16, <2>17, <2>18, <2>19, <2>20, <2>21,
       <2>22, <2>23, <2>24, <2>25, <2>26, <2>27, <2>28, <2>29, <2>30,
       <2>31, <2>32, <2>33, <2>34, <2>35, <2>36, <2>37, <2>38, <2>39,
       <2>40, <2>41, <2>42
    DEF Next, TpmTask, HooksTask, ConsoleTask, Environment, TpmReset_
<1> QED
  BY <1>1, <1>2, TypeCorrect, LockInvHolds, PTL DEF Spec

\* As long as no USB command resets the TPM from the HOOKS task, commits that
\* are disabled can be enabled by the TPM task, which TPM_EVENT_COMMIT wakes,
\* or will be by the console command that disabled them.
THEOREM TpmAlwaysCanReinstate ==
    ASSUME "usb_open" \notin Deferred
    PROVE  Spec => []TpmCanReinstate
<1>1. ReinstateInv => TpmCanReinstate
  BY DEF ReinstateInv, TpmCanReinstate
<1> QED
  BY <1>1, ReinstateInvHolds, PTL

=============================================================================
