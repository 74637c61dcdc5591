--------------------------- MODULE Kernel_proofs ---------------------------
(***************************************************************************)
(* Proofs about Kernel for any number of tasks and deferred functions.     *)
(***************************************************************************)
EXTENDS Kernel, WellFoundedInduction, TLAPS

\* Only HOOKS is inside of hook_task(), and while it deals with a function,
\* that function exists.
HookSteps == {"top", "check", "cancel", "call", "next", "compute", "decide"}

HookInv ==
    /\ \A t \in Tasks : pc[t] \in HookSteps => t = HOOKS
    /\ pc[HOOKS] \notin {"top", "check", "next", "compute", "decide", "wait"}
         => hook.i \in Funcs

\* A task is in a phase of a wait only while it waits.  A timer runs, and its
\* event is pending, only inside of a wait with a timeout, the timer until it
\* is cancelled and the event until it is dropped.
QuietTimer(t) == t \notin timer_running /\ "TIMER" \notin events[t]

TimerInv ==
    \A t \in Tasks :
        /\ pc[t] \notin Waits => phase[t] = "call"
        /\ phase[t] = "drop" => t \notin timer_running
        /\ phase[t] \in {"call", "return"} \/ t \notin timed => QuietTimer(t)

\* The lock field holds the task that is at a step of an owner; a task that
\* tries or waits is among the waiters; only a task that wakes has a list.
LockOwner == \A t \in Tasks : pc[t] \in Owning <=> mtx.lock = t

MutexInv ==
    /\ LockOwner
    /\ \A t \in Tasks : pc[t] \in {"try", "mutex"} => t \in mtx.waiters
    /\ \A t \in Tasks : pc[t] # "wake" => snap[t] = {}

----------------------------------------------------------------------------
(* The tasks. *)

\* HOOKS is one of the tasks.
LEMMA HooksIsTask == HOOKS \in Tasks
<1>1. \E t \in Tasks : \A u \in Tasks : t <= u
  <2>1. PICK t \in Tasks : \A u \in Tasks : <<u, t>> \notin OpToRel(<, Nat)
    BY WFMin, NatLessThanWellFounded, TasksAssumption
  <2>2. \A u \in Tasks : ~(u < t)
    BY <2>1, TasksAssumption DEF OpToRel
  <2> QED
    BY <2>2, TasksAssumption
<1> QED
  BY <1>1 DEF HOOKS

\* The steps at which a task waits.
LEMMA WaitsAre == Waits = {"wait", "mutex", "hw"}
BY DEF Waits, Mask

\* A step of the mutex moves a task within mutex_lock() and mutex_unlock().
LEMMA MutexPc ==
    ASSUME TypeOK, HookInv, NEW t \in Tasks,
           pc[t] \in {"lock", "try", "clear", "work", "wake"},
           NEW s \in {"try", "mutex", "clear", "work", "hw", "wake", "end"},
           pc' = [pc EXCEPT ![t] = s], UNCHANGED hook
    PROVE  pc' \in [Tasks -> Steps] /\ HookInv'
<1>1. s \in Steps
  BY WaitsAre DEF Steps, Owning
<1>2. pc' \in [Tasks -> Steps]
  BY <1>1 DEF TypeOK
<1>3. \A u \in Tasks : pc'[u] = IF u = t THEN s ELSE pc[u]
  BY DEF TypeOK
<1>4. HookInv'
  BY <1>3, HooksIsTask DEF HookInv, HookSteps
<1> QED
  BY <1>2, <1>4

\* Every variable keeps its type, and hook_task() stays within its table of
\* functions, for every number of tasks, functions and interrupts.
THEOREM TypeCorrect == Spec => [](TypeOK /\ HookInv)
<1> USE HooksIsTask, WaitsAre, TasksAssumption, BoundsAssumption
    DEF Steps, Owning, Phases, Events, Free, Funcs, HookSteps
<1>1. Init => TypeOK /\ HookInv
  <2> SUFFICES ASSUME Init PROVE TypeOK /\ HookInv
    OBVIOUS
  <2>1. HookInv
    BY DEF Init, HookInv
  <2>2. pc \in [Tasks -> Steps] /\ events \in [Tasks -> SUBSET Events]
        /\ got \in [Tasks -> SUBSET Events] /\ snap \in [Tasks -> SUBSET Tasks]
    BY DEF Init
  <2>3. mtx \in [lock : Tasks \cup {Free}, waiters : SUBSET Tasks]
        /\ hook \in [i : 1 .. NumFuncs + 1, due : SUBSET Funcs]
    BY DEF Init
  <2>4. phase \in [Tasks -> Phases] /\ deferred_until \in [Funcs -> {"off", "later", "past"}]
    BY DEF Init
  <2>5. ready \subseteq Tasks /\ timed \subseteq Tasks /\ timer_running \subseteq Tasks
        /\ owed \subseteq Funcs /\ irqs \in 0 .. MaxIrq
    BY DEF Init
  <2>6. defer_new_call \in BOOLEAN
    BY Zenon DEF Init
  <2> HIDE DEF Steps, Phases, Events, Funcs
  <2> QED
    BY <2>1, <2>2, <2>3, <2>4, <2>5, <2>6 DEF TypeOK
<1>2. TypeOK /\ HookInv /\ [Next]_vars => TypeOK' /\ HookInv'
  <2> SUFFICES ASSUME TypeOK, HookInv, [Next]_vars
               PROVE  TypeOK' /\ HookInv'
    OBVIOUS
  <2>1. ASSUME NEW t \in Tasks, timer_arm(t) PROVE TypeOK' /\ HookInv'
    BY <2>1 DEF timer_arm, At, Current, GoTo, wait, hooks, InWait, Phase,
       TypeOK, HookInv
  <2>2. ASSUME NEW t \in Tasks, TakeEvents(t) PROVE TypeOK' /\ HookInv'
    BY <2>2 DEF TakeEvents, At, Current, GoTo, wait, hooks, InWait, Phase,
       TypeOK, HookInv
  <2>3. ASSUME NEW t \in Tasks, Sleep(t) PROVE TypeOK' /\ HookInv'
    BY <2>3 DEF Sleep, At, Current, GoTo, wait, hooks, InWait, Phase,
       Desched, TypeOK, HookInv
  <2>4. ASSUME NEW t \in Tasks, timer_cancel(t) PROVE TypeOK' /\ HookInv'
    BY <2>4 DEF timer_cancel, At, Current, GoTo, wait, hooks, InWait, Phase,
       TypeOK, HookInv
  <2>5. ASSUME NEW t \in Tasks, WaitEnd(t) PROVE TypeOK' /\ HookInv'
    BY <2>5 DEF WaitEnd, At, Current, GoTo, wait, hooks, InWait, Phase,
       DropTimer, TypeOK, HookInv
  <2>6. ASSUME NEW t \in Tasks, task_wait_event_mask(t) PROVE TypeOK' /\ HookInv'
    <3>1. PICK late \in SUBSET {"TIMER"} :
             \/ /\ events' = [events EXCEPT ![t] = @ \cup ((got[t] \cup late) \ Mask[pc[t]])]
                /\ got' = [got EXCEPT ![t] = {}]
                /\ GoTo(t, AfterWait(t))
             \/ UNCHANGED <<events, got, pc>>
      BY <2>6 DEF task_wait_event_mask, Repost
    <3>2. events' \in [Tasks -> SUBSET Events] /\ got' \in [Tasks -> SUBSET Events]
      <4>1. late \in SUBSET Events /\ got[t] \in SUBSET Events
            /\ events \in [Tasks -> SUBSET Events] /\ got \in [Tasks -> SUBSET Events]
        BY DEF TypeOK
      <4> HIDE DEF Events
      <4> QED
        BY <3>1, <4>1
    <3>4. AfterWait(t) \in Steps
          /\ (AfterWait(t) = "top" <=> pc[t] = "wait" /\ t = HOOKS)
          /\ (AfterWait(t) \in {"top", "try", "work", "lock"})
      BY <2>6 DEF task_wait_event_mask, InWait, AfterWait, TypeOK
    <3>5. pc' \in [Tasks -> Steps]
      BY <3>1, <3>4 DEF GoTo, TypeOK
    <3>6. HookInv'
      BY <2>6, <3>1, <3>4, <3>5 DEF task_wait_event_mask, InWait, GoTo, TypeOK, HookInv, hooks
    <3>3. phase' \in [Tasks -> Phases] /\ timed' \subseteq Tasks
      BY <2>6 DEF task_wait_event_mask, Phase, TypeOK
    <3> QED
      BY <2>6, <3>2, <3>3, <3>5, <3>6 DEF task_wait_event_mask, hooks, TypeOK
  <2>7. ASSUME NEW t \in Tasks, mutex_lock(t) PROVE TypeOK' /\ HookInv'
    <3>1. pc' \in [Tasks -> Steps] /\ HookInv'
      BY <2>7, MutexPc DEF mutex_lock, At, GoTo, hooks
    <3>2. mtx' \in [lock : Tasks \cup {Free}, waiters : SUBSET Tasks]
      BY <2>7 DEF mutex_lock, TypeOK
    <3> QED
      BY <2>7, <3>1, <3>2 DEF mutex_lock, wait, hooks, TypeOK
  <2>8. ASSUME NEW t \in Tasks, TryLock(t) PROVE TypeOK' /\ HookInv'
    <3>1. pc' \in [Tasks -> Steps] /\ HookInv'
      BY <2>8, MutexPc DEF TryLock, At, GoTo, hooks
    <3>2. mtx' \in [lock : Tasks \cup {Free}, waiters : SUBSET Tasks]
      BY <2>8 DEF TryLock, TypeOK
    <3> QED
      BY <2>8, <3>1, <3>2 DEF TryLock, wait, hooks, TypeOK
  <2>9. ASSUME NEW t \in Tasks, ClearWaiter(t) PROVE TypeOK' /\ HookInv'
    <3>1. pc' \in [Tasks -> Steps] /\ HookInv'
      BY <2>9, MutexPc DEF ClearWaiter, At, GoTo, hooks
    <3>2. mtx' \in [lock : Tasks \cup {Free}, waiters : SUBSET Tasks]
      BY <2>9 DEF ClearWaiter, TypeOK
    <3> QED
      BY <2>9, <3>1, <3>2 DEF ClearWaiter, wait, hooks, TypeOK
  <2>10. ASSUME NEW t \in Tasks, StartHw(t) PROVE TypeOK' /\ HookInv'
    <3>1. pc' \in [Tasks -> Steps] /\ HookInv'
      BY <2>10, MutexPc DEF StartHw, At, GoTo, hooks
    <3> QED
      BY <2>10, <3>1 DEF StartHw, wait, hooks, TypeOK
  <2>11. ASSUME NEW t \in Tasks, mutex_unlock(t) PROVE TypeOK' /\ HookInv'
    <3>1. pc' \in [Tasks -> Steps] /\ HookInv'
      BY <2>11, MutexPc DEF mutex_unlock, At, GoTo, hooks
    <3>2. mtx' \in [lock : Tasks \cup {Free}, waiters : SUBSET Tasks]
      BY <2>11 DEF mutex_unlock, TypeOK
    <3>3. snap' \in [Tasks -> SUBSET Tasks]
      BY <2>11 DEF mutex_unlock, TypeOK
    <3> QED
      BY <2>11, <3>1, <3>2, <3>3 DEF mutex_unlock, wait, hooks, TypeOK
  <2>12. ASSUME NEW t \in Tasks, WakeWaiter(t) PROVE TypeOK' /\ HookInv'
    <3>1. CASE snap[t] = {}
      <4>1. pc[t] = "wake" /\ pc' = [pc EXCEPT ![t] = "end"]
            /\ UNCHANGED <<ready, events, snap>>
        BY <2>12, <3>1 DEF WakeWaiter, At, GoTo
      <4>2. pc' \in [Tasks -> Steps]
        BY <4>1 DEF TypeOK
      <4>3. HookInv'
        BY <2>12, <4>1 DEF WakeWaiter, hooks, TypeOK, HookInv
      <4> QED
        BY <2>12, <4>1, <4>2, <4>3 DEF WakeWaiter, wait, hooks, TypeOK
    <3>2. ASSUME NEW u \in snap[t],
                 snap' = [snap EXCEPT ![t] = @ \ {u}],
                 task_set_event(u, "MUTEX"), UNCHANGED pc
          PROVE  TypeOK' /\ HookInv'
      <4>1. u \in Tasks
        BY DEF TypeOK
      <4>2. ready' \subseteq Tasks /\ events' \in [Tasks -> SUBSET Events]
        BY <3>2, <4>1 DEF task_set_event, TypeOK
      <4>3. snap' \in [Tasks -> SUBSET Tasks]
        BY <3>2 DEF TypeOK
      <4> QED
        BY <2>12, <3>2, <4>2, <4>3 DEF WakeWaiter, wait, hooks, TypeOK, HookInv
    <3> QED
      BY <2>12, <3>1, <3>2 DEF WakeWaiter
  <2>13. ASSUME NEW t \in Tasks, UnlockEnd(t) PROVE TypeOK' /\ HookInv'
    <3>1. events' \in [Tasks -> SUBSET Events]
      BY <2>13 DEF UnlockEnd, TypeOK
    <3>2. pc' \in [Tasks -> Steps]
      <4>1. pc' = [pc EXCEPT ![t] = "wait"] \/ pc' = [pc EXCEPT ![t] = "check"]
        BY <2>13 DEF UnlockEnd, GoTo
      <4> QED
        BY <4>1 DEF TypeOK
    <3>3. hook' \in [i : 1 .. NumFuncs + 1, due : SUBSET Funcs]
      <4>1. CASE t # HOOKS
        BY <2>13, <4>1 DEF UnlockEnd, TypeOK
      <4>2. CASE t = HOOKS
        <5>1. hook.i \in Funcs /\ hook' = [hook EXCEPT !.i = @ + 1]
          BY <2>13, <4>2 DEF UnlockEnd, At, HookInv
        <5>2. hook.i + 1 \in 1 .. NumFuncs + 1
          BY <5>1
        <5> QED
          BY <5>1, <5>2 DEF TypeOK
      <4> QED
        BY <4>1, <4>2
    <3>4. HookInv'
      BY <2>13 DEF UnlockEnd, At, GoTo, TypeOK, HookInv
    <3> QED
      BY <2>13, <3>1, <3>2, <3>3, <3>4 DEF UnlockEnd, wait, Returned, TypeOK
  <2>14. ASSUME NEW t \in Tasks, IrqWake(t) PROVE TypeOK' /\ HookInv'
    BY <2>14 DEF IrqWake, At, Current, GoTo, wait, hooks, task_set_event,
       TypeOK, HookInv
  <2>15. ASSUME NEW t \in Tasks, IrqHw(t) PROVE TypeOK' /\ HookInv'
    BY <2>15 DEF IrqHw, At, Current, GoTo, wait, hooks, task_set_event,
       TypeOK, HookInv
  <2>16. ASSUME NEW t \in Tasks, expire_timer(t) PROVE TypeOK' /\ HookInv'
    BY <2>16 DEF expire_timer, At, Current, GoTo, wait, hooks,
       task_set_event, TypeOK, HookInv
  <2>17. ASSUME NEW f \in Funcs, hook_call_deferred(f) PROVE TypeOK' /\ HookInv'
    <3>1. ready' \subseteq Tasks /\ events' \in [Tasks -> SUBSET Events]
      BY <2>17 DEF hook_call_deferred, task_set_event, TypeOK
    <3>2. hook' \in [i : 1 .. NumFuncs + 1, due : SUBSET Funcs] /\ hook'.i = hook.i
      BY <2>17 DEF hook_call_deferred, TypeOK
    <3>3. irqs' \in 0 .. MaxIrq /\ deferred_until' \in [Funcs -> {"off", "later", "past"}]
      BY <2>17 DEF hook_call_deferred, TypeOK
    <3> QED
      BY <2>17, <3>1, <3>2, <3>3 DEF hook_call_deferred, wait, TypeOK, HookInv
  <2>18. ASSUME NEW f \in Funcs, CancelDeferred(f) PROVE TypeOK' /\ HookInv'
    <3>1. hook' \in [i : 1 .. NumFuncs + 1, due : SUBSET Funcs] /\ hook'.i = hook.i
      BY <2>18 DEF CancelDeferred, TypeOK
    <3>2. irqs' \in 0 .. MaxIrq /\ deferred_until' \in [Funcs -> {"off", "later", "past"}]
      BY <2>18 DEF CancelDeferred, TypeOK
    <3> QED
      BY <2>18, <3>1, <3>2 DEF CancelDeferred, wait, TypeOK, HookInv
  <2>19. ASSUME NEW f \in Funcs, TimePasses(f) PROVE TypeOK' /\ HookInv'
    BY <2>19 DEF TimePasses, At, Current, GoTo, wait, hooks, TypeOK, HookInv
  <2>20. CASE hook_task
    BY <2>20 DEF hook_task, At, Current, GoTo, wait, hooks, TypeOK, HookInv
  <2>21. CASE CheckDeferred
    <3>1. pc' \in [Tasks -> Steps] /\ hook' \in [i : 1 .. NumFuncs + 1, due : SUBSET Funcs]
      <4>1. \/ UNCHANGED hook
                /\ (pc' = [pc EXCEPT ![HOOKS] = "next"] \/ pc' = [pc EXCEPT ![HOOKS] = "cancel"])
            \/ hook.i <= NumFuncs /\ UNCHANGED pc /\ hook' = [hook EXCEPT !.i = @ + 1]
        BY <2>21 DEF CheckDeferred, GoTo, TypeOK
      <4>2. hook.i <= NumFuncs => hook.i + 1 \in 1 .. NumFuncs + 1
        BY DEF TypeOK
      <4> QED
        BY <4>1, <4>2 DEF TypeOK
    <3>2. HookInv'
      BY <2>21 DEF CheckDeferred, At, GoTo, TypeOK, HookInv
    <3> QED
      BY <2>21, <3>1, <3>2 DEF CheckDeferred, wait, TypeOK
  <2>22. CASE ClearDeferred
    BY <2>22 DEF ClearDeferred, At, Current, GoTo, wait, hooks, TypeOK,
       HookInv
  <2>23. CASE CallDeferred
    BY <2>23 DEF CallDeferred, At, Current, GoTo, wait, hooks, TypeOK,
       HookInv
  <2>24. CASE NextTime
    BY <2>24 DEF NextTime, At, Current, GoTo, wait, hooks, TypeOK, HookInv
  <2>25. CASE ComputeNext
    BY <2>25 DEF ComputeNext, At, Current, GoTo, wait, hooks, TypeOK,
       HookInv
  <2>26. CASE DecideToSleep
    BY <2>26 DEF DecideToSleep, At, Current, GoTo, wait, hooks, TypeOK,
       HookInv
  <2>27. CASE UNCHANGED vars
    BY <2>27 DEF vars, wait, hooks, TypeOK, HookInv
  <2> QED
    BY <2>1, <2>2, <2>3, <2>4, <2>5, <2>6, <2>7, <2>8, <2>9, <2>10, <2>11,
       <2>12, <2>13, <2>14, <2>15, <2>16, <2>17, <2>18, <2>19, <2>20, <2>21,
       <2>22, <2>23, <2>24, <2>25, <2>26, <2>27 DEF Next, Running, WaitStep,
       MutexStep, HookStep
<1> QED
  BY <1>1, <1>2, PTL DEF Spec

\* The switcher never leaves an event with a task that sleeps: a task takes its
\* own events away while it runs, and the system call that clears its ready bit
\* looks at the events again.
THEOREM NoEventIsLeftAsleep == Spec => []NoEventAsleep
<1>1. Init => NoEventAsleep
  BY DEF Init, NoEventAsleep
<1>2. TypeOK /\ NoEventAsleep /\ [Next]_vars => NoEventAsleep'
  <2> SUFFICES ASSUME TypeOK, NoEventAsleep, [Next]_vars
               PROVE  NoEventAsleep'
    OBVIOUS
  <2>1. ASSUME NEW t \in Tasks, TakeEvents(t) PROVE NoEventAsleep'
    BY <2>1, HooksIsTask DEF TakeEvents, InWait, Current, TypeOK,
       NoEventAsleep
  <2>2. ASSUME NEW t \in Tasks, Sleep(t) PROVE NoEventAsleep'
    BY <2>2, HooksIsTask DEF Sleep, InWait, Current, Desched, TypeOK,
       NoEventAsleep
  <2>3. ASSUME NEW t \in Tasks, WaitEnd(t) PROVE NoEventAsleep'
    BY <2>3, HooksIsTask DEF WaitEnd, InWait, Current, DropTimer, TypeOK,
       NoEventAsleep
  <2>4. ASSUME NEW t \in Tasks, task_wait_event_mask(t) PROVE NoEventAsleep'
    BY <2>4, HooksIsTask DEF task_wait_event_mask, InWait, Current, TypeOK,
       NoEventAsleep
  <2>5. ASSUME NEW t \in Tasks, WakeWaiter(t) PROVE NoEventAsleep'
    BY <2>5, HooksIsTask DEF WakeWaiter, task_set_event, TypeOK, NoEventAsleep
  <2>6. ASSUME NEW t \in Tasks, UnlockEnd(t) PROVE NoEventAsleep'
    BY <2>6, HooksIsTask DEF UnlockEnd, At, Current, TypeOK, NoEventAsleep
  <2>7. ASSUME NEW t \in Tasks, IrqWake(t) PROVE NoEventAsleep'
    BY <2>7, HooksIsTask DEF IrqWake, task_set_event, TypeOK, NoEventAsleep
  <2>8. ASSUME NEW t \in Tasks, IrqHw(t) PROVE NoEventAsleep'
    BY <2>8, HooksIsTask DEF IrqHw, task_set_event, TypeOK, NoEventAsleep
  <2>9. ASSUME NEW t \in Tasks, expire_timer(t) PROVE NoEventAsleep'
    BY <2>9, HooksIsTask DEF expire_timer, task_set_event, TypeOK,
       NoEventAsleep
  <2>10. ASSUME NEW f \in Funcs, hook_call_deferred(f) PROVE NoEventAsleep'
    BY <2>10, HooksIsTask DEF hook_call_deferred, task_set_event, TypeOK,
       NoEventAsleep
  <2>11. CASE UNCHANGED <<ready, events>>
    BY <2>11, HooksIsTask DEF TypeOK, NoEventAsleep
  <2> QED
    BY <2>1, <2>2, <2>3, <2>4, <2>5, <2>6, <2>7, <2>8, <2>9, <2>10, <2>11 DEF
       Next, Running, WaitStep, MutexStep, HookStep, timer_arm, timer_cancel,
       mutex_lock, TryLock, ClearWaiter, StartHw, mutex_unlock,
       CancelDeferred, TimePasses, hook_task, CheckDeferred, ClearDeferred,
       CallDeferred, NextTime, ComputeNext, DecideToSleep, vars, wait, hooks
<1> QED
  BY <1>1, <1>2, TypeCorrect, PTL DEF Spec

\* The timer of a wait and its event live inside of that wait.
LEMMA TimerStep ==
    TypeOK /\ TimerInv /\ [Next]_vars => TimerInv'
<1> USE HooksIsTask, WaitsAre
<1> SUFFICES ASSUME TypeOK, TimerInv, [Next]_vars
             PROVE  TimerInv'
  OBVIOUS
<1>1. ASSUME NEW t \in Tasks, timer_arm(t) PROVE TimerInv'
  BY <1>1 DEF timer_arm, InWait, Phase, TypeOK, TimerInv, QuietTimer
<1>2. ASSUME NEW t \in Tasks, TakeEvents(t) PROVE TimerInv'
  BY <1>2 DEF TakeEvents, InWait, Phase, TypeOK, TimerInv, QuietTimer
<1>3. ASSUME NEW t \in Tasks, Sleep(t) PROVE TimerInv'
  BY <1>3 DEF Sleep, InWait, Phase, TypeOK, TimerInv, QuietTimer
<1>4. ASSUME NEW t \in Tasks, timer_cancel(t) PROVE TimerInv'
  BY <1>4 DEF timer_cancel, InWait, Phase, TypeOK, TimerInv, QuietTimer
<1>5. ASSUME NEW t \in Tasks, WaitEnd(t) PROVE TimerInv'
  BY <1>5 DEF WaitEnd, InWait, Phase, DropTimer, TypeOK, TimerInv,
     QuietTimer
<1>6. ASSUME NEW t \in Tasks, task_wait_event_mask(t) PROVE TimerInv'
  <2>1. pc[t] \in Waits /\ "TIMER" \in Mask[pc[t]]
    BY <1>6 DEF task_wait_event_mask, InWait, Waits, Mask, Events
  <2>2. AfterWait(t) \notin Waits
    BY WaitsAre DEF AfterWait
  <2> QED
    BY <1>6, <2>1, <2>2 DEF task_wait_event_mask, InWait, Phase, GoTo, Repost,
       TypeOK, TimerInv, QuietTimer
<1>7. ASSUME NEW t \in Tasks, mutex_lock(t) PROVE TimerInv'
  BY <1>7 DEF mutex_lock, At, GoTo, wait, TypeOK, TimerInv, QuietTimer
<1>8. ASSUME NEW t \in Tasks, TryLock(t) PROVE TimerInv'
  BY <1>8 DEF TryLock, At, GoTo, wait, TypeOK, TimerInv, QuietTimer
<1>9. ASSUME NEW t \in Tasks, ClearWaiter(t) PROVE TimerInv'
  BY <1>9 DEF ClearWaiter, At, GoTo, wait, TypeOK, TimerInv, QuietTimer
<1>10. ASSUME NEW t \in Tasks, StartHw(t) PROVE TimerInv'
  BY <1>10 DEF StartHw, At, GoTo, wait, TypeOK, TimerInv, QuietTimer
<1>11. ASSUME NEW t \in Tasks, mutex_unlock(t) PROVE TimerInv'
  BY <1>11 DEF mutex_unlock, At, GoTo, wait, TypeOK, TimerInv, QuietTimer
<1>12. ASSUME NEW t \in Tasks, WakeWaiter(t) PROVE TimerInv'
  BY <1>12 DEF WakeWaiter, At, GoTo, wait, task_set_event, TypeOK, TimerInv,
     QuietTimer
<1>13. ASSUME NEW t \in Tasks, UnlockEnd(t) PROVE TimerInv'
  BY <1>13 DEF UnlockEnd, At, GoTo, wait, TypeOK, TimerInv, QuietTimer
<1>14. ASSUME NEW t \in Tasks, IrqWake(t) PROVE TimerInv'
  BY <1>14 DEF IrqWake, task_set_event, wait, TypeOK, TimerInv, QuietTimer
<1>15. ASSUME NEW t \in Tasks, IrqHw(t) PROVE TimerInv'
  BY <1>15 DEF IrqHw, task_set_event, wait, TypeOK, TimerInv, QuietTimer
<1>16. ASSUME NEW t \in Tasks, expire_timer(t) PROVE TimerInv'
  BY <1>16 DEF expire_timer, task_set_event, wait, TypeOK, TimerInv,
     QuietTimer
<1>17. ASSUME NEW f \in Funcs, hook_call_deferred(f) PROVE TimerInv'
  BY <1>17 DEF hook_call_deferred, task_set_event, wait, TypeOK, TimerInv,
     QuietTimer
<1>18. CASE hook_task
  BY <1>18 DEF hook_task, At, GoTo, wait, TypeOK, TimerInv, QuietTimer
<1>19. CASE CheckDeferred
  BY <1>19 DEF CheckDeferred, At, GoTo, wait, TypeOK, TimerInv, QuietTimer
<1>20. CASE ClearDeferred
  BY <1>20 DEF ClearDeferred, At, GoTo, wait, TypeOK, TimerInv, QuietTimer
<1>21. CASE CallDeferred
  BY <1>21 DEF CallDeferred, At, GoTo, wait, TypeOK, TimerInv, QuietTimer
<1>22. CASE NextTime
  BY <1>22 DEF NextTime, At, GoTo, wait, TypeOK, TimerInv, QuietTimer
<1>23. CASE ComputeNext
  BY <1>23 DEF ComputeNext, At, GoTo, wait, TypeOK, TimerInv, QuietTimer
<1>24. CASE DecideToSleep
  BY <1>24 DEF DecideToSleep, At, GoTo, wait, TypeOK, TimerInv, QuietTimer
<1>25. CASE UNCHANGED <<events, pc, phase, timed, timer_running>>
  BY <1>25 DEF TypeOK, TimerInv, QuietTimer
<1> QED
  BY <1>1, <1>2, <1>3, <1>4, <1>5, <1>6, <1>7, <1>8, <1>9, <1>10, <1>11,
     <1>12, <1>13, <1>14, <1>15, <1>16, <1>17, <1>18, <1>19, <1>20, <1>21,
     <1>22, <1>23, <1>24, <1>25 DEF Next, Running, WaitStep, MutexStep,
     HookStep, CancelDeferred, TimePasses, vars, wait, hooks

\* No wait leaves a running timer or a timer event behind, also when the timer
\* expires while the wait ends for another reason.
THEOREM NoTimerIsStale == Spec => []NoStaleTimer
<1>1. Init => TimerInv
  BY WaitsAre DEF Init, TimerInv, QuietTimer
<1>2. TimerInv => NoStaleTimer
  BY DEF TimerInv, QuietTimer, NoStaleTimer
<1> QED
  BY <1>1, <1>2, TimerStep, TypeCorrect, PTL DEF Spec

\* The lock field, the waiters and the lists of the mutex go with the steps of
\* the tasks.
LEMMA LockStep ==
    TypeOK /\ MutexInv /\ [Next]_vars => MutexInv'
<1> USE HooksIsTask, WaitsAre, TasksAssumption DEF Owning, Free
<1> SUFFICES ASSUME TypeOK, MutexInv, [Next]_vars
             PROVE  MutexInv'
  OBVIOUS
<1>1. ASSUME NEW t \in Tasks, task_wait_event_mask(t) PROVE MutexInv'
  <2>1. pc[t] \in Waits
        /\ AfterWait(t) = IF pc[t] = "mutex" THEN "try"
                          ELSE IF pc[t] = "hw" THEN "work"
                          ELSE IF t = HOOKS THEN "top" ELSE "lock"
    BY <1>1 DEF task_wait_event_mask, InWait, AfterWait
  <2> QED
    BY <1>1, <2>1 DEF task_wait_event_mask, GoTo, TypeOK, MutexInv, LockOwner
<1>2. ASSUME NEW t \in Tasks, mutex_lock(t) PROVE MutexInv'
  BY <1>2 DEF mutex_lock, At, GoTo, TypeOK, MutexInv, LockOwner
<1>3. ASSUME NEW t \in Tasks, TryLock(t) PROVE MutexInv'
  BY <1>3 DEF TryLock, At, GoTo, TypeOK, MutexInv, LockOwner
<1>4. ASSUME NEW t \in Tasks, ClearWaiter(t) PROVE MutexInv'
  BY <1>4 DEF ClearWaiter, At, GoTo, TypeOK, MutexInv, LockOwner
<1>5. ASSUME NEW t \in Tasks, StartHw(t) PROVE MutexInv'
  BY <1>5 DEF StartHw, At, GoTo, TypeOK, MutexInv, LockOwner
<1>6. ASSUME NEW t \in Tasks, mutex_unlock(t) PROVE MutexInv'
  BY <1>6 DEF mutex_unlock, At, GoTo, TypeOK, MutexInv, LockOwner
<1>7. ASSUME NEW t \in Tasks, WakeWaiter(t) PROVE MutexInv'
  BY <1>7 DEF WakeWaiter, At, GoTo, TypeOK, MutexInv, LockOwner
<1>8. ASSUME NEW t \in Tasks, UnlockEnd(t) PROVE MutexInv'
  BY <1>8 DEF UnlockEnd, At, GoTo, TypeOK, MutexInv, LockOwner
<1>9. CASE hook_task
  BY <1>9 DEF hook_task, At, GoTo, TypeOK, MutexInv, LockOwner
<1>10. CASE CheckDeferred
  BY <1>10 DEF CheckDeferred, At, GoTo, TypeOK, MutexInv, LockOwner
<1>11. CASE ClearDeferred
  BY <1>11 DEF ClearDeferred, At, GoTo, TypeOK, MutexInv, LockOwner
<1>12. CASE CallDeferred
  BY <1>12 DEF CallDeferred, At, GoTo, TypeOK, MutexInv, LockOwner
<1>13. CASE NextTime
  BY <1>13 DEF NextTime, At, GoTo, TypeOK, MutexInv, LockOwner
<1>14. CASE ComputeNext
  BY <1>14 DEF ComputeNext, At, GoTo, TypeOK, MutexInv, LockOwner
<1>15. CASE DecideToSleep
  BY <1>15 DEF DecideToSleep, At, GoTo, TypeOK, MutexInv, LockOwner
<1>16. CASE UNCHANGED <<pc, mtx, snap>>
  BY <1>16 DEF TypeOK, MutexInv, LockOwner
<1> QED
  BY <1>1, <1>2, <1>3, <1>4, <1>5, <1>6, <1>7, <1>8, <1>9, <1>10, <1>11,
     <1>12, <1>13, <1>14, <1>15, <1>16 DEF Next, Running, WaitStep,
     MutexStep, HookStep, timer_arm, TakeEvents, Sleep, timer_cancel,
     WaitEnd, IrqWake, IrqHw, expire_timer, hook_call_deferred,
     CancelDeferred, TimePasses, vars, wait, hooks

\* A waiter stays within reach of a wake up.
LEMMA WakeStep ==
    TypeOK /\ MutexInv /\ WaiterWillWake /\ [Next]_vars => WaiterWillWake'
<1> USE HooksIsTask, WaitsAre, TasksAssumption DEF Free
<1> SUFFICES ASSUME TypeOK, MutexInv, WaiterWillWake, [Next]_vars
             PROVE  WaiterWillWake'
  OBVIOUS
<1>1. ASSUME NEW t \in Tasks, TakeEvents(t) PROVE WaiterWillWake'
  BY <1>1 DEF TakeEvents, InWait, TypeOK, MutexInv, WaiterWillWake
<1>2. ASSUME NEW t \in Tasks, WaitEnd(t) PROVE WaiterWillWake'
  BY <1>2 DEF WaitEnd, InWait, DropTimer, TypeOK, MutexInv, WaiterWillWake
<1>3. ASSUME NEW t \in Tasks, task_wait_event_mask(t) PROVE WaiterWillWake'
  <2>1. pc[t] \in Waits /\ (pc[t] = "mutex" => "MUTEX" \in Mask[pc[t]])
        /\ AfterWait(t) # "mutex"
    BY <1>3 DEF task_wait_event_mask, InWait, AfterWait, Mask
  <2> QED
    BY <1>3, <2>1 DEF task_wait_event_mask, GoTo, TypeOK, WaiterWillWake
<1>4. ASSUME NEW t \in Tasks, mutex_lock(t) PROVE WaiterWillWake'
  BY <1>4 DEF mutex_lock, At, GoTo, wait, TypeOK, MutexInv, WaiterWillWake
<1>5. ASSUME NEW t \in Tasks, TryLock(t) PROVE WaiterWillWake'
  BY <1>5 DEF TryLock, At, GoTo, wait, TypeOK, MutexInv, WaiterWillWake
<1>6. ASSUME NEW t \in Tasks, ClearWaiter(t) PROVE WaiterWillWake'
  BY <1>6 DEF ClearWaiter, At, GoTo, wait, TypeOK, MutexInv, WaiterWillWake
<1>7. ASSUME NEW t \in Tasks, StartHw(t) PROVE WaiterWillWake'
  BY <1>7 DEF StartHw, At, GoTo, wait, TypeOK, MutexInv, WaiterWillWake
<1>8. ASSUME NEW t \in Tasks, mutex_unlock(t) PROVE WaiterWillWake'
  BY <1>8 DEF mutex_unlock, At, GoTo, wait, TypeOK, MutexInv, WaiterWillWake
<1>9. ASSUME NEW t \in Tasks, WakeWaiter(t) PROVE WaiterWillWake'
  BY <1>9 DEF WakeWaiter, task_set_event, wait, At, GoTo, TypeOK, MutexInv,
     WaiterWillWake
<1>10. ASSUME NEW t \in Tasks, UnlockEnd(t) PROVE WaiterWillWake'
  BY <1>10 DEF UnlockEnd, At, GoTo, wait, TypeOK, MutexInv, WaiterWillWake
<1>11. ASSUME NEW t \in Tasks, IrqWake(t) PROVE WaiterWillWake'
  BY <1>11 DEF IrqWake, task_set_event, wait, TypeOK, MutexInv,
     WaiterWillWake
<1>12. ASSUME NEW t \in Tasks, IrqHw(t) PROVE WaiterWillWake'
  BY <1>12 DEF IrqHw, task_set_event, wait, TypeOK, MutexInv, WaiterWillWake
<1>13. ASSUME NEW t \in Tasks, expire_timer(t) PROVE WaiterWillWake'
  BY <1>13 DEF expire_timer, task_set_event, wait, TypeOK, MutexInv,
     WaiterWillWake
<1>14. ASSUME NEW f \in Funcs, hook_call_deferred(f) PROVE WaiterWillWake'
  BY <1>14 DEF hook_call_deferred, task_set_event, wait, TypeOK, MutexInv,
     WaiterWillWake
<1>15. CASE hook_task
  BY <1>15 DEF hook_task, At, GoTo, wait, TypeOK, MutexInv, WaiterWillWake
<1>16. CASE CheckDeferred
  BY <1>16 DEF CheckDeferred, At, GoTo, wait, TypeOK, MutexInv,
     WaiterWillWake
<1>17. CASE ClearDeferred
  BY <1>17 DEF ClearDeferred, At, GoTo, wait, TypeOK, MutexInv,
     WaiterWillWake
<1>18. CASE CallDeferred
  BY <1>18 DEF CallDeferred, At, GoTo, wait, TypeOK, MutexInv,
     WaiterWillWake
<1>19. CASE NextTime
  BY <1>19 DEF NextTime, At, GoTo, wait, TypeOK, MutexInv, WaiterWillWake
<1>20. CASE ComputeNext
  BY <1>20 DEF ComputeNext, At, GoTo, wait, TypeOK, MutexInv, WaiterWillWake
<1>21. CASE DecideToSleep
  BY <1>21 DEF DecideToSleep, At, GoTo, wait, TypeOK, MutexInv,
     WaiterWillWake
<1>22. CASE UNCHANGED <<events, got, pc, mtx, snap>>
  BY <1>22 DEF TypeOK, MutexInv, WaiterWillWake
<1> QED
  BY <1>1, <1>2, <1>3, <1>4, <1>5, <1>6, <1>7, <1>8, <1>9, <1>10, <1>11,
     <1>12, <1>13, <1>14, <1>15, <1>16, <1>17, <1>18, <1>19, <1>20, <1>21,
     <1>22 DEF Next, Running, WaitStep, MutexStep, HookStep, timer_arm,
     Sleep, timer_cancel, CancelDeferred, TimePasses, vars, wait, hooks

\* The mutex keeps its invariant, and a task that waits for it will be woken:
\* mutex_lock() announces the task before it looks at the lock, and
\* mutex_unlock() frees the lock and reads the waiters in one step.
THEOREM WaitersAreWoken == Spec => [](MutexInv /\ WaiterWillWake)
<1>1. Init => MutexInv /\ WaiterWillWake
  BY TasksAssumption DEF Init, MutexInv, LockOwner, WaiterWillWake, Owning, Free
<1> QED
  BY <1>1, LockStep, WakeStep, TypeCorrect, PTL DEF Spec

\* The abstract owner is what the lock field holds, before and after a step.
LEMMA OwnerIsLock ==
    /\ TypeOK /\ MutexInv => Owner = mtx.lock
    /\ TypeOK' /\ MutexInv' => Owner' = mtx'.lock
<1>1. ASSUME TypeOK, MutexInv PROVE Owner = mtx.lock
  <2>1. CASE mtx.lock = Free
    BY <1>1, <2>1, TasksAssumption DEF MutexInv, LockOwner, Owner, Free
  <2>2. CASE mtx.lock \in Tasks
    BY <1>1, <2>2 DEF MutexInv, LockOwner, Owner
  <2> QED
    BY <1>1, <2>1, <2>2 DEF TypeOK
<1>2. ASSUME TypeOK', MutexInv' PROVE Owner' = mtx'.lock
  <2>1. CASE mtx'.lock = Free
    BY <1>2, <2>1, TasksAssumption DEF MutexInv, LockOwner, Owner, Free
  <2>2. CASE mtx'.lock \in Tasks
    BY <1>2, <2>2 DEF MutexInv, LockOwner, Owner
  <2> QED
    BY <1>2, <2>1, <2>2 DEF TypeOK
<1> QED
  BY <1>1, <1>2

\* mutex_lock() and mutex_unlock() implement the lock of AbstractMutex: an owner
\* takes it when it is free and gives it back, whatever the other tasks and the
\* interrupts do in between.
THEOREM RefinesMutex == Spec => ImplementsMutex
<1>1. Init => Abstract!Init
  BY DEF Init, Abstract!Init, Owner, Owning
<1>2. TypeOK /\ MutexInv /\ TypeOK' /\ MutexInv' /\ [Next]_vars => [Abstract!Next]_Owner
  <2> SUFFICES ASSUME TypeOK, MutexInv, TypeOK', MutexInv', [Next]_vars
               PROVE  [Abstract!Next]_Owner
    OBVIOUS
  <2> USE OwnerIsLock
  <2>1. ASSUME NEW t \in Tasks, TryLock(t) PROVE [Abstract!Next]_Owner
    BY <2>1 DEF TryLock, TypeOK, Abstract!Next, Abstract!Acquire
  <2>2. ASSUME NEW t \in Tasks, mutex_unlock(t) PROVE [Abstract!Next]_Owner
    BY <2>2 DEF mutex_unlock, At, TypeOK, MutexInv, LockOwner, Owning,
       Abstract!Next, Abstract!Release
  <2>3. ASSUME NEW t \in Tasks, mutex_lock(t) \/ ClearWaiter(t)
        PROVE  [Abstract!Next]_Owner
    BY <2>3 DEF mutex_lock, ClearWaiter, TypeOK
  <2>4. CASE UNCHANGED mtx
    BY <2>4
  <2> QED
    BY <2>1, <2>2, <2>3, <2>4 DEF Next, Running, WaitStep, MutexStep,
       HookStep, vars, wait, hooks, timer_arm, TakeEvents, Sleep,
       timer_cancel, WaitEnd, task_wait_event_mask, StartHw, WakeWaiter,
       UnlockEnd, IrqWake, IrqHw, expire_timer, hook_call_deferred,
       CancelDeferred, TimePasses, hook_task, CheckDeferred, ClearDeferred,
       CallDeferred, NextTime, ComputeNext, DecideToSleep
<1> QED
  BY <1>1, <1>2, WaitersAreWoken, TypeCorrect, PTL DEF Spec, ImplementsMutex, Abstract!Spec

=============================================================================
