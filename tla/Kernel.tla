------------------------------- MODULE Kernel -------------------------------
(***************************************************************************)
(* The task switcher, the events and the mutex of core/cortex-m/task.c,    *)
(* the timers of common/timer.c, and the deferred functions of             *)
(* common/hooks.c.                                                         *)
(*                                                                         *)
(* A task is a number, the priority that its place in CONFIG_TASK_LIST     *)
(* gives it; the lowest is HOOKS, which runs hook_task().  The others run  *)
(* the loop that the firmware's tasks have in common: wait for an event,   *)
(* lock a mutex, work (perhaps waiting for the hardware while they hold    *)
(* it), unlock, wait again.  A deferred function locks, works and unlocks, *)
(* too.  One step is what no interrupt can divide: an atomic operation, or *)
(* a system call.  Interrupts come between any two steps.                  *)
(***************************************************************************)
EXTENDS Integers, FiniteSets

CONSTANTS
    Tasks,      \* the tasks; a greater number is a higher priority
    NumFuncs,   \* DEFERRED_FUNCS_COUNT
    MaxIrq      \* bound: interrupts that wake a task, requests for deferred
                \* calls, and timeouts of tasks other than HOOKS

ASSUME TasksAssumption == Tasks \subseteq Nat \ {0} /\ IsFiniteSet(Tasks) /\ Tasks # {}
ASSUME BoundsAssumption == NumFuncs \in Nat /\ MaxIrq \in Nat

VARIABLES
    ready,      \* tasks_ready
    events,     \* the events field of each task
    pc,         \* where each task is
    phase,      \* how far a wait is: a step of __wait_evt()
    got,        \* events collected by the wait
    timed,      \* the tasks whose wait has a timeout
    timer_running,
    mtx,        \* the mutex: its lock and waiters fields
    snap,       \* mutex_unlock(): the waiters that are still to be woken
    deferred_until,     \* __deferred_until: off, later, or in the past
    defer_new_call,
    hook,       \* hook_task(): the function it is at, and those that are due
    owed,       \* history: the calls that were asked for and not yet made
    irqs        \* what MaxIrq bounds

wait == <<phase, got, timed, timer_running>>
hooks == <<deferred_until, defer_new_call, hook, owed>>
vars == <<ready, events, pc, wait, mtx, snap, hooks, irqs>>

HOOKS == CHOOSE t \in Tasks : \A u \in Tasks : t <= u

Free == 0

Funcs == 1 .. NumFuncs

Events == {"WAKE", "MUTEX", "HW", "TIMER"}

\* Where a task waits, and the events that end the wait.  A wait for any event
\* is task_wait_event(), the others are task_wait_event_mask().
Mask == [wait |-> Events, mutex |-> {"MUTEX", "TIMER"}, hw |-> {"HW", "TIMER"}]
Waits == DOMAIN Mask

\* Steps at which a task owns the mutex.
Owning == {"clear", "work", "hw"}

Steps == Waits \cup Owning \cup {"lock", "try", "wake", "end",
          "top", "check", "cancel", "call", "next", "compute", "decide"}

Phases == {"call", "read", "sleep", "cancel", "drop", "return"}

Init ==
    /\ ready = Tasks
    /\ events = [t \in Tasks |-> {}]
    /\ pc = [t \in Tasks |-> IF t = HOOKS THEN "top" ELSE "wait"]
    /\ phase = [t \in Tasks |-> "call"]
    /\ got = [t \in Tasks |-> {}]
    /\ timed = {} /\ timer_running = {}
    /\ mtx = [lock |-> Free, waiters |-> {}]
    /\ snap = [t \in Tasks |-> {}]
    /\ deferred_until = [f \in Funcs |-> "off"]
    /\ defer_new_call = FALSE
    /\ hook = [i |-> 1, due |-> {}]
    /\ owed = {}
    /\ irqs = 0

-----------------------------------------------------------------------------
(* Scheduling *)

\* svc_handler(): the ready task with the highest number is the one that
\* runs.
Current(t) == t \in ready /\ \A u \in ready : u <= t

At(t, step) == Current(t) /\ pc[t] = step

GoTo(t, step) == pc' = [pc EXCEPT ![t] = step]

\* task_set_event() for task u: its event bit and its ready bit.
task_set_event(u, e) ==
    /\ events' = [events EXCEPT ![u] = @ \cup {e}]
    /\ ready' = ready \cup {u}

\* svc_handler() with desched set, called by __schedule(): the task loses its
\* ready bit unless an event has come since it looked.
Desched_always(t) ==
    ready' = ready \ {t}

Desched(t) ==
    ready' = IF events[t] = {} THEN ready \ {t} ELSE ready

-----------------------------------------------------------------------------
(* Waiting *)

InWait(t, ph) == Current(t) /\ pc[t] \in Waits /\ phase[t] = ph

Phase(t, ph) == phase' = [phase EXCEPT ![t] = ph]

\* __wait_evt() with a timeout: never for the mutex, always when HOOKS waits for
\* its next event; task_wait_event_mask() goes on with what it began with.
timer_arm(t) ==
    /\ InWait(t, "call")
    /\ pc[t] # "mutex"
    /\ t \in timed \/ got[t] = {}
    /\ Phase(t, "read")
    /\ timed' = timed \cup {t}
    /\ timer_running' = timer_running \cup {t}
    /\ IF t \in timed \cup {HOOKS}
         THEN UNCHANGED irqs
         ELSE irqs < MaxIrq /\ irqs' = irqs + 1
    /\ UNCHANGED <<ready, events, pc, got, mtx, snap, hooks>>

\* __wait_evt(): takes all events, or goes to sleep.
TakeEvents(t) ==
    /\ \/ InWait(t, "read")
       \/ InWait(t, "call") /\ t \notin timed /\ <<t, pc[t]>> # <<HOOKS, "wait">>
    /\ events' = [events EXCEPT ![t] = {}]
    /\ got' = [got EXCEPT ![t] = @ \cup events[t]]
    /\ Phase(t, IF events[t] = {} THEN "sleep"
                ELSE IF t \in timed THEN "cancel" ELSE "return")
    /\ UNCHANGED <<ready, pc, timed, timer_running, mtx, snap, hooks, irqs>>

Sleep(t) ==
    /\ InWait(t, "sleep")
    /\ Desched(t)
    /\ Phase(t, "read")
    /\ UNCHANGED <<events, pc, got, timed, timer_running, mtx, snap, hooks, irqs>>

\* __wait_evt(): the timer is stopped, then its event is dropped.
timer_cancel(t) ==
    /\ InWait(t, "cancel")
    /\ timer_running' = timer_running \ {t}
    /\ Phase(t, "drop")
    /\ UNCHANGED <<ready, events, pc, got, timed, mtx, snap, hooks, irqs>>

DropTimer_none(t) == events

DropTimer(t) == [events EXCEPT ![t] = @ \ {"TIMER"}]

WaitEnd(t) ==
    /\ InWait(t, "drop")
    /\ events' = DropTimer(t)
    /\ Phase(t, "return")
    /\ UNCHANGED <<ready, pc, got, timed, timer_running, mtx, snap, hooks, irqs>>

\* Where a task goes on after a wait.
AfterWait(t) ==
    CASE pc[t] = "mutex" -> "try"
      [] pc[t] = "hw" -> "work"
      [] OTHER -> IF t = HOOKS THEN "top" ELSE "lock"

\* Events of other kinds that came while the task waited are posted again.
Repost_none(evt) == {}

Repost(evt) == evt

\* task_wait_event() returns; task_wait_event_mask() does if it has the event
\* it waits for or the time is over, otherwise it waits on.
task_wait_event_mask(t) ==
    /\ InWait(t, "return")
    /\ Phase(t, "call")
    /\ \E late \in SUBSET (IF t \in timed THEN {"TIMER"} ELSE {}) :
          LET all == got[t] \cup late
          IN  \/ /\ all \cap Mask[pc[t]] # {}
                 /\ events' = [events EXCEPT ![t] = @ \cup Repost(all \ Mask[pc[t]])]
                 /\ got' = [got EXCEPT ![t] = {}]
                 /\ GoTo(t, AfterWait(t))
                 /\ timed' = timed \ {t}
              \/ /\ all \cap Mask[pc[t]] = {}
                 /\ UNCHANGED <<events, got, pc, timed>>
    /\ UNCHANGED <<ready, timer_running, mtx, snap, hooks, irqs>>

-----------------------------------------------------------------------------
(* The mutex *)

\* mutex_lock(): the task announces itself before it looks at the lock.
mutex_lock(t) ==
    /\ At(t, "lock")
    /\ mtx' = [mtx EXCEPT !.waiters = @ \cup {t}]
    /\ GoTo(t, "try")
    /\ UNCHANGED <<ready, events, wait, snap, hooks, irqs>>

\* mutex_lock(): ldrex and strex.
TryLock_blind(t) ==
    /\ At(t, "try")
    /\ mtx' = [mtx EXCEPT !.lock = t]
    /\ GoTo(t, "clear")
    /\ UNCHANGED <<ready, events, wait, snap, hooks, irqs>>

TryLock(t) ==
    /\ At(t, "try")
    /\ \/ /\ mtx.lock = Free
          /\ mtx' = [mtx EXCEPT !.lock = t]
          /\ GoTo(t, "clear")
       \/ /\ mtx.lock # Free
          /\ UNCHANGED mtx
          /\ GoTo(t, "mutex")
    /\ UNCHANGED <<ready, events, wait, snap, hooks, irqs>>

\* mutex_lock(): the owner is no longer a waiter.
ClearWaiter(t) ==
    /\ At(t, "clear")
    /\ mtx' = [mtx EXCEPT !.waiters = @ \ {t}]
    /\ GoTo(t, "work")
    /\ UNCHANGED <<ready, events, wait, snap, hooks, irqs>>

\* The owner waits for the hardware.
StartHw(t) ==
    /\ At(t, "work")
    /\ GoTo(t, "hw")
    /\ UNCHANGED <<ready, events, wait, mtx, snap, hooks, irqs>>

\* mutex_unlock(): the lock is freed and the waiters are read with
\* interrupts disabled.
mutex_unlock_late(t) ==
    /\ At(t, "work")
    /\ snap' = [snap EXCEPT ![t] = {}]
    /\ mtx' = [mtx EXCEPT !.lock = Free]
    /\ GoTo(t, "wake")
    /\ UNCHANGED <<ready, events, wait, hooks, irqs>>

mutex_unlock(t) ==
    /\ At(t, "work")
    /\ snap' = [snap EXCEPT ![t] = mtx.waiters]
    /\ mtx' = [mtx EXCEPT !.lock = Free]
    /\ GoTo(t, "wake")
    /\ UNCHANGED <<ready, events, wait, hooks, irqs>>

\* mutex_unlock(): wakes the waiters, the highest first.
WakeWaiter(t) ==
    /\ At(t, "wake")
    /\ \/ /\ snap[t] = {}
          /\ GoTo(t, "end")
          /\ UNCHANGED <<ready, events, snap>>
       \/ \E u \in snap[t] :
             /\ \A v \in snap[t] : v <= u
             /\ snap' = [snap EXCEPT ![t] = @ \ {u}]
             /\ task_set_event(u, "MUTEX")
             /\ UNCHANGED pc
    /\ UNCHANGED <<wait, mtx, hooks, irqs>>

-----------------------------------------------------------------------------
(* Deferred functions *)

\* hook_call_deferred(), by an interrupt or a task that preempts HOOKS, and by
\* the deferred functions themselves.
hook_call_deferred(f) ==
    /\ irqs < MaxIrq
    /\ irqs' = irqs + 1
    /\ deferred_until' = [deferred_until EXCEPT ![f] = "later"]
    /\ hook' = [hook EXCEPT !.due = @ \ {f}]
    /\ defer_new_call' = TRUE
    /\ owed' = owed \cup {f}
    /\ task_set_event(HOOKS, "WAKE")
    /\ UNCHANGED <<pc, wait, mtx, snap>>

\* hook_call_deferred() with a time of -1.
CancelDeferred(f) ==
    /\ irqs < MaxIrq
    /\ irqs' = irqs + 1
    /\ deferred_until[f] # "off"
    /\ deferred_until' = [deferred_until EXCEPT ![f] = "off"]
    /\ hook' = [hook EXCEPT !.due = @ \ {f}]
    /\ owed' = owed \ {f}
    /\ UNCHANGED <<ready, events, pc, wait, mtx, snap, defer_new_call>>

\* The time of a deferred call passes.
TimePasses(f) ==
    /\ deferred_until[f] = "later"
    /\ deferred_until' = [deferred_until EXCEPT ![f] = "past"]
    /\ UNCHANGED <<ready, events, pc, wait, mtx, snap, defer_new_call, hook, owed, irqs>>

\* hook_task(): the time is read, and with it which functions are due.
hook_task ==
    /\ At(HOOKS, "top")
    /\ hook' = [i |-> 1, due |-> {f \in Funcs : deferred_until[f] = "past"}]
    /\ GoTo(HOOKS, "check")
    /\ UNCHANGED <<ready, events, wait, mtx, snap, deferred_until, defer_new_call,
                   owed, irqs>>

\* hook_task(): the next function, if it is due.
CheckDeferred ==
    /\ At(HOOKS, "check")
    /\ IF hook.i > NumFuncs THEN GoTo(HOOKS, "next") /\ UNCHANGED hook
       ELSE IF hook.i \in hook.due THEN GoTo(HOOKS, "cancel") /\ UNCHANGED hook
       ELSE hook' = [hook EXCEPT !.i = @ + 1] /\ UNCHANGED pc
    /\ UNCHANGED <<ready, events, wait, mtx, snap, deferred_until, defer_new_call,
                   owed, irqs>>

\* hook_task(): the timer is cleared first.
ClearDeferred ==
    /\ At(HOOKS, "cancel")
    /\ deferred_until' = [deferred_until EXCEPT ![hook.i] = "off"]
    /\ GoTo(HOOKS, "call")
    /\ UNCHANGED <<ready, events, wait, mtx, snap, defer_new_call, hook, owed, irqs>>

CallDeferred ==
    /\ At(HOOKS, "call")
    /\ owed' = owed \ {hook.i}
    /\ GoTo(HOOKS, "lock")
    /\ UNCHANGED <<ready, events, wait, mtx, snap, deferred_until, defer_new_call,
                   hook, irqs>>

\* The times after the function has returned.
Returned_clear == [deferred_until EXCEPT ![hook.i] = "off"]

Returned == deferred_until

\* mutex_unlock(): no event is left over from an earlier wake up.  Then the
\* task waits for its next event; HOOKS goes on to the next function.
UnlockEnd(t) ==
    /\ At(t, "end")
    /\ events' = [events EXCEPT ![t] = @ \ {"MUTEX"}]
    /\ \/ /\ t # HOOKS
          /\ GoTo(t, "wait")
          /\ UNCHANGED <<deferred_until, hook>>
       \/ /\ t = HOOKS
          /\ GoTo(t, "check")
          /\ deferred_until' = Returned
          /\ hook' = [hook EXCEPT !.i = @ + 1]
    /\ UNCHANGED <<ready, wait, mtx, snap, defer_new_call, owed, irqs>>

\* hook_task(): the time is read again, to find how long to sleep.
NextTime ==
    /\ At(HOOKS, "next")
    /\ hook' = [hook EXCEPT !.due = {f \in Funcs : deferred_until[f] = "past"}]
    /\ defer_new_call' = FALSE
    /\ GoTo(HOOKS, "compute")
    /\ UNCHANGED <<ready, events, wait, mtx, snap, deferred_until, owed, irqs>>

\* hook_task(): not at all if a function or the tick is due.
ComputeNext ==
    /\ At(HOOKS, "compute")
    /\ \E tick \in BOOLEAN :
          GoTo(HOOKS, IF tick \/ hook.due # {} THEN "top" ELSE "decide")
    /\ UNCHANGED <<ready, events, wait, mtx, snap, hooks, irqs>>

DecideToSleep ==
    /\ At(HOOKS, "decide")
    /\ GoTo(HOOKS, IF defer_new_call THEN "top" ELSE "wait")
    /\ UNCHANGED <<ready, events, wait, mtx, snap, hooks, irqs>>

-----------------------------------------------------------------------------
(* Interrupts *)

\* An interrupt handler wakes a task: task_wake(), task_set_event().  Only
\* hook_call_deferred() wakes HOOKS.
IrqWake(t) ==
    /\ t # HOOKS
    /\ irqs < MaxIrq
    /\ irqs' = irqs + 1
    /\ task_set_event(t, "WAKE")
    /\ UNCHANGED <<pc, wait, mtx, snap, hooks>>

\* The hardware that a task waits for is done.
IrqHw(t) ==
    /\ pc[t] = "hw"
    /\ "HW" \notin events[t] \cup got[t]
    /\ task_set_event(t, "HW")
    /\ UNCHANGED <<pc, wait, mtx, snap, hooks, irqs>>

\* process_timers()
expire_timer(t) ==
    /\ t \in timer_running
    /\ timer_running' = timer_running \ {t}
    /\ task_set_event(t, "TIMER")
    /\ UNCHANGED <<pc, phase, got, timed, mtx, snap, hooks, irqs>>

-----------------------------------------------------------------------------
WaitStep(t) ==
    \/ timer_arm(t) \/ TakeEvents(t) \/ Sleep(t) \/ timer_cancel(t) \/ WaitEnd(t)
    \/ task_wait_event_mask(t)

MutexStep(t) ==
    \/ mutex_lock(t) \/ TryLock(t) \/ ClearWaiter(t) \/ StartHw(t)
    \/ mutex_unlock(t) \/ WakeWaiter(t) \/ UnlockEnd(t)

HookStep ==
    \/ hook_task \/ CheckDeferred \/ ClearDeferred \/ CallDeferred
    \/ NextTime \/ ComputeNext \/ DecideToSleep

Running == HookStep \/ \E t \in Tasks : WaitStep(t) \/ MutexStep(t)

Next ==
    \/ Running
    \/ \E t \in Tasks : IrqWake(t) \/ IrqHw(t) \/ expire_timer(t)
    \/ \E f \in Funcs : hook_call_deferred(f) \/ CancelDeferred(f) \/ TimePasses(f)

\* The processor does not stop while a task is ready, time passes, the hardware
\* finishes, and an owner of the mutex does not wait for the hardware for ever.
Fairness ==
    /\ WF_vars(Running)
    /\ WF_vars(\E t \in Tasks : IrqHw(t))
    /\ SF_vars(\E t \in Tasks : mutex_unlock(t))
    /\ \A t \in Tasks : WF_vars(expire_timer(t))
    /\ \A f \in Funcs : WF_vars(TimePasses(f))

Spec == Init /\ [][Next]_vars /\ Fairness

-----------------------------------------------------------------------------
(* Properties *)

\* Every variable has its type; only events that exist are pending.
TypeOK ==
    /\ ready \subseteq Tasks
    /\ events \in [Tasks -> SUBSET Events]
    /\ pc \in [Tasks -> Steps]
    /\ phase \in [Tasks -> Phases]
    /\ got \in [Tasks -> SUBSET Events]
    /\ timed \subseteq Tasks /\ timer_running \subseteq Tasks
    /\ mtx \in [lock : Tasks \cup {Free}, waiters : SUBSET Tasks]
    /\ snap \in [Tasks -> SUBSET Tasks]
    /\ deferred_until \in [Funcs -> {"off", "later", "past"}]
    /\ defer_new_call \in BOOLEAN
    /\ hook \in [i : 1 .. NumFuncs + 1, due : SUBSET Funcs]
    /\ owed \subseteq Funcs
    /\ irqs \in 0 .. MaxIrq

\* The switcher never leaves an event with a task that sleeps: a task without
\* its ready bit has no event, however an interrupt falls between the task's
\* look at its events and the system call.
NoEventAsleep == \A t \in Tasks : t \notin ready => events[t] = {}

\* A task that waits for the mutex will be woken: the event is already
\* there, or the owner will find the task among the waiters, or a task that
\* unlocked still has it on its list.
WaiterWillWake ==
    \A t \in Tasks :
        pc[t] = "mutex" =>
            \/ "MUTEX" \in events[t] \cup got[t]
            \/ mtx.lock # Free /\ t \in mtx.waiters
            \/ \E u \in Tasks : t \in snap[u]

\* A wait leaves nothing of its timer behind, also when it expires while the
\* wait ends for another reason: no running timer, which would make the
\* assertion on timer_arm() in the next __wait_evt() fail, and no event, which
\* would end a later wait.
NoStaleTimer ==
    \A t \in Tasks :
        pc[t] \notin Waits \/ phase[t] = "call" =>
            t \notin timer_running /\ "TIMER" \notin events[t]

\* mutex_lock() and mutex_unlock() implement a lock with one owner.
Owner ==
    IF \E t \in Tasks : pc[t] \in Owning
      THEN CHOOSE t \in Tasks : pc[t] \in Owning
      ELSE Free

Abstract == INSTANCE AbstractMutex WITH owner <- Owner

ImplementsMutex == Abstract!Spec

\* An event that an interrupt sets is handled, also when it comes while the
\* task waits for the mutex or for the hardware.
WakeDelivered ==
    \A t \in Tasks :
        "WAKE" \in events[t] \cup got[t] ~> pc[t] \in {"lock", "top"}

\* A deferred call that was asked for is made, or cancelled, although hook_task()
\* clears the time in a step of its own, and also when the function asks for
\* itself (hooks.c: "Clear timer first, so it can request itself be called
\* later").
DeferredCalled == \A f \in Funcs : f \in owed ~> f \notin owed
=============================================================================
