------------------------------ MODULE FlashLog ------------------------------
(***************************************************************************)
(* The event log of common/flash_log.c: entries of several sizes in one    *)
(* flash page, written by any task, read back by time stamp, compacted     *)
(* when the page fills up.  Sizes are in words of the flash.               *)
(*                                                                         *)
(* flash has the entries up to the first that is not valid, each with its  *)
(* offset in the page; garbage says that what follows them is not erased.  *)
(* A step is a flash operation or a section that no other task can see     *)
(* into.  Power is lost between any two steps, and inside of a flash       *)
(* operation.                                                              *)
(***************************************************************************)
EXTENDS Integers, Sequences, Functions

CONSTANTS
    Tasks,          \* tasks that log events
    Readers,        \* who retrieves entries: the AP, the console
    Space,          \* CONFIG_FLASH_LOG_SPACE
    MinSize,        \* size of an entry with a payload of at most one byte
    Sizes,          \* sizes of the tasks' entries
    Times,          \* what the AP sets the time to
    MaxStamp,       \* bound: time stamps
    MaxUptime,      \* bound: seconds since boot
    MaxFailures     \* bound: failures that are told apart

ASSUME SizesAssumption ==
    /\ Space \in Nat /\ MinSize \in 1 .. Space \div 4
    /\ Sizes \subseteq 1 .. Space \div 4
    /\ Times \subseteq Nat
    /\ {MaxStamp, MaxUptime, MaxFailures} \subseteq Nat
    /\ "init" \notin Tasks

VARIABLES
    flash, garbage,
    log_write_cursor,
    read_cursor, prev_timestamp,    \* log_read_context
    log_tstamp_base, last_used_timestamp, uptime,
    log_event_in_progress,
    lock_failures_count, overflow_failures_count,
    todo,       \* the entries a task has yet to add, and how far it is
    buf,        \* the buffer of try_compacting()
    after       \* the stamp each reader retrieved last

store == <<flash, garbage>>
readctx == <<read_cursor, prev_timestamp>>
time == <<log_tstamp_base, last_used_timestamp, uptime>>
counts == <<lock_failures_count, overflow_failures_count>>
vars == <<store, log_write_cursor, readctx, time, log_event_in_progress, counts,
          todo, buf, after>>

Boot == "init"      \* flash_log_init(), before the tasks run
Actors == Tasks \cup {Boot}
Idle == <<>>

Item(step, type, size) == [step |-> step, type |-> type, size |-> size]

\* The offset after the last entry.
Used(log) ==
    IF log = <<>> THEN 0 ELSE log[Len(log)].at + log[Len(log)].size

LastStamp(log) == IF log = <<>> THEN 0 ELSE log[Len(log)].stamp

Least(S) == CHOOSE n \in S : \A k \in S : n <= k

COMPACTION_SPACE_PRESERVE == Space \div 4
STARTUP_LOG_FULL_WATERMARK == (Space * 3) \div 4
RUN_TIME_LOG_FULL_WATERMARK == (Space * 9) \div 10

-----------------------------------------------------------------------------
(* Start *)

InitTodo_uncompacted(log, bad) ==
    IF bad THEN <<Item("lock", "FE_LOG_CORRUPTED", MinSize)>>
    ELSE IF log = <<>> THEN <<Item("lock", "FE_LOG_START", MinSize)>>
    ELSE Idle

\* flash_log_init(), after the scan: what it goes on to do with such a log.
InitTodo(log, bad) ==
    IF bad THEN <<Item("compact", "none", 0),
                  Item("lock", "FE_LOG_CORRUPTED", MinSize)>>
    ELSE IF log = <<>> THEN <<Item("lock", "FE_LOG_START", MinSize)>>
    ELSE IF Used(log) > STARTUP_LOG_FULL_WATERMARK
           THEN <<Item("compact", "none", 0)>>
    ELSE Idle

Init ==
    /\ flash = <<>> /\ garbage = FALSE
    /\ log_write_cursor = 0
    /\ read_cursor = 0 /\ prev_timestamp = 0
    /\ last_used_timestamp = 0 /\ log_tstamp_base = 1 /\ uptime = 0
    /\ log_event_in_progress = FALSE
    /\ lock_failures_count = 0 /\ overflow_failures_count = 0
    /\ todo = [a \in Actors |-> IF a = Boot THEN InitTodo(<<>>, FALSE) ELSE Idle]
    /\ buf = <<>>
    /\ after = [r \in Readers |-> 0]

\* flash_log_init(): the scan of a flash that holds log.
flash_log_init(log, bad) ==
    /\ flash' = log /\ garbage' = bad
    /\ log_write_cursor' = Used(log)
    /\ read_cursor' = 0 /\ prev_timestamp' = 0
    /\ last_used_timestamp' = LastStamp(log)
    /\ log_tstamp_base' = LastStamp(log) + 1
    /\ uptime' = 0
    /\ log_event_in_progress' = FALSE
    /\ lock_failures_count' = 0 /\ overflow_failures_count' = 0
    /\ todo' = [a \in Actors |-> IF a = Boot THEN InitTodo(log, bad) ELSE Idle]
    /\ buf' = <<>>

\* The flash a loss of power leaves: as it is, or with a part of what is being
\* written, or erased in part.
Interrupted ==
    {[log |-> flash, bad |-> garbage]}
    \cup IF \E a \in Actors : todo[a] # Idle /\ todo[a][1].step = "write"
           THEN {[log |-> flash, bad |-> TRUE]} ELSE {}
    \cup IF \E a \in Actors : todo[a] # Idle /\ todo[a][1].step = "restore"
           THEN {[log |-> SubSeq(buf, 1, n), bad |-> b] :
                    n \in 0 .. Len(buf), b \in BOOLEAN} ELSE {}
    \cup IF \E a \in Actors : todo[a] # Idle /\ todo[a][1].step = "compact"
           THEN {[log |-> <<>>, bad |-> b] : b \in BOOLEAN} ELSE {}

PowerLoss ==
    /\ \E s \in Interrupted : flash_log_init(s.log, s.bad)
    /\ UNCHANGED after

Tick ==
    /\ uptime < MaxUptime
    /\ uptime' = uptime + 1
    /\ UNCHANGED <<store, log_write_cursor, readctx, log_tstamp_base,
                   last_used_timestamp, log_event_in_progress, counts, todo, buf, after>>

-----------------------------------------------------------------------------
(* Adding *)

Running(a) == todo[a] # Idle /\ (a # Boot => todo[Boot] = Idle)

At(a, step) == Running(a) /\ todo[a][1].step = step

GoTo(a, step) == todo' = [todo EXCEPT ![a][1].step = step]
Leave(a) == todo' = [todo EXCEPT ![a] = Tail(@)]

Failures(type) ==
    IF type = "FE_LOG_LOCKS" THEN lock_failures_count ELSE overflow_failures_count

\* flash_log_add_event(): what is left to add once those of the reports were
\* passed that have nothing to report.
Due(items) ==
    LET nothing(n) == items[n].step = "check" /\ Failures(items[n].type) = 0
        first == Least({n \in DOMAIN items : ~nothing(n)})
    IN  [SubSeq(items, first, Len(items)) EXCEPT ![1].step = "lock"]

\* flash_log_add_event(): failures are reported first, each if there were any.
flash_log_add_event(t, size) ==
    /\ todo[Boot] = Idle /\ todo[t] = Idle
    /\ last_used_timestamp < MaxStamp
    /\ todo' = [todo EXCEPT ![t] =
                  Due(<<Item("check", "FE_LOG_LOCKS", MinSize),
                        Item("check", "FE_LOG_OVERFLOWS", MinSize),
                        Item("lock", "FE_LOG_TEST", size)>>)]
    /\ UNCHANGED <<store, log_write_cursor, readctx, time, log_event_in_progress,
                   counts, buf, after>>

flash_log_add_event_next(t) ==
    /\ At(t, "check")
    /\ todo' = [todo EXCEPT ![t] = Due(@)]
    /\ UNCHANGED <<store, log_write_cursor, readctx, time, log_event_in_progress,
                   counts, buf, after>>

\* A count of failures; more than MaxFailures are not told apart.
Counted(n) == IF n < MaxFailures THEN n + 1 ELSE n

\* flash_log_add_event_core(): the lock, and whether to compact.
flash_log_lock(a) ==
    /\ At(a, "lock")
    /\ \/ /\ log_event_in_progress
          /\ lock_failures_count' = Counted(lock_failures_count)
          /\ Leave(a)
          /\ UNCHANGED log_event_in_progress
       \/ /\ ~log_event_in_progress
          /\ log_event_in_progress' = TRUE
          /\ GoTo(a, IF log_write_cursor > RUN_TIME_LOG_FULL_WATERMARK
                       THEN "compact" ELSE "write")
          /\ UNCHANGED lock_failures_count
    /\ UNCHANGED <<store, log_write_cursor, readctx, time, overflow_failures_count,
                   buf, after>>

\* What follows try_compacting() in flash_log_init() and in
\* flash_log_add_event_core().
AfterCompacting(a) ==
    IF a = Boot /\ todo[a][1].type = "none" THEN Leave(a) ELSE GoTo(a, "write")

\* try_compacting(): the entries of the last quarter, moved to the start; then
\* the page is erased.
Preserved ==
    LET kept == {n \in DOMAIN flash :
                    log_write_cursor - flash[n].at <= COMPACTION_SPACE_PRESERVE}
        first == Least(kept)
    IN  IF kept = {} THEN <<>>
        ELSE [n \in 1 .. Len(flash) - first + 1 |->
                 [flash[first + n - 1] EXCEPT !.at = @ - flash[first].at]]

try_compacting(a) ==
    /\ At(a, "compact")
    /\ buf' = Preserved
    /\ flash' = <<>> /\ garbage' = FALSE
    /\ GoTo(a, "restore")
    /\ UNCHANGED <<log_write_cursor, readctx, time, log_event_in_progress, counts, after>>

\* There is no memory for the buffer; when the system starts there is.
compacting_fails(a) ==
    /\ At(a, "compact") /\ a # Boot
    /\ GoTo(a, "write")
    /\ UNCHANGED <<store, log_write_cursor, readctx, time, log_event_in_progress,
                   counts, buf, after>>

Restart_kept == UNCHANGED readctx

Restart == read_cursor' = 0 /\ prev_timestamp' = 0

try_compacting_restore(a) ==
    /\ At(a, "restore")
    /\ flash' = buf
    /\ log_write_cursor' = Used(buf)
    /\ buf' = <<>>
    /\ Restart
    /\ AfterCompacting(a)
    /\ UNCHANGED <<garbage, time, log_event_in_progress, counts, after>>

\* flash_log_add_event_core(): the time stamp of a new entry.
NewStamp_now ==
    log_tstamp_base + uptime

NewStamp ==
    IF last_used_timestamp >= log_tstamp_base + uptime
      THEN last_used_timestamp + 1 ELSE log_tstamp_base + uptime

Fits(size) == size <= Space - log_write_cursor

Release_full == UNCHANGED log_event_in_progress

ReleaseFull == log_event_in_progress' = FALSE

\* flash_log_add_event_core(): the entry is written, or there is no room.
write_entry(a) ==
    LET item == todo[a][1]
    IN  /\ At(a, "write")
        /\ \/ /\ Fits(item.size)
              /\ flash' = Append(flash, [at |-> log_write_cursor,
                                         stamp |-> NewStamp, size |-> item.size])
              /\ last_used_timestamp' = NewStamp
              /\ log_write_cursor' = log_write_cursor + item.size
              /\ log_event_in_progress' = FALSE
              /\ IF item.type \in {"FE_LOG_LOCKS", "FE_LOG_OVERFLOWS"}
                   THEN GoTo(a, "reset") ELSE Leave(a)
              /\ UNCHANGED overflow_failures_count
           \/ /\ ~Fits(item.size)
              /\ overflow_failures_count' = Counted(overflow_failures_count)
              /\ ReleaseFull
              /\ Leave(a)
              /\ UNCHANGED <<flash, last_used_timestamp, log_write_cursor>>
        /\ UNCHANGED <<garbage, readctx, log_tstamp_base, uptime,
                       lock_failures_count, buf, after>>

\* report_failure(): after a successful report.
report_failure(a) ==
    /\ At(a, "reset")
    /\ IF todo[a][1].type = "FE_LOG_LOCKS"
         THEN lock_failures_count' = 0 /\ UNCHANGED overflow_failures_count
         ELSE overflow_failures_count' = 0 /\ UNCHANGED lock_failures_count
    /\ Leave(a)
    /\ UNCHANGED <<store, log_write_cursor, readctx, time, log_event_in_progress,
                   buf, after>>

-----------------------------------------------------------------------------
(* Retrieving *)

\* flash_log_dequeue_event(): the cursor is a number of entries, those of the
\* page that were passed.
Cursor(stamp) ==
    IF stamp = 0 \/ stamp < prev_timestamp THEN 0 ELSE read_cursor

flash_log_dequeue_event(r) ==
    LET start == Cursor(after[r])
        found == {n \in start + 1 .. Len(flash) : flash[n].stamp > after[r]}
        next == Least(found)
    IN  /\ todo[Boot] = Idle
        /\ ~log_event_in_progress
        /\ IF found = {}
             THEN /\ read_cursor' = Len(flash)
                  /\ prev_timestamp' = IF start = 0 /\ after[r] < prev_timestamp
                                         THEN 0 ELSE prev_timestamp
                  /\ UNCHANGED after
             ELSE /\ read_cursor' = next
                  /\ prev_timestamp' = flash[next].stamp
                  /\ after' = [after EXCEPT ![r] = flash[next].stamp]
        /\ UNCHANGED <<store, log_write_cursor, time, log_event_in_progress, counts,
                       todo, buf>>

\* A reader starts over: the console command, or an AP that was restarted.
StartOver(r) ==
    /\ after[r] # 0
    /\ after' = [after EXCEPT ![r] = 0]
    /\ UNCHANGED <<store, log_write_cursor, readctx, time, log_event_in_progress,
                   counts, todo, buf>>

\* flash_log_set_tstamp()
flash_log_set_tstamp(stamp) ==
    /\ todo[Boot] = Idle
    /\ stamp > last_used_timestamp
    /\ log_tstamp_base' = stamp - uptime
    /\ UNCHANGED <<store, log_write_cursor, readctx, last_used_timestamp, uptime,
                   log_event_in_progress, counts, todo, buf, after>>

Step(a) ==
    \/ flash_log_add_event_next(a) \/ flash_log_lock(a) \/ try_compacting(a) \/ compacting_fails(a)
    \/ try_compacting_restore(a) \/ write_entry(a) \/ report_failure(a)

Next ==
    \/ \E t \in Tasks, size \in Sizes : flash_log_add_event(t, size)
    \/ \E a \in Actors : Step(a)
    \/ \E r \in Readers : flash_log_dequeue_event(r) \/ StartOver(r)
    \/ \E stamp \in Times : flash_log_set_tstamp(stamp)
    \/ PowerLoss \/ Tick

\* A task that is in the middle of a call goes on with it.
Spec == Init /\ [][Next]_vars /\ \A a \in Actors : WF_vars(Step(a))

-----------------------------------------------------------------------------
(* Properties *)

\* The types; the cursor stays within the page.
TypeOK ==
    /\ flash \in Seq([at : 0 .. Space, stamp : Nat, size : Sizes \cup {MinSize}])
    /\ garbage \in BOOLEAN /\ log_event_in_progress \in BOOLEAN
    /\ log_write_cursor \in 0 .. Space
    /\ read_cursor \in Nat
    /\ ~log_event_in_progress /\ todo[Boot] = Idle => read_cursor <= Len(flash)
    /\ {prev_timestamp, last_used_timestamp, uptime} \subseteq Nat
    /\ log_tstamp_base \in Int
    /\ {lock_failures_count, overflow_failures_count} \subseteq 0 .. MaxFailures
    /\ after \in [Readers -> Nat]

\* Later entries have later stamps, whatever the AP sets the time to and
\* whatever compaction kept: flash_log_dequeue_event() finds the next entry by
\* its stamp.
StampsIncrease ==
    \A m, n \in DOMAIN flash : m < n => flash[m].stamp < flash[n].stamp

\* Each entry begins where the one before it ends, as the scan of
\* flash_log_init() has it.
Contiguous(log) ==
    \A n \in DOMAIN log :
        log[n].at = IF n = 1 THEN 0 ELSE log[n - 1].at + log[n - 1].size

\* An entry is written into erased flash, right after the entries that are
\* there: otherwise bits of two entries mix, and the scan of flash_log_init()
\* stops before it.
WritesErased ==
    /\ Contiguous(flash)
    /\ \A a \in Actors :
          At(a, "write") => log_write_cursor = Used(flash) /\ ~garbage

\* What try_compacting() copies fits into the buffer that it acquired.
BufferFits == Used(buf) <= COMPACTION_SPACE_PRESERVE

\* A reader that passes the stamp it retrieved last gets the first entry after
\* it (flash_log.c: such a sequence "allows to traverse the entire log"), also
\* when the log was compacted between two of its calls, and after the system
\* restarted.
NextEvent ==
    [][\A r \in Readers : flash_log_dequeue_event(r) =>
          LET later == {e \in Range(flash) : e.stamp > after[r]}
          IN  IF later = {} THEN after'[r] = after[r]
              ELSE \A e \in later :
                      after[r] < after'[r] /\ after'[r] <= e.stamp]_vars

\* A task that took the log gives it back, on every way out of
\* flash_log_add_event_core(): nobody waits for it, but no other event could be
\* logged or retrieved until the next reset.
LockReleased == log_event_in_progress ~> ~log_event_in_progress
=============================================================================
