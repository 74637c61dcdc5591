-------------------------- MODULE PhysicalPresence --------------------------
(***************************************************************************)
(* The physical presence detector of common/physical_presence.c: a number  *)
(* of presses of the power button, each inside of an interval after the    *)
(* one before, ends in a call of a function.                               *)
(*                                                                         *)
(* A section under pp_mutex is one step, because whoever else wants the    *)
(* mutex waits for its end.  What the code does before it takes the mutex  *)
(* or after it has given it back is a step of its own: the TPM task and    *)
(* the console preempt the deferred functions, which run on HOOKS.  Time   *)
(* is counted in ticks, and a deferred function that is due may be called  *)
(* late.                                                                   *)
(***************************************************************************)
EXTENDS Integers, FiniteSets

CONSTANTS
    ShortCount, LongCount,      \* PP_SHORT_PRESS_COUNT, PP_LONG_PRESS_COUNT
    ShortMin, ShortMax,         \* PP_SHORT_PRESS_MIN/MAX_INTERVAL_US
    LongMin, LongMax            \* PP_LONG_PRESS_MIN/MAX_INTERVAL_US

ASSUME IntervalAssumption ==
    /\ ShortCount \in Nat \ {0} /\ LongCount \in Nat /\ LongCount > ShortCount
    /\ ShortMin \in Nat \ {0} /\ ShortMax \in Nat /\ ShortMax > ShortMin
    /\ LongMin \in Nat \ {0} /\ LongMax \in Nat /\ LongMax > LongMin
    /\ LongMax > ShortMax

VARIABLES
    pp,         \* pp_detect_state, the callback, the counts, and the time
                \* since pp_last_press
    timer,      \* the deferred functions: Off, or ticks until they are due
    chk,        \* locals of physical_detect_check_press(): dt, and the time
                \* since now was read
    pc,         \* where each task is
    presses     \* history: presses since the last physical_detect_start()

ppVars == <<pp, timer, chk, presses>>

Tasks == {"HOOKS", "TPM", "CONSOLE"}

NoCallback == "none"
Callbacks == {"open", "unlock", "testlab"}

PpStates == {"IDLE", "AWAITING_PRESS", "BETWEEN_PRESSES", "FINISHING", "ABORT"}

Off == 0 - 1
Deferred == {"prompt", "done", "press"}

\* Times beyond the longest interval are not told apart.
LongAgo == LongMax + 1

Later(n) == IF n < LongAgo THEN n + 1 ELSE n

PpInit ==
    [state |-> "IDLE", callback |-> NoCallback, count |-> 0, needed |-> 0,
     since |-> LongAgo, capture |-> FALSE]

NoPress == [dt |-> 0, age |-> 0]

TimersOff == [f \in Deferred |-> Off]

\* A task runs while no task of a higher priority does; the console waits for
\* the TPM task while that executes a console command.
MayRun(t) ==
    /\ t # "CONSOLE" => pc["CONSOLE"] \in {"idle", "alt"}
    /\ t = "HOOKS" => pc["TPM"] = "idle"

At(t, step) == pc[t] = step /\ MayRun(t)

GoTo(t, step) == pc' = [pc EXCEPT ![t] = step]

\* The end of a command or of a deferred function.
Return(t) ==
    pc' = [pc EXCEPT ![t] = "idle",
                     !["CONSOLE"] = IF t = "TPM" /\ @ = "alt" THEN "idle"
                                    ELSE IF t = "CONSOLE" THEN "idle" ELSE @]

pp_detect_in_progress == pp.state \in {"AWAITING_PRESS", "BETWEEN_PRESSES"}

physical_detect_busy == pp.state # "IDLE"

-----------------------------------------------------------------------------
(* Called from any task *)

\* physical_detect_start(): the part under the mutex, when it succeeds.
physical_detect_start(t, isLong, callback) ==
    /\ ~physical_detect_busy
    /\ pp' = [pp EXCEPT !.needed = IF isLong THEN LongCount ELSE ShortCount,
                        !.count = 0, !.since = 0, !.callback = callback,
                        !.state = "BETWEEN_PRESSES"]
    /\ presses' = 0
    /\ GoTo(t, "capture")
    /\ UNCHANGED <<timer, chk>>

\* physical_detect_start(): after the mutex is released, the button is
\* captured and the prompt is set up ...
StartCapture(t) ==
    /\ At(t, "capture")
    /\ timer' = [timer EXCEPT !["press"] = Off, !["prompt"] = ShortMin]
    /\ pp' = [pp EXCEPT !.capture = TRUE]
    /\ GoTo(t, "timeout")
    /\ UNCHANGED <<chk, presses>>

\* ... and then the timeout.
StartTimeout(t) ==
    /\ At(t, "timeout")
    /\ timer' = [timer EXCEPT !["done"] = ShortMax]
    /\ Return(t)
    /\ UNCHANGED <<pp, chk, presses>>

\* physical_detect_abort(): physical_detect_done() is to run at once.
Abort_cancel ==
    /\ IF pp_detect_in_progress
         THEN /\ pp' = [pp EXCEPT !.state = "ABORT"]
              /\ timer' = TimersOff
         ELSE UNCHANGED <<pp, timer>>
    /\ UNCHANGED <<chk, presses>>

physical_detect_abort ==
    /\ IF pp_detect_in_progress
         THEN /\ pp' = [pp EXCEPT !.state = "ABORT"]
              /\ timer' = [timer EXCEPT !["prompt"] = Off, !["press"] = Off,
                                        !["done"] = 0]
         ELSE UNCHANGED <<pp, timer>>
    /\ UNCHANGED <<chk, presses>>

\* physical_detect_press(), called by the interrupt of the power button.
physical_detect_press ==
    /\ physical_detect_busy
    /\ timer' = [timer EXCEPT !["press"] = 0]
    /\ presses' = IF presses < LongCount THEN presses + 1 ELSE presses
    /\ UNCHANGED <<pp, chk, pc>>

-----------------------------------------------------------------------------
(* Deferred functions *)

\* hook_task() calls a deferred function that is due, and clears its timer
\* first.
Call(f, step) ==
    /\ At("HOOKS", "idle")
    /\ timer[f] = 0
    /\ timer' = [timer EXCEPT ![f] = Off]
    /\ GoTo("HOOKS", step)

PromptCall ==
    /\ Call("prompt", "prompt")
    /\ UNCHANGED <<pp, chk, presses>>

\* physical_detect_prompt() takes no mutex and looks at no state.
physical_detect_prompt ==
    /\ At("HOOKS", "prompt")
    /\ pp' = [pp EXCEPT !.state = "AWAITING_PRESS"]
    /\ Return("HOOKS")
    /\ UNCHANGED <<timer, chk, presses>>

\* physical_detect_check_press() reads the time before it takes the mutex.
PressCall ==
    /\ Call("press", "press")
    /\ chk' = [dt |-> pp.since, age |-> 0]
    /\ UNCHANGED <<pp, presses>>

\* The press is one that is still needed and came in time.
Counts ==
    /\ pp_detect_in_progress
    /\ pp.count < pp.needed
    /\ IF pp.count < ShortCount
         THEN chk.dt >= ShortMin /\ chk.dt <= ShortMax
         ELSE chk.dt >= LongMin /\ chk.dt <= LongMax

physical_detect_check_press ==
    /\ At("HOOKS", "press")
    /\ IF Counts
         THEN LET n == pp.count + 1
              IN  /\ pp' = [pp EXCEPT !.state = "BETWEEN_PRESSES", !.count = n,
                                      !.since = chk.age]
                  /\ timer' =
                       IF n = pp.needed
                         THEN [timer EXCEPT !["done"] = 0]
                       ELSE IF n < ShortCount
                         THEN [timer EXCEPT !["prompt"] = ShortMin,
                                            !["done"] = ShortMax]
                         ELSE [timer EXCEPT !["prompt"] = LongMin,
                                            !["done"] = LongMax]
         ELSE UNCHANGED <<pp, timer>>
    /\ chk' = NoPress
    /\ Return("HOOKS")
    /\ UNCHANGED presses

DoneCall ==
    /\ Call("done", "done")
    /\ UNCHANGED <<pp, chk, presses>>

\* The callback that is left to be called.
CallbackDue_kept == pp.callback

CallbackDue ==
    IF pp_detect_in_progress /\ pp.count >= pp.needed
      THEN pp.callback ELSE NoCallback

\* physical_detect_done(): the part under the mutex, and the end of capturing
\* the button.
physical_detect_done ==
    /\ At("HOOKS", "done")
    /\ pp' = [pp EXCEPT !.callback = CallbackDue, !.state = "FINISHING",
                        !.capture = FALSE]
    /\ GoTo("HOOKS", IF CallbackDue = NoCallback THEN "finish" ELSE "callback")
    /\ UNCHANGED <<timer, chk, presses>>

\* physical_detect_done(): after the callback.
DoneFinish ==
    /\ At("HOOKS", "finish")
    /\ pp' = [pp EXCEPT !.callback = NoCallback, !.state = "IDLE"]
    /\ Return("HOOKS")
    /\ UNCHANGED <<timer, chk, presses>>

Tick ==
    /\ timer' = [f \in Deferred |-> IF timer[f] > 0 THEN timer[f] - 1
                                    ELSE timer[f]]
    /\ pp' = [pp EXCEPT !.since = Later(@)]
    /\ chk' = [chk EXCEPT !.age = IF pc["HOOKS"] = "press" THEN Later(@) ELSE @]
    /\ UNCHANGED <<pc, presses>>

\* Steps of HOOKS that belong to the detector.
PpStep ==
    \/ PromptCall \/ physical_detect_prompt
    \/ PressCall \/ physical_detect_check_press
    \/ DoneCall \/ physical_detect_done \/ DoneFinish

\* The types of the detection; press_count never passes the presses it takes.
PpTypeOK ==
    /\ pp \in [state : PpStates, callback : Callbacks \cup {NoCallback},
               count : 0 .. LongCount, needed : {0, ShortCount, LongCount},
               since : 0 .. LongAgo, capture : BOOLEAN]
    /\ timer \in [Deferred -> Off .. LongMax]
    /\ chk \in [dt : 0 .. LongAgo, age : 0 .. LongAgo]
    /\ presses \in 0 .. LongCount

-----------------------------------------------------------------------------
(* Properties *)

\* A callback is called only after the presses it needs.  One of them may be
\* older than the start: a press of an earlier detection whose deferred
\* function had begun, and was preempted by the start, counts.
CallbackAfterPresses ==
    pc["HOOKS"] = "callback" => presses + 1 >= pp.needed

\* A detection always ends, by success, abort or timeout, because whenever a
\* callback is set, the call of physical_detect_done() that drops or calls it
\* is scheduled, or a task is on its way to schedule it or in the middle of it.
DetectionWillEnd ==
    pp.callback # NoCallback =>
        \/ timer["done"] # Off
        \/ \E t \in Tasks : pc[t] \in {"capture", "timeout"}
        \/ pp.state = "FINISHING" \/ pc["HOOKS"] = "done"
=============================================================================
