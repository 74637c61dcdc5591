---------------------------- MODULE MCPinWeaver -----------------------------
(***************************************************************************)
(* PinWeaver with a schedule of two delays, and no guess after a third.    *)
(***************************************************************************)
EXTENDS PinWeaver

MCSchedule == <<[attempt_count |-> 1, time_diff |-> 2],
                [attempt_count |-> 2, time_diff |-> 4],
                [attempt_count |-> 3, time_diff |-> BlockAttempts]>>
=============================================================================
