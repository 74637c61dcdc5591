---------------------------- MODULE AbstractHeap ----------------------------
(***************************************************************************)
(* What shared_mem_acquire() and shared_mem_release() promise: whoever     *)
(* gets memory has it alone until it is given back.                        *)
(***************************************************************************)
EXTENDS Integers

CONSTANTS
    Word,       \* bytes to which memory is aligned
    MemSize,    \* bytes of memory
    Requests    \* sizes that are asked for

VARIABLE held   \* the pieces that are in use, with their first byte and size

Disjoint(p, q) == p.start + p.size <= q.start \/ q.start + q.size <= p.start

Init == held = {}

Acquire ==
    \E p \in held' \ held :
        /\ p \in [start : 0 .. MemSize, size : Requests]
        /\ p.start % Word = 0
        /\ p.start + p.size <= MemSize
        /\ \A q \in held : Disjoint(p, q)
        /\ held' = held \cup {p}

Release == \E p \in held \ held' : held' = held \ {p}

Spec == Init /\ [][Acquire \/ Release]_held
=============================================================================
