--------------------------- MODULE AbstractMutex ---------------------------
(***************************************************************************)
(* What mutex_lock() and mutex_unlock() promise: at most one owner, and    *)
(* the lock goes from one owner to the next only through being free.       *)
(***************************************************************************)
CONSTANTS Tasks, Free
VARIABLE owner

Init == owner = Free

Acquire(t) == owner = Free /\ owner' = t

Release(t) == owner = t /\ owner' = Free

Next == \E t \in Tasks : Acquire(t) \/ Release(t)

Spec == Init /\ [][Next]_owner
=============================================================================
