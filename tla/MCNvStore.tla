----------------------------- MODULE MCNvStore -----------------------------
(* Instances of NvStore for TLC.                                           *)
EXTENDS NvStore

\* Every body is one word, but for evictable objects, which have two.
BodySize == [k \in Keys |-> IF k \in Evictables THEN 2 ELSE 1]
=============================================================================
