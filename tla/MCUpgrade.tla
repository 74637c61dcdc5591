----------------------------- MODULE MCUpgrade -----------------------------
EXTENDS Upgrade

\* The key changes with version 2.
KeyOf2 == [v \in Versions |-> IF v < 2 THEN 1 ELSE 2]

\* The key changes with version 3.
KeyOf3 == [v \in Versions |-> IF v < 3 THEN 1 ELSE 2]
=============================================================================
