---------------------------- MODULE MCTaskQueue -----------------------------
(***************************************************************************)
(* TaskQueue on small instances.                                            *)
(***************************************************************************)
EXTENDS TaskQueue

CONSTANTS t1, t2, w1, w2, r1, r2

\* Both tasks leave max_retries unset, and take DefaultMaxRetries.
UnsetMaxRetries == [t \in Tasks |-> 0]

\* One task carries its own budget, the other leaves it unset.
MixedMaxRetries == [t \in Tasks |-> IF t = t1 THEN 1 ELSE 0]
=============================================================================
