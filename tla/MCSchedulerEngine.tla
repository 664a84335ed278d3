------------------------- MODULE MCSchedulerEngine --------------------------
(***************************************************************************)
(* SchedulerEngine on small instances.                                      *)
(***************************************************************************)
EXTENDS SchedulerEngine, TLC

CONSTANTS t1, t2, s1, s2, malformed

NoRetries == [t \in Tasks |-> 0]

Symmetry == Permutations(Schedulers)
=============================================================================
