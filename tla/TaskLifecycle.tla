--------------------------- MODULE TaskLifecycle ----------------------------
(***************************************************************************)
(* What the queue promises about a task, without streams, acknowledgements, *)
(* workers or recovery: a task is admitted once, dispatched once, and       *)
(* reaches exactly one terminal outcome, which never changes; at most       *)
(* MaxInFlight tasks are dispatched and not terminal (README, "Delivery     *)
(* semantics and idempotency").                                             *)
(***************************************************************************)
EXTENDS Integers, FiniteSets

CONSTANTS Tasks, MaxInFlight

VARIABLE status

States == {"unknown", "pending", "inflight", "completed", "dead"}

In(state) == {t \in Tasks : status[t] = state}

Init == status = [t \in Tasks |-> "unknown"]

Become(S, state) ==
  status' = [t \in Tasks |-> IF t \in S THEN state ELSE status[t]]

Admit == \E t \in In("unknown") : Become({t}, "pending")

\* A dispatch pass moves a batch of pending tasks, as far as the cap allows.
Dispatch ==
  \E batch \in SUBSET In("pending") :
    /\ batch # {}
    /\ MaxInFlight > 0 =>
         Cardinality(In("inflight")) + Cardinality(batch) <= MaxInFlight
    /\ Become(batch, "inflight")

Complete == \E t \in In("inflight") : Become({t}, "completed")

DeadLetter == \E t \in In("inflight") : Become({t}, "dead")

Next == Admit \/ Dispatch \/ Complete \/ DeadLetter

Spec == Init /\ [][Next]_status

\* Every admitted task reaches a terminal outcome.
Terminates ==
  \A t \in Tasks : status[t] = "pending" ~> status[t] \in {"completed", "dead"}
=============================================================================
