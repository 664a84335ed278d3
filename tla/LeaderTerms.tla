---------------------------- MODULE LeaderTerms -----------------------------
(***************************************************************************)
(* What leader election promises the scheduler, without the lease: terms    *)
(* carry epochs that are handed out once, in increasing order; an older     *)
(* term may go on for as long as it likes, and a write is accepted only     *)
(* while no newer term has written (docs/architecture.md, "Fencing").       *)
(***************************************************************************)
EXTENDS Integers, Sequences

CONSTANTS Schedulers, MaxEpoch, MaxLog

VARIABLES
  counter,  \* the last epoch handed out
  fence,    \* the epoch of the newest term that has written
  log,      \* the epochs stamped on the dispatches, in stream order
  term      \* the epoch of the term each replica is in, 0 outside

vars == <<counter, fence, log, term>>

Init ==
  /\ counter = 0
  /\ fence = 0
  /\ log = <<>>
  /\ term = [s \in Schedulers |-> 0]

Begin(s) ==
  /\ term[s] = 0
  /\ counter < MaxEpoch
  /\ counter' = counter + 1
  /\ term' = [term EXCEPT ![s] = counter + 1]
  /\ UNCHANGED <<fence, log>>

End(s) ==
  /\ term[s] # 0
  /\ term' = [term EXCEPT ![s] = 0]
  /\ UNCHANGED <<counter, fence, log>>

\* A write of a term that no newer term has written past; it may dispatch.
Write(s) ==
  /\ term[s] # 0
  /\ term[s] >= fence
  /\ fence' = term[s]
  /\ \/ UNCHANGED log
     \/ \E n \in 1 .. MaxLog - Len(log) : log' = log \o [i \in 1 .. n |-> term[s]]
  /\ UNCHANGED <<counter, term>>

Next == \E s \in Schedulers : Begin(s) \/ End(s) \/ Write(s)

Spec == Init /\ [][Next]_vars
=============================================================================
