----------------------------- MODULE TaskQueue ------------------------------
(***************************************************************************)
(* The execution side of the queue: one scheduler running without a lease   *)
(* (epoch NoEpoch), worker slots (internal/worker) and recovery loops       *)
(* (internal/recovery, one per scheduler replica), sharing the keyspace of  *)
(* module Broker.                                                           *)
(*                                                                          *)
(* The ingress stream is abstracted to "any task may be offered for         *)
(* admission at any time, any number of times": producers resubmit, and the *)
(* stream is delivered at least once.  Time is abstracted to "the           *)
(* visibility timeout of an unacknowledged delivery may elapse at any       *)
(* moment after it was handed out".                                         *)
(***************************************************************************)
EXTENDS Broker, StreamGroup

CONSTANTS
  Slots,          \* execution slots of all workers, one consumer name each
  Recoverers,     \* recovery loops
  RecoveryBatch,  \* recovery.batch
  MaxResends      \* bound: scripts whose reply is lost and that are sent again

ASSUME TaskQueueAssumption ==
  /\ RecoveryBatch \in Nat \ {0}
  /\ MaxResends \in Nat

VARIABLES
  running,  \* the delivery each slot executes, NoDelivery when it is idle
  call,     \* the script a slot is about to send again, "none" if any may follow
  expired,  \* unacknowledged deliveries idle for longer than the timeout
  claimed,  \* deliveries each recovery pass has claimed and not yet handled
  cursor,   \* XAUTOCLAIM scan position of each recovery loop
  resends   \* how many replies were lost so far

slotVars     == <<running, call>>
recoveryVars == <<claimed, cursor>>
vars == <<brokerVars, slotVars, expired, recoveryVars, resends>>

NoDelivery == 0

\* The in-flight counter never goes below zero, and recovery claims only what was
\* delivered; an idle time belongs to an unacknowledged delivery.
TypeOK ==
  /\ BrokerTypeOK
  /\ running \in [Slots -> DeliveryIds \cup {NoDelivery}]
  /\ call \in [Slots -> {"none", "complete", "retry"}]
  /\ expired \subseteq execPel
  /\ claimed \in [Recoverers -> SUBSET DeliveryIds]
  /\ cursor \in [Recoverers -> DeliveryIds \cup {0}]
  /\ resends \in 0 .. MaxResends

Init ==
  /\ BrokerInit
  /\ running = [w \in Slots |-> NoDelivery]
  /\ call = [w \in Slots |-> "none"]
  /\ expired = {}
  /\ claimed = [r \in Recoverers |-> {}]
  /\ cursor = [r \in Recoverers |-> 0]
  /\ resends = 0

-----------------------------------------------------------------------------
(***************************************************************************)
(* The scheduler.                                                           *)
(***************************************************************************)
Admit(t) ==
  /\ AdmitScript(t, NoEpoch)
  /\ UNCHANGED <<slotVars, expired, recoveryVars, resends>>

Dispatch ==
  /\ DispatchScript(NoEpoch)
  /\ UNCHANGED <<slotVars, expired, recoveryVars, resends>>

-----------------------------------------------------------------------------
(***************************************************************************)
(* A worker slot.  slotLoop reads one delivery; execute runs the task and   *)
(* sends one script, or nothing when the attempt is abandoned.              *)
(***************************************************************************)
ReadExec(w) ==
  /\ running[w] = NoDelivery
  /\ DeliverNext
  /\ running' = [running EXCEPT ![w] = execRead + 1]
  /\ UNCHANGED <<taskVars, exec, recordVars, fence, call, expired, recoveryVars, resends>>

\* The delivery was handed out and the reply, or its reader, was lost.
ReadExecLost ==
  /\ DeliverNext
  /\ UNCHANGED <<taskVars, exec, recordVars, fence, slotVars, expired, recoveryVars, resends>>

SlotFree(w) ==
  /\ running' = [running EXCEPT ![w] = NoDelivery]
  /\ call' = [call EXCEPT ![w] = "none"]
  /\ UNCHANGED resends

\* The script ran and its reply did not arrive: the Redis client sends it again.
SlotResends(w, script) ==
  /\ resends < MaxResends
  /\ resends' = resends + 1
  /\ call' = [call EXCEPT ![w] = script]
  /\ UNCHANGED running

AfterScript(w, script) == SlotFree(w) \/ SlotResends(w, script)

\* An acknowledged delivery leaves the pending entries list, idle time and all.
ExpiredFollowsPel == expired' = expired \cap execPel'

Complete(w) ==
  /\ running[w] # NoDelivery
  /\ call[w] \in {"none", "complete"}
  /\ CompleteScript(running[w])
  /\ AfterScript(w, "complete")
  /\ ExpiredFollowsPel
  /\ UNCHANGED recoveryVars

\* The task body reported an application error.
Fail(w) ==
  /\ running[w] # NoDelivery
  /\ call[w] \in {"none", "retry"}
  /\ RetryScript(running[w])
  /\ AfterScript(w, "retry")
  /\ ExpiredFollowsPel
  /\ UNCHANGED recoveryVars

\* The worker dies, its grace period ends, the injected failure strikes, or
\* its script never reaches Redis: the delivery stays unacknowledged.
Abandon(w) ==
  /\ running[w] # NoDelivery
  /\ SlotFree(w)
  /\ UNCHANGED <<brokerVars, expired, recoveryVars>>

-----------------------------------------------------------------------------
(***************************************************************************)
(* Recovery.  XAUTOCLAIM scans the pending entries list from the cursor,    *)
(* claims the first RecoveryBatch deliveries whose idle time exceeds the    *)
(* timeout, and restarts their idle time.                                   *)
(***************************************************************************)
VisibilityTimeout(id) ==
  /\ id \in execPel \ expired
  /\ expired' = expired \cup {id}
  /\ UNCHANGED <<brokerVars, slotVars, recoveryVars, resends>>

Page(r) == ClaimPage(expired, cursor[r], RecoveryBatch)

\* Defect: at the end of the list the cursor stays there instead of wrapping.
DefectCursorStays(r) ==
  LET next == NextCursor(execPel, Page(r), RecoveryBatch)
  IN  IF next = 0 THEN Len(exec) ELSE next

CursorAfter(r) == NextCursor(execPel, Page(r), RecoveryBatch)

AutoClaim(r) ==
  /\ claimed[r] = {}
  /\ claimed' = [claimed EXCEPT ![r] = Page(r)]
  /\ cursor' = [cursor EXCEPT ![r] = CursorAfter(r)]
  /\ expired' = expired \ Page(r)
  /\ UNCHANGED <<brokerVars, slotVars, resends>>

\* One turn of the loop over the claimed messages, in stream order.
RecoverNext(r) ==
  \E id \in claimed[r] :
    /\ \A other \in claimed[r] : id <= other
    /\ RetryScript(id)
    /\ \/ /\ claimed' = [claimed EXCEPT ![r] = @ \ {id}]
          /\ UNCHANGED resends
       \/ /\ resends < MaxResends
          /\ resends' = resends + 1
          /\ UNCHANGED claimed
    /\ ExpiredFollowsPel
    /\ UNCHANGED <<slotVars, cursor>>

\* The pass ends early: an error from Redis (the loop keeps its cursor), or the
\* process restarts (a new loop scans from the beginning).
RecoveryStops(r) ==
  /\ claimed[r] # {}
  /\ claimed' = [claimed EXCEPT ![r] = {}]
  /\ \/ UNCHANGED cursor
     \/ cursor' = [cursor EXCEPT ![r] = 0]
  /\ UNCHANGED <<brokerVars, slotVars, expired, resends>>

-----------------------------------------------------------------------------
Settle(w) == Complete(w) \/ Fail(w) \/ Abandon(w)

TimeoutElapses == \E id \in execPel : VisibilityTimeout(id)

Next ==
  \/ \E t \in Tasks : Admit(t)
  \/ Dispatch
  \/ \E w \in Slots : ReadExec(w) \/ Complete(w) \/ Fail(w) \/ Abandon(w)
  \/ ReadExecLost
  \/ TimeoutElapses
  \/ \E r \in Recoverers : AutoClaim(r) \/ RecoverNext(r) \/ RecoveryStops(r)

Spec == Init /\ [][Next]_vars

(***************************************************************************)
(* Every loop of the code runs again after its tick, poll or block: weak    *)
(* fairness.  A recovery pass that claims again and again gets through to   *)
(* Redis eventually (errors are transient): strong fairness on its turn.    *)
(***************************************************************************)
Fairness ==
  /\ WF_vars(Dispatch)
  /\ \A w \in Slots : WF_vars(ReadExec(w)) /\ WF_vars(Settle(w))
  /\ WF_vars(TimeoutElapses)
  /\ \A r \in Recoverers : WF_vars(AutoClaim(r)) /\ SF_vars(RecoverNext(r))

FairSpec == Spec /\ Fairness
-----------------------------------------------------------------------------
(***************************************************************************)
(* Properties, besides those of module Broker.                              *)
(***************************************************************************)
\* A terminal outcome is final: no late worker, recovery pass or redelivered
\* ingress entry changes the records of a task that has one.
OutcomeIsFinal ==
  [][\A t \in done :
       /\ t \in done'
       /\ results'[t] = results[t] /\ dead'[t] = dead[t]
       /\ payloads'[t] = Absent /\ t \notin pending']_vars

-----------------------------------------------------------------------------
(***************************************************************************)
(* Refinement: the lifecycle of a task, read off the keyspace.              *)
(***************************************************************************)
StatusOf(t) ==
  CASE results[t] > 0 -> "completed"
    [] results[t] = 0 /\ dead[t] > 0 -> "dead"
    [] results[t] = 0 /\ dead[t] = 0 /\ payloads[t] = Absent -> "unknown"
    [] results[t] = 0 /\ dead[t] = 0 /\ payloads[t] # Absent ->
         IF t \in pending THEN "pending" ELSE "inflight"

Lifecycle == INSTANCE TaskLifecycle WITH status <- [t \in Tasks |-> StatusOf(t)]

\* The queue implements the lifecycle it promises.
ImplementsLifecycle == Lifecycle!Spec

\* Every admitted task reaches a terminal outcome (README: "Yes, given a retry
\* budget and a live worker").
EveryTaskTerminates == Lifecycle!Terminates

\* Every delivery handed out is acknowledged in the end, the ones of dead workers
\* and of already terminal tasks included: the pending entries list drains.
DeliveriesDrain == <>[](execPel = {})

-----------------------------------------------------------------------------
(***************************************************************************)
(* What the documentation says and the code does not do.                    *)
(***************************************************************************)
\* domain/task.go: "AttemptID uniquely identifies one delivery attempt of the
\* task. It changes on every retry".  The attempt ID is "<task>#<retry>".
AttemptIdsUnique ==
  \A i, j \in DeliveryIds :
    exec[i].task = exec[j].task /\ exec[i].retry = exec[j].retry => i = j

\* README: "A task's completion is recorded at least once, given it completes":
\* when a worker reports success, a result record exists afterwards.
CompletionRecorded ==
  [][\A w \in Slots :
       Complete(w) => results'[exec[running[w]].task] = 1]_vars

=============================================================================
