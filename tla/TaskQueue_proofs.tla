-------------------------- MODULE TaskQueue_proofs --------------------------
(***************************************************************************)
(* The safety properties of the queue for every number of tasks, slots,     *)
(* recovery loops and lost replies, every budget, cap and batch size.       *)
(***************************************************************************)
EXTENDS TaskQueue, Broker_proofs, WellFoundedInduction

USE TaskQueueAssumption DEF TaskQueueAssumption

\* The invariant: the keyspace is sound, and every delivery a slot runs or a
\* recovery pass has claimed is one that was published.
QueueInv == BrokerInv /\ TypeOK

-----------------------------------------------------------------------------
(***************************************************************************)
(* What the scripts do to the stream and its pending entries list.          *)
(***************************************************************************)
LEMMA StreamLength == ASSUME BrokerInv PROVE Len(exec) \in Nat /\ exec \in Seq(Entry)
BY DEF BrokerInv, BrokerTypeOK

LEMMA AdmitStream ==
  ASSUME NEW t \in Tasks, NEW epoch \in Nat, AdmitScript(t, epoch)
  PROVE  exec' = exec /\ execPel' = execPel
BY DEF AdmitScript, Refused, brokerVars, execVars

LEMMA DispatchStream ==
  ASSUME BrokerInv, NEW epoch \in Nat, DispatchScript(epoch)
  PROVE  DeliveryIds \subseteq DeliveryIds' /\ execPel' = execPel
<1>1. CASE Refused(epoch)
  BY <1>1 DEF Refused, brokerVars, DeliveryIds
<1>2. CASE ~Refused(epoch)
  <2>1. PICK popped \in PopSets :
          \E order \in Bijection(1 .. Cardinality(Live(popped)), Live(popped)) :
            exec' = exec \o Deliveries(order, epoch)
    BY <1>2 DEF DispatchScript
  <2>2. PICK order \in Bijection(1 .. Cardinality(Live(popped)), Live(popped)) :
          exec' = exec \o Deliveries(order, epoch)
    BY <2>1
  <2>3. Len(exec') = Len(exec) + Cardinality(popped) /\ Cardinality(popped) \in Nat
    BY <2>2, DispatchAppends DEF PopSets
  <2>4. DeliveryIds \subseteq DeliveryIds'
    <3> DEFINE m == Len(exec)
               k == Cardinality(popped)
    <3>1. m \in Nat /\ k \in Nat /\ Len(exec') = m + k
      BY <2>3, StreamLength
    <3> HIDE DEF m, k
    <3>2. 1 .. m \subseteq 1 .. m + k
      BY <3>1
    <3> QED
      BY <3>1, <3>2, Zenon DEF DeliveryIds, m
  <2> QED
    BY <1>2, <2>4 DEF DispatchScript
<1> QED
  BY <1>1, <1>2

LEMMA CompleteStream ==
  ASSUME NEW id \in DeliveryIds, CompleteScript(id)
  PROVE  exec' = exec /\ execPel' \subseteq execPel
BY DEF CompleteScript, Ack

LEMMA RetryStream ==
  ASSUME BrokerInv, NEW id \in DeliveryIds, RetryScript(id)
  PROVE  DeliveryIds \subseteq DeliveryIds' /\ execPel' \subseteq execPel
<1>1. execPel' \subseteq execPel
  BY DEF RetryScript, Ack
<1>2. CASE exec' = exec
  BY <1>1, <1>2 DEF DeliveryIds
<1>3. CASE exec' # exec
  <2> DEFINE e == [task |-> exec[id].task, retry |-> exec[id].retry + 1, epoch |-> NoEpoch]
  <2>1. exec' = Append(exec, e)
    BY <1>3 DEF RetryScript
  <2>2. e \in Entry
    BY DeliveredInFlight DEF Entry, NoEpoch
  <2> HIDE DEF e
  <2>3. Len(exec') = Len(exec) + 1 /\ Len(exec) \in Nat
    BY <2>1, <2>2, StreamLength, AppendProperties
  <2>4. DeliveryIds \subseteq DeliveryIds'
    BY <2>3 DEF DeliveryIds
  <2> QED
    BY <1>1, <2>4
<1> QED
  BY <1>2, <1>3

-----------------------------------------------------------------------------
(***************************************************************************)
(* XAUTOCLAIM returns a cursor that is 0 or a pending delivery.             *)
(***************************************************************************)
LEMMA LeastExists ==
  ASSUME NEW S \in SUBSET Nat, S # {}
  PROVE  Least(S) \in S
<1>1. IsWellFoundedOn(OpToRel(<, Nat), Nat)
  BY NatLessThanWellFounded
<1>2. PICK x \in S : \A y \in S : ~(<<y, x>> \in OpToRel(<, Nat))
  BY <1>1, WFMin
<1>3. ASSUME NEW y \in S PROVE x <= y
  <2>1. ~(<<y, x>> \in {ss \in Nat \X Nat : ss[1] < ss[2]})
    BY <1>2, Zenon DEF OpToRel
  <2> QED
    BY <2>1
<1> QED
  BY <1>3 DEF Least

LEMMA CursorType ==
  ASSUME QueueInv, NEW r \in Recoverers
  PROVE  CursorAfter(r) \in DeliveryIds \cup {0}
<1>1. execPel \subseteq DeliveryIds /\ DeliveryIds \subseteq Nat
  BY StreamLength DEF QueueInv, BrokerInv, BrokerTypeOK, DeliveryIds
<1>2. Unscanned(execPel, Page(r)) \subseteq DeliveryIds
  BY <1>1 DEF Unscanned
<1>3. Unscanned(execPel, Page(r)) # {} => Least(Unscanned(execPel, Page(r))) \in DeliveryIds
  BY <1>1, <1>2, LeastExists
<1> QED
  BY <1>3 DEF CursorAfter, NextCursor

LEMMA PageType == ASSUME NEW r \in Recoverers PROVE Page(r) \subseteq expired
BY DEF Page, ClaimPage, Scanned

-----------------------------------------------------------------------------
\* The type of the variables that are not the broker's, when the stream only grows.
LEMMA QueueType ==
  ASSUME QueueInv, BrokerInv', DeliveryIds \subseteq DeliveryIds',
         expired' \subseteq execPel', resends' \in 0 .. MaxResends,
         running' \in [Slots -> DeliveryIds' \cup {NoDelivery}],
         call' \in [Slots -> {"none", "complete", "retry"}],
         claimed' \in [Recoverers -> SUBSET DeliveryIds'],
         cursor' \in [Recoverers -> DeliveryIds' \cup {0}]
  PROVE  QueueInv'
BY DEF QueueInv, TypeOK, BrokerInv

LEMMA Widen ==
  ASSUME QueueInv, DeliveryIds \subseteq DeliveryIds'
  PROVE  /\ running \in [Slots -> DeliveryIds' \cup {NoDelivery}]
         /\ call \in [Slots -> {"none", "complete", "retry"}]
         /\ claimed \in [Recoverers -> SUBSET DeliveryIds']
         /\ cursor \in [Recoverers -> DeliveryIds' \cup {0}]
         /\ expired \subseteq execPel /\ resends \in 0 .. MaxResends
BY DEF QueueInv, TypeOK

LEMMA AfterScriptType ==
  ASSUME QueueInv, DeliveryIds \subseteq DeliveryIds', NEW w \in Slots,
         NEW script \in {"complete", "retry"}, AfterScript(w, script)
  PROVE  /\ running' \in [Slots -> DeliveryIds' \cup {NoDelivery}]
         /\ call' \in [Slots -> {"none", "complete", "retry"}]
         /\ resends' \in 0 .. MaxResends
BY Widen DEF AfterScript, SlotFree, SlotResends

LEMMA SlotStepInv ==
  ASSUME QueueInv, NEW w \in Slots,
         ReadExec(w) \/ Complete(w) \/ Fail(w) \/ Abandon(w)
  PROVE  QueueInv'
<1>0. BrokerInv
  BY DEF QueueInv
<1>1. CASE ReadExec(w)
  <2>1. BrokerInv' /\ exec' = exec /\ DeliveryIds' = DeliveryIds /\ execPel \subseteq execPel'
    BY <1>0, <1>1, DeliverNextInv DEF ReadExec, DeliverNext, DeliveryIds
  <2>2. execRead + 1 \in DeliveryIds
    BY <1>0, <1>1 DEF ReadExec, DeliverNext, DeliveryIds, BrokerInv, BrokerTypeOK
  <2>3. running' \in [Slots -> DeliveryIds' \cup {NoDelivery}]
    BY <1>1, <2>1, <2>2, Widen DEF ReadExec
  <2> QED
    BY <1>1, <2>1, <2>3, Widen, QueueType DEF ReadExec, recoveryVars
<1>2. ASSUME Complete(w) \/ Fail(w)
      PROVE  QueueInv'
  <2>1. running[w] \in DeliveryIds
    BY <1>2 DEF QueueInv, TypeOK, Complete, Fail
  <2>2. CompleteScript(running[w]) \/ RetryScript(running[w])
    BY <1>2 DEF Complete, Fail
  <2>3. BrokerInv'
    BY <1>0, <2>1, <2>2, CompleteScriptInv, RetryScriptInv
  <2>4. DeliveryIds \subseteq DeliveryIds'
    <3>1. CASE CompleteScript(running[w])
      BY <2>1, <3>1, CompleteStream DEF DeliveryIds
    <3>2. CASE RetryScript(running[w])
      BY <1>0, <2>1, <3>2, RetryStream
    <3> QED
      BY <2>2, <3>1, <3>2
  <2>5. AfterScript(w, "complete") \/ AfterScript(w, "retry")
    BY <1>2 DEF Complete, Fail
  <2>6. /\ running' \in [Slots -> DeliveryIds' \cup {NoDelivery}]
        /\ call' \in [Slots -> {"none", "complete", "retry"}]
        /\ resends' \in 0 .. MaxResends
    BY <2>4, <2>5, AfterScriptType
  <2>7. expired' \subseteq execPel' /\ claimed' = claimed /\ cursor' = cursor
    BY <1>2 DEF Complete, Fail, ExpiredFollowsPel, recoveryVars
  <2> QED
    BY <2>3, <2>4, <2>6, <2>7, Widen, QueueType
<1>3. CASE Abandon(w)
  <2>1. BrokerInv' /\ DeliveryIds' = DeliveryIds /\ execPel' = execPel
    BY <1>0, <1>3, FenceOnly
       DEF Abandon, brokerVars, taskVars, execVars, recordVars, DeliveryIds, BrokerInv, BrokerTypeOK
  <2>2. /\ running' \in [Slots -> DeliveryIds' \cup {NoDelivery}]
        /\ call' \in [Slots -> {"none", "complete", "retry"}]
    BY <1>3, <2>1, Widen DEF Abandon, SlotFree
  <2> QED
    BY <1>3, <2>1, <2>2, Widen, QueueType DEF Abandon, SlotFree, recoveryVars
<1> QED
  BY <1>1, <1>2, <1>3

LEMMA RecoveryStepInv ==
  ASSUME QueueInv, NEW r \in Recoverers,
         AutoClaim(r) \/ RecoverNext(r) \/ RecoveryStops(r)
  PROVE  QueueInv'
<1>0. BrokerInv
  BY DEF QueueInv
<1>1. ASSUME UNCHANGED brokerVars
      PROVE  BrokerInv' /\ DeliveryIds' = DeliveryIds /\ execPel' = execPel
  BY <1>0, <1>1, FenceOnly
     DEF brokerVars, taskVars, execVars, recordVars, DeliveryIds, BrokerInv, BrokerTypeOK
<1>2. CASE AutoClaim(r)
  <2>1. BrokerInv' /\ DeliveryIds' = DeliveryIds /\ execPel' = execPel
    BY <1>1, <1>2 DEF AutoClaim
  <2>2. Page(r) \subseteq DeliveryIds
    <3>1. execPel \subseteq DeliveryIds
      BY StreamLength DEF QueueInv, BrokerInv, BrokerTypeOK, DeliveryIds
    <3> QED
      BY <3>1, PageType, Widen, <2>1
  <2>3. claimed' \in [Recoverers -> SUBSET DeliveryIds']
    BY <1>2, <2>1, <2>2, Widen DEF AutoClaim
  <2>4. cursor' \in [Recoverers -> DeliveryIds' \cup {0}]
    BY <1>2, <2>1, CursorType, Widen DEF AutoClaim
  <2> QED
    BY <1>2, <2>1, <2>3, <2>4, Widen, QueueType DEF AutoClaim, slotVars
<1>3. CASE RecoverNext(r)
  <2>1. PICK id \in claimed[r] :
          /\ RetryScript(id)
          /\ \/ claimed' = [claimed EXCEPT ![r] = @ \ {id}] /\ UNCHANGED resends
             \/ resends < MaxResends /\ resends' = resends + 1 /\ UNCHANGED claimed
    BY <1>3 DEF RecoverNext
  <2>2. id \in DeliveryIds
    BY <2>1 DEF QueueInv, TypeOK
  <2>3. BrokerInv' /\ DeliveryIds \subseteq DeliveryIds'
    BY <1>0, <2>1, <2>2, RetryScriptInv, RetryStream
  <2>4. claimed' \in [Recoverers -> SUBSET DeliveryIds'] /\ resends' \in 0 .. MaxResends
    BY <2>1, <2>3, Widen
  <2>5. /\ expired' \subseteq execPel' /\ running' = running /\ call' = call
        /\ cursor' = cursor
    BY <1>3 DEF RecoverNext, ExpiredFollowsPel, slotVars
  <2> QED
    BY <2>3, <2>4, <2>5, Widen, QueueType
<1>4. CASE RecoveryStops(r)
  <2>1. BrokerInv' /\ DeliveryIds' = DeliveryIds /\ execPel' = execPel
    BY <1>1, <1>4 DEF RecoveryStops
  <2>2. claimed' \in [Recoverers -> SUBSET DeliveryIds']
    BY <1>4, <2>1, Widen DEF RecoveryStops
  <2>3. cursor' \in [Recoverers -> DeliveryIds' \cup {0}]
    BY <1>4, <2>1, Widen DEF RecoveryStops
  <2> QED
    BY <1>4, <2>1, <2>2, <2>3, Widen, QueueType DEF RecoveryStops, slotVars
<1> QED
  BY <1>2, <1>3, <1>4

LEMMA SchedulerStepInv ==
  ASSUME QueueInv,
         \/ \E t \in Tasks : Admit(t)
         \/ Dispatch \/ ReadExecLost \/ TimeoutElapses
  PROVE  QueueInv'
<1>0. BrokerInv /\ NoEpoch \in Nat
  BY DEF QueueInv, NoEpoch
<1>1. CASE \E t \in Tasks : Admit(t)
  <2>1. PICK t \in Tasks : Admit(t)
    BY <1>1
  <2>2. AdmitScript(t, NoEpoch)
    BY <2>1 DEF Admit
  <2>3. BrokerInv' /\ DeliveryIds' = DeliveryIds /\ execPel' = execPel
    BY <1>0, <2>2, AdmitScriptInv, AdmitStream DEF DeliveryIds
  <2> QED
    BY <2>1, <2>3, Widen, QueueType DEF Admit, slotVars, recoveryVars
<1>2. CASE Dispatch
  <2>1. BrokerInv' /\ DeliveryIds \subseteq DeliveryIds' /\ execPel' = execPel
    BY <1>0, <1>2, DispatchScriptInv, DispatchStream DEF Dispatch
  <2> QED
    BY <1>2, <2>1, Widen, QueueType DEF Dispatch, slotVars, recoveryVars
<1>3. CASE ReadExecLost
  <2>1. BrokerInv' /\ DeliveryIds' = DeliveryIds /\ execPel \subseteq execPel'
    BY <1>0, <1>3, DeliverNextInv DEF ReadExecLost, DeliverNext, DeliveryIds
  <2> QED
    BY <1>3, <2>1, Widen, QueueType DEF ReadExecLost, slotVars, recoveryVars
<1>4. CASE TimeoutElapses
  <2>1. PICK id \in execPel : VisibilityTimeout(id)
    BY <1>4 DEF TimeoutElapses
  <2>2. BrokerInv' /\ DeliveryIds' = DeliveryIds /\ execPel' = execPel
    BY <1>0, <2>1, FenceOnly
       DEF VisibilityTimeout, brokerVars, taskVars, execVars, recordVars, DeliveryIds,
           BrokerInv, BrokerTypeOK
  <2>3. expired' \subseteq execPel'
    BY <2>1, <2>2, Widen DEF VisibilityTimeout
  <2> QED
    BY <2>1, <2>2, <2>3, Widen, QueueType DEF VisibilityTimeout, slotVars, recoveryVars
<1> QED
  BY <1>1, <1>2, <1>3, <1>4

LEMMA InitInv == Init => QueueInv
<1> SUFFICES ASSUME Init PROVE QueueInv
  OBVIOUS
<1>1. BrokerInv
  BY BrokerInitInv DEF Init
<1>2. TypeOK
  BY <1>1 DEF Init, TypeOK, BrokerInv, NoDelivery
<1> QED
  BY <1>1, <1>2 DEF QueueInv

LEMMA NextInv == QueueInv /\ [Next]_vars => QueueInv'
<1> SUFFICES ASSUME QueueInv, [Next]_vars PROVE QueueInv'
  OBVIOUS
<1>1. CASE \/ \E t \in Tasks : Admit(t)
           \/ Dispatch \/ ReadExecLost \/ TimeoutElapses
  BY <1>1, SchedulerStepInv
<1>2. CASE \E w \in Slots : ReadExec(w) \/ Complete(w) \/ Fail(w) \/ Abandon(w)
  BY <1>2, SlotStepInv
<1>3. CASE \E r \in Recoverers : AutoClaim(r) \/ RecoverNext(r) \/ RecoveryStops(r)
  BY <1>3, RecoveryStepInv
<1>4. CASE UNCHANGED vars
  <2>1. BrokerInv' /\ DeliveryIds' = DeliveryIds
    BY <1>4, FenceOnly
       DEF vars, brokerVars, taskVars, execVars, recordVars, DeliveryIds,
           QueueInv, BrokerInv, BrokerTypeOK
  <2> QED
    BY <1>4, <2>1, Widen, QueueType DEF vars, brokerVars, slotVars, recoveryVars
<1> QED
  BY <1>1, <1>2, <1>3, <1>4 DEF Next

\* The inductive invariant holds in every reachable state of the queue.
THEOREM QueueInvariant == Spec => []QueueInv
BY InitInv, NextInv, PTL DEF Spec

\* Type correctness: no slot or recovery pass ever holds a delivery that was not
\* published, no idle clock survives the acknowledgement of its delivery.
THEOREM QueueTypeCorrect == Spec => []TypeOK
<1>1. QueueInv => TypeOK
  BY DEF QueueInv
<1> QED
  BY <1>1, QueueInvariant, PTL

\* No admitted task is lost, for any interleaving of workers, recovery passes,
\* lost replies and crashes: the retry script acknowledges the old delivery and
\* publishes the next in one step.
THEOREM NoTaskIsLost == Spec => []NoTaskLost
<1>1. QueueInv => NoTaskLost
  BY DEF QueueInv, BrokerInv
<1> QED
  BY <1>1, QueueInvariant, PTL

\* The in-flight counter is exact and stays within max_in_flight, however often
\* a task is delivered, retried and completed twice.
THEOREM InFlightAccounting == Spec => [](InFlightExact /\ InFlightCapped)
<1>1. QueueInv => InFlightExact /\ InFlightCapped
  BY DEF QueueInv, BrokerInv
<1> QED
  BY <1>1, QueueInvariant, PTL

\* Exactly one terminal record per terminal task, for any number of duplicate
\* deliveries of it.
THEOREM OneOutcomePerTask == Spec => []OneTerminalRecord
<1>1. QueueInv => OneTerminalRecord
  BY DEF QueueInv, BrokerInv
<1> QED
  BY <1>1, QueueInvariant, PTL

\* A task is dispatched once, and an acknowledged delivery is either terminal or
\* followed by the next attempt.
THEOREM DeliveriesAccountedFor == Spec => [](DispatchedOnce /\ AckedIsSettled)
<1>1. QueueInv => DispatchedOnce /\ AckedIsSettled
  BY DEF QueueInv, BrokerInv
<1> QED
  BY <1>1, QueueInvariant, PTL

\* No attempt goes beyond the task's budget, whoever retries it and with however
\* old a copy of it.
THEOREM BudgetIsRespected == Spec => []RetriesWithinBudget
<1>1. QueueInv => RetriesWithinBudget
  BY DEF QueueInv, BrokerInv
<1> QED
  BY <1>1, QueueInvariant, PTL

\* The counters an operator reads always add up.
THEOREM CountersAlwaysBalance == Spec => []CountersBalance
<1>1. QueueInv => CountersBalance
  BY DEF QueueInv, BrokerInv
<1> QED
  BY <1>1, QueueInvariant, PTL

-----------------------------------------------------------------------------
(***************************************************************************)
(* A step of the queue touches the keyspace through at most one script.     *)
(***************************************************************************)
ScriptStep ==
  \/ \E t \in Tasks : AdmitScript(t, NoEpoch)
  \/ DispatchScript(NoEpoch)
  \/ \E id \in DeliveryIds : CompleteScript(id) \/ RetryScript(id)
  \/ UNCHANGED <<taskVars, exec, recordVars, fence>>

LEMMA StepsAreScripts == QueueInv /\ [Next]_vars => ScriptStep
<1> SUFFICES ASSUME QueueInv, [Next]_vars PROVE ScriptStep
  OBVIOUS
<1>0. /\ \A w \in Slots : running[w] # NoDelivery => running[w] \in DeliveryIds
      /\ \A r \in Recoverers : claimed[r] \subseteq DeliveryIds
  BY DEF QueueInv, TypeOK
<1>1. CASE (\E t \in Tasks : Admit(t)) \/ Dispatch
  BY <1>1 DEF Admit, Dispatch, ScriptStep
<1>2. CASE ReadExecLost \/ TimeoutElapses \/ UNCHANGED vars
  BY <1>2 DEF ReadExecLost, TimeoutElapses, VisibilityTimeout, vars, brokerVars,
              taskVars, recordVars, ScriptStep
<1>3. CASE \E w \in Slots : Complete(w) \/ Fail(w)
  BY <1>0, <1>3 DEF Complete, Fail, ScriptStep
<1>4. CASE \E w \in Slots : ReadExec(w) \/ Abandon(w)
  BY <1>4 DEF ReadExec, Abandon, brokerVars, taskVars, recordVars, ScriptStep
<1>5. CASE \E r \in Recoverers : RecoverNext(r)
  BY <1>0, <1>5 DEF RecoverNext, ScriptStep
<1>6. CASE \E r \in Recoverers : AutoClaim(r) \/ RecoveryStops(r)
  BY <1>6 DEF AutoClaim, RecoveryStops, brokerVars, taskVars, recordVars, ScriptStep
<1> QED
  BY <1>1, <1>2, <1>3, <1>4, <1>5, <1>6 DEF Next

(***************************************************************************)
(* OutcomeIsFinal.                                                          *)
(***************************************************************************)
LEMMA ScriptsKeepOutcome ==
  ASSUME QueueInv, ScriptStep, NEW t \in done
  PROVE  t \in done' /\ results'[t] = results[t] /\ dead'[t] = dead[t]
<1>0. results \in [Tasks -> Nat] /\ dead \in [Tasks -> Nat]
  BY DEF QueueInv, BrokerInv, BrokerTypeOK
<1>1. CASE (\E u \in Tasks : AdmitScript(u, NoEpoch)) \/ DispatchScript(NoEpoch)
  BY <1>1 DEF AdmitScript, DispatchScript, Refused, brokerVars, taskVars, recordVars
<1>2. ASSUME NEW id \in DeliveryIds, CompleteScript(id) \/ RetryScript(id)
      PROVE  t \in done' /\ results'[t] = results[t] /\ dead'[t] = dead[t]
  <2>1. CASE exec[id].task \in done
    BY <1>2, <2>1 DEF CompleteScript, RetryScript, Terminal
  <2>2. CASE exec[id].task \notin done
    <3>1. /\ results' = results \/ results' = [results EXCEPT ![exec[id].task] = @ + 1]
          /\ dead' = dead \/ dead' = [dead EXCEPT ![exec[id].task] = @ + 1]
          /\ done \subseteq done'
      BY <1>2 DEF CompleteScript, RetryScript
    <3>2. t # exec[id].task /\ t \in Tasks
      BY <2>2 DEF QueueInv, BrokerInv, BrokerTypeOK
    <3> QED
      BY <1>0, <3>1, <3>2
  <2> QED
    BY <2>1, <2>2
<1>3. CASE UNCHANGED <<taskVars, exec, recordVars, fence>>
  BY <1>3 DEF taskVars, recordVars
<1> QED
  BY <1>1, <1>2, <1>3 DEF ScriptStep

\* A terminal outcome never changes and its task never comes back, whatever late
\* worker, recovery pass or repeated submission follows.
THEOREM OutcomesAreFinal == Spec => OutcomeIsFinal
<1> DEFINE Final ==
      \A t \in done :
        /\ t \in done'
        /\ results'[t] = results[t] /\ dead'[t] = dead[t]
        /\ payloads'[t] = Absent /\ t \notin pending'
<1>1. QueueInv /\ QueueInv' /\ [Next]_vars => [Final]_vars
  <2> SUFFICES ASSUME QueueInv, QueueInv', [Next]_vars, NEW t \in done
               PROVE  /\ t \in done'
                      /\ results'[t] = results[t] /\ dead'[t] = dead[t]
                      /\ payloads'[t] = Absent /\ t \notin pending'
    OBVIOUS
  <2>1. t \in done' /\ results'[t] = results[t] /\ dead'[t] = dead[t]
    BY StepsAreScripts, ScriptsKeepOutcome
  <2>2. t \in Tasks
    BY DEF QueueInv, BrokerInv, BrokerTypeOK
  <2> QED
    BY <2>1, <2>2 DEF QueueInv, BrokerInv, OneTerminalRecord
<1> QED
  BY <1>1, QueueInvariant, PTL DEF Spec, OutcomeIsFinal

-----------------------------------------------------------------------------
(***************************************************************************)
(* The queue implements TaskLifecycle.                                      *)
(***************************************************************************)
status == [t \in Tasks |-> StatusOf(t)]

StatusReads ==
  \A t \in Tasks :
    /\ t \in done /\ results[t] > 0 => StatusOf(t) = "completed"
    /\ t \in done /\ results[t] = 0 => StatusOf(t) = "dead"
    /\ t \notin done /\ payloads[t] = Absent => StatusOf(t) = "unknown"
    /\ t \notin done /\ payloads[t] # Absent /\ t \in pending => StatusOf(t) = "pending"
    /\ t \notin done /\ payloads[t] # Absent /\ t \notin pending => StatusOf(t) = "inflight"

LEMMA StatusValue == BrokerInv => StatusReads
<1> SUFFICES ASSUME BrokerInv, NEW t \in Tasks
             PROVE  /\ t \in done /\ results[t] > 0 => StatusOf(t) = "completed"
                    /\ t \in done /\ results[t] = 0 => StatusOf(t) = "dead"
                    /\ t \notin done /\ payloads[t] = Absent => StatusOf(t) = "unknown"
                    /\ t \notin done /\ payloads[t] # Absent =>
                         StatusOf(t) = IF t \in pending THEN "pending" ELSE "inflight"
  BY DEF StatusReads
<1>1. results[t] \in Nat /\ dead[t] \in Nat
  BY DEF BrokerInv, BrokerTypeOK
<1>2. results[t] + dead[t] = IF t \in done THEN 1 ELSE 0
  BY DEF BrokerInv, OneTerminalRecord
<1>3. CASE t \in done /\ results[t] > 0
  BY <1>3 DEF StatusOf
<1>4. CASE t \in done /\ results[t] = 0
  <2>1. dead[t] > 0 /\ ~(results[t] > 0)
    BY <1>1, <1>2, <1>4
  <2> QED
    BY <1>4, <2>1 DEF StatusOf
<1>5. CASE t \notin done
  <2>1. results[t] = 0 /\ dead[t] = 0 /\ ~(results[t] > 0) /\ ~(dead[t] > 0)
    BY <1>1, <1>2, <1>5
  <2> QED
    BY <1>5, <2>1 DEF StatusOf
<1> QED
  BY <1>1, <1>3, <1>4, <1>5

LEMMA NextStatusValue == BrokerInv' => StatusReads'
BY StatusValue, PTL

\* A task none of whose keys changes keeps its status.
LEMMA StatusKept ==
  ASSUME NEW t \in Tasks, payloads'[t] = payloads[t], t \in pending' <=> t \in pending,
         results'[t] = results[t], dead'[t] = dead[t]
  PROVE  StatusOf(t)' = StatusOf(t)
BY DEF StatusOf

LEMMA AdmitRefines ==
  ASSUME BrokerInv, BrokerInv', NEW t \in Tasks, AdmitScript(t, NoEpoch)
  PROVE  status' = status \/ Lifecycle!Admit
<1>1. CASE UNCHANGED <<payloads, pending, results, dead>>
  <2>1. \A u \in Tasks : StatusOf(u)' = StatusOf(u)
    BY <1>1, StatusKept
  <2> QED
    BY <2>1 DEF status
<1>2. CASE /\ ~KnownTask(t)
           /\ payloads' = [payloads EXCEPT ![t] = 0]
           /\ pending' = pending \cup {t}
           /\ UNCHANGED <<done, results, dead>>
  <2>1. payloads \in [Tasks -> Nat \cup {Absent}]
    BY DEF BrokerInv, BrokerTypeOK
  <2>2. StatusOf(t) = "unknown"
    BY <1>2, StatusValue DEF KnownTask, StatusReads
  <2>3. t \notin done' /\ payloads'[t] # Absent /\ t \in pending'
    BY <1>2, <2>1 DEF KnownTask, Absent
  <2>4. StatusOf(t)' = "pending"
    BY <2>3, NextStatusValue DEF StatusReads
  <2>5. \A u \in Tasks : u # t => StatusOf(u)' = StatusOf(u)
    BY <1>2, <2>1, StatusKept
  <2> QED
    BY <2>2, <2>4, <2>5 DEF Lifecycle!Admit, Lifecycle!In, Lifecycle!Become, status
<1> QED
  BY <1>1, <1>2 DEF AdmitScript, Refused, brokerVars, taskVars, recordVars

\* Making one in-flight task terminal is a step of the lifecycle.
LEMMA TerminalRefines ==
  ASSUME BrokerInv, BrokerInv', NEW t \in InFlightTasks, t \notin done,
         done' = done \cup {t},
         payloads' = [payloads EXCEPT ![t] = Absent], UNCHANGED pending,
         \/ results' = [results EXCEPT ![t] = @ + 1] /\ UNCHANGED dead
         \/ dead' = [dead EXCEPT ![t] = @ + 1] /\ UNCHANGED results
  PROVE  Lifecycle!Complete \/ Lifecycle!DeadLetter
<1>1. t \in Tasks
  BY DEF InFlightTasks
<1>2. /\ payloads \in [Tasks -> Nat \cup {Absent}]
      /\ results \in [Tasks -> Nat] /\ dead \in [Tasks -> Nat]
  BY DEF BrokerInv, BrokerTypeOK
<1>3. StatusOf(t) = "inflight"
  BY <1>1, StatusValue DEF StatusReads, InFlightTasks
<1>4. StatusOf(t)' \in {"completed", "dead"}
  <2>1. t \in done' /\ results'[t] \in Nat
    BY <1>1, <1>2
  <2>2. results'[t] > 0 \/ results'[t] = 0
    BY <2>1
  <2> QED
    BY <1>1, <2>1, <2>2, NextStatusValue DEF StatusReads
<1>5. \A u \in Tasks : u # t => StatusOf(u)' = StatusOf(u)
  BY <1>1, <1>2, StatusKept
<1>6. CASE StatusOf(t)' = "completed"
  BY <1>1, <1>3, <1>5, <1>6 DEF Lifecycle!Complete, Lifecycle!In, Lifecycle!Become
<1>7. CASE StatusOf(t)' = "dead"
  BY <1>1, <1>3, <1>5, <1>7 DEF Lifecycle!DeadLetter, Lifecycle!In, Lifecycle!Become
<1> QED
  BY <1>4, <1>6, <1>7

\* Completing or retrying a delivery is a step of the lifecycle, or no step: a
\* duplicate of a terminal task and a retry within the budget change no status.
LEMMA SettleRefines ==
  ASSUME BrokerInv, BrokerInv', NEW id \in DeliveryIds,
         CompleteScript(id) \/ RetryScript(id)
  PROVE  status' = status \/ Lifecycle!Complete \/ Lifecycle!DeadLetter
<1>0. PICK t \in Tasks, next \in Nat : t = exec[id].task /\ next = exec[id].retry + 1
  BY DeliveredInFlight
<1>1. t \in Tasks /\ t \notin pending /\ (t \notin done => t \in InFlightTasks)
  BY <1>0, DeliveredInFlight
<1>2. CASE UNCHANGED <<payloads, pending, results, dead>>
  <2>1. \A u \in Tasks : StatusOf(u)' = StatusOf(u)
    BY <1>2, StatusKept
  <2> QED
    BY <2>1 DEF status
<1>3. CASE /\ t \notin done /\ UNCHANGED <<done, pending, results, dead>>
           /\ payloads' = [payloads EXCEPT ![t] = next]
  <2>1. payloads \in [Tasks -> Nat \cup {Absent}]
    BY DEF BrokerInv, BrokerTypeOK
  <2>2. payloads[t] # Absent /\ payloads'[t] # Absent
    BY <1>1, <1>3, <2>1 DEF InFlightTasks, Absent
  <2>3. StatusOf(t) = "inflight"
    BY <1>1, <1>3, <2>2, StatusValue DEF StatusReads
  <2>4. StatusOf(t)' = "inflight"
    BY <1>1, <1>3, <2>2, NextStatusValue DEF StatusReads
  <2>5. \A u \in Tasks : u # t => StatusOf(u)' = StatusOf(u)
    BY <1>1, <1>3, <2>1, StatusKept
  <2> QED
    BY <2>3, <2>4, <2>5 DEF status
<1>4. CASE /\ t \notin done /\ done' = done \cup {t} /\ UNCHANGED pending
           /\ payloads' = [payloads EXCEPT ![t] = Absent]
           /\ \/ results' = [results EXCEPT ![t] = @ + 1] /\ UNCHANGED dead
              \/ dead' = [dead EXCEPT ![t] = @ + 1] /\ UNCHANGED results
  BY <1>1, <1>4, TerminalRefines
<1> QED
  BY <1>0, <1>2, <1>3, <1>4 DEF CompleteScript, RetryScript, Terminal

LEMMA SameCardinality == \A S : Lifecycle!Cardinality(S) = Cardinality(S)
BY Zenon DEF Lifecycle!Cardinality, Cardinality

\* A dispatch pass moves a set of tasks from pending to in flight, within the cap.
LEMMA DispatchRefines ==
  ASSUME BrokerInv, BrokerInv', DispatchScript(NoEpoch)
  PROVE  status' = status \/ Lifecycle!Dispatch
<1>1. CASE UNCHANGED <<payloads, pending, results, dead>>
  <2>1. \A u \in Tasks : StatusOf(u)' = StatusOf(u)
    BY <1>1, StatusKept
  <2> QED
    BY <2>1 DEF status
<1>2. CASE ~UNCHANGED <<payloads, pending, results, dead>>
  <2>1. /\ \E popped \in PopSets : pending' = pending \ popped
        /\ UNCHANGED <<payloads, done, results, dead>>
    BY <1>2 DEF DispatchScript, Refused, brokerVars
  <2>2. PICK popped \in PopSets : pending' = pending \ popped
    BY <2>1
  <2>3. /\ popped \subseteq pending /\ popped # {} /\ pending \subseteq Tasks
        /\ Live(popped) = popped
        /\ \A t \in pending : t \notin done /\ payloads[t] # Absent
    BY <1>2, <2>1, <2>2
       DEF PopSets, Live, BrokerInv, BrokerTypeOK, PendingFresh, OneTerminalRecord, Absent
  <2>4. \A t \in popped : StatusOf(t) = "pending" /\ StatusOf(t)' = "inflight"
    <3> SUFFICES ASSUME NEW t \in popped
                 PROVE  StatusOf(t) = "pending" /\ StatusOf(t)' = "inflight"
      OBVIOUS
    <3>1. t \in Tasks /\ t \in pending /\ t \notin done /\ payloads[t] # Absent
      BY <2>3
    <3>2. t \notin pending' /\ t \notin done' /\ payloads'[t] # Absent
      BY <2>1, <2>2, <3>1
    <3> QED
      BY <3>1, <3>2, StatusValue, NextStatusValue DEF StatusReads
  <2>5. \A u \in Tasks : u \notin popped => StatusOf(u)' = StatusOf(u)
    BY <2>1, <2>2, StatusKept
  <2>6. Lifecycle!In("inflight") = InFlightTasks
    <3>1. \A t \in Tasks : StatusOf(t) = "inflight" <=> payloads[t] # Absent /\ t \notin pending
      <4> SUFFICES ASSUME NEW t \in Tasks
                   PROVE  StatusOf(t) = "inflight" <=> payloads[t] # Absent /\ t \notin pending
        OBVIOUS
      <4>1. results[t] > 0 \/ results[t] = 0
        BY DEF BrokerInv, BrokerTypeOK
      <4>2. t \in done => payloads[t] = Absent
        BY DEF BrokerInv, OneTerminalRecord
      <4> QED
        BY <4>1, <4>2, StatusValue DEF StatusReads
    <3> QED
      BY <3>1 DEF Lifecycle!In, InFlightTasks
  <2>7. MaxInFlight > 0 =>
          Cardinality(Lifecycle!In("inflight")) + Cardinality(popped) <= MaxInFlight
    BY <2>3, <2>6 DEF BrokerInv, InFlightExact, PopSets, UnderCap
  <2>8. popped \in SUBSET Lifecycle!In("pending")
    BY <2>3, <2>4 DEF Lifecycle!In
  <2>9. Lifecycle!Become(popped, "inflight")
    BY <2>3, <2>4, <2>5 DEF Lifecycle!Become
  <2> QED
    <3>1. Lifecycle!Dispatch
      BY <2>3, <2>7, <2>8, <2>9, SameCardinality, Zenon DEF Lifecycle!Dispatch
    <3> QED
      BY <3>1
<1> QED
  BY <1>1, <1>2

LEMMA InitRefines == Init => Lifecycle!Init
<1> SUFFICES ASSUME Init PROVE Lifecycle!Init
  OBVIOUS
<1>1. BrokerInv /\ done = {} /\ payloads = [t \in Tasks |-> Absent]
  BY BrokerInitInv DEF Init, BrokerInit
<1>2. \A t \in Tasks : StatusOf(t) = "unknown"
  BY <1>1, StatusValue DEF StatusReads
<1> QED
  BY <1>2 DEF Lifecycle!Init

\* The queue implements the lifecycle: every history of a task, read off the
\* keyspace, is one that TaskLifecycle allows, for every value of the constants.
THEOREM QueueImplementsLifecycle == Spec => ImplementsLifecycle
<1>1. QueueInv /\ QueueInv' /\ [Next]_vars => [Lifecycle!Next]_status
  <2> SUFFICES ASSUME QueueInv, QueueInv', [Next]_vars
               PROVE  Lifecycle!Next \/ status' = status
    BY DEF status
  <2>0. BrokerInv /\ BrokerInv' /\ ScriptStep
    BY StepsAreScripts DEF QueueInv
  <2>1. CASE \E t \in Tasks : AdmitScript(t, NoEpoch)
    BY <2>0, <2>1, AdmitRefines DEF Lifecycle!Next
  <2>2. CASE DispatchScript(NoEpoch)
    BY <2>0, <2>2, DispatchRefines DEF Lifecycle!Next
  <2>3. CASE \E id \in DeliveryIds : CompleteScript(id) \/ RetryScript(id)
    BY <2>0, <2>3, SettleRefines DEF Lifecycle!Next
  <2>4. CASE UNCHANGED <<taskVars, exec, recordVars, fence>>
    <3>1. \A u \in Tasks : StatusOf(u)' = StatusOf(u)
      BY <2>4, StatusKept DEF taskVars, recordVars
    <3> QED
      BY <3>1 DEF status
  <2> QED
    BY <2>0, <2>1, <2>2, <2>3, <2>4 DEF ScriptStep
<1> QED
  BY <1>1, InitRefines, QueueInvariant, PTL
     DEF Spec, ImplementsLifecycle, Lifecycle!Spec, status

=============================================================================
