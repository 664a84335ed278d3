--------------------------- MODULE Broker_proofs ----------------------------
(***************************************************************************)
(* Every script of the broker preserves the invariants of module Broker, in *)
(* any order, for any arguments its callers can pass, repeated at will: for *)
(* every set of tasks, retry budget, in-flight cap and batch size.          *)
(***************************************************************************)
EXTENDS Broker, FiniteSetTheorems, SequenceTheorems, TLAPS

\* A task waiting for its dispatch has its submitted payload.
PendingFresh == \A t \in pending : payloads[t] = 0

\* A delivered task is stored or terminal, never forgotten.
DeliveredKnown == \A i \in DeliveryIds : KnownTask(exec[i].task)

(***************************************************************************)
(* The inductive invariant of the keyspace.                                 *)
(***************************************************************************)
BrokerInv ==
  /\ BrokerTypeOK
  /\ PendingFresh
  /\ OneTerminalRecord
  /\ DeliveredKnown
  /\ DispatchedOnce
  /\ NoTaskLost
  /\ AckedIsSettled
  /\ RetriesWithinBudget
  /\ InFlightExact
  /\ InFlightCapped
  /\ CountersBalance

USE BrokerAssumption DEF BrokerAssumption

LEMMA BudgetType == ASSUME NEW t \in Tasks PROVE Budget(t) \in Nat
BY DEF Budget

\* Every subset of the tasks is finite.
LEMMA TaskSets ==
  ASSUME NEW S \in SUBSET Tasks
  PROVE  IsFiniteSet(S) /\ Cardinality(S) \in Nat
BY FS_Subset, FS_CardinalityType

LEMMA BrokerInitInv == BrokerInit => BrokerInv
<1> SUFFICES ASSUME BrokerInit PROVE BrokerInv
  OBVIOUS
<1> USE DEF BrokerInit
<1>1. BrokerTypeOK
  BY DEF BrokerTypeOK, Stats, Absent
<1>2. DeliveryIds = {}
  BY DEF DeliveryIds
<1>3. PendingFresh /\ OneTerminalRecord /\ NoTaskLost
  BY DEF PendingFresh, OneTerminalRecord, NoTaskLost, Absent
<1>4. DeliveredKnown /\ DispatchedOnce /\ AckedIsSettled /\ RetriesWithinBudget
  BY <1>2 DEF DeliveredKnown, DispatchedOnce, AckedIsSettled, RetriesWithinBudget
<1>5. InFlightTasks = {}
  BY DEF InFlightTasks, Absent
<1>6. InFlightExact /\ InFlightCapped /\ CountersBalance
  BY <1>5, FS_EmptySet DEF InFlightExact, InFlightCapped, CountersBalance
<1> QED
  BY <1>1, <1>3, <1>4, <1>6 DEF BrokerInv

-----------------------------------------------------------------------------
\* The invariant does not mention the fence.
LEMMA FenceOnly ==
  ASSUME BrokerInv, UNCHANGED <<taskVars, execVars, recordVars>>, fence' \in Nat
  PROVE  BrokerInv'
<1> USE DEF taskVars, execVars, recordVars
<1>1. BrokerTypeOK'
  BY DEF BrokerInv, BrokerTypeOK
<1>2. (PendingFresh /\ OneTerminalRecord /\ DeliveredKnown /\ DispatchedOnce)'
  BY DEF BrokerInv, PendingFresh, OneTerminalRecord, DeliveredKnown, DispatchedOnce,
         DeliveryIds, KnownTask
<1>3. (NoTaskLost /\ AckedIsSettled /\ RetriesWithinBudget)'
  BY DEF BrokerInv, NoTaskLost, AckedIsSettled, RetriesWithinBudget, Outstanding,
         DeliveryIds
<1>4. (InFlightExact /\ InFlightCapped /\ CountersBalance)'
  BY DEF BrokerInv, InFlightExact, InFlightTasks, InFlightCapped, CountersBalance
<1> QED
  BY <1>1, <1>2, <1>3, <1>4 DEF BrokerInv

LEMMA RefusedInv ==
  ASSUME BrokerInv, NEW epoch \in Nat, Refused(epoch)
  PROVE  BrokerInv'
<1>1. UNCHANGED <<taskVars, execVars, recordVars>> /\ fence' \in Nat
  BY DEF Refused, brokerVars, taskVars, execVars, recordVars, BrokerInv, BrokerTypeOK
<1> QED
  BY <1>1, FenceOnly

\* One more admitted task is one more pending task: the arithmetic of admission.
LEMMA OneMorePending ==
  ASSUME NEW a \in Nat, NEW p \in Nat, NEW f \in Int, NEW c \in Nat, NEW d \in Nat,
         a = p + f + c + d
  PROVE  a + 1 = (p + 1) + f + c + d
OBVIOUS

LEMMA AdmitNewInv ==
  ASSUME BrokerInv, NEW t \in Tasks, fence' \in Nat, ~KnownTask(t),
         payloads' = [payloads EXCEPT ![t] = 0],
         pending' = pending \cup {t},
         stats' = [stats EXCEPT !.admitted = @ + 1],
         UNCHANGED <<done, execVars, results, dead, inflight>>
  PROVE  BrokerInv'
<1> USE DEF execVars
<1>0. t \notin done /\ payloads[t] = Absent /\ t \notin pending
  BY DEF KnownTask, BrokerInv, PendingFresh, Absent
<1>a. /\ stats' \in Stats
      /\ stats'.admitted = stats.admitted + 1
      /\ stats'.dispatched = stats.dispatched /\ stats'.completed = stats.completed
      /\ stats'.retried = stats.retried /\ stats'.deadLettered = stats.deadLettered
  <2>1. stats \in Stats
    BY DEF BrokerInv, BrokerTypeOK
  <2> QED
    BY <2>1 DEF Stats
<1>1. BrokerTypeOK'
  BY <1>a DEF BrokerInv, BrokerTypeOK
<1>2. PendingFresh'
  BY DEF BrokerInv, BrokerTypeOK, PendingFresh
<1>3. OneTerminalRecord'
  BY <1>0 DEF BrokerInv, BrokerTypeOK, OneTerminalRecord
<1>4. DeliveredKnown' /\ DispatchedOnce'
  <2>1. \A i \in DeliveryIds : exec[i].task # t
    BY DEF BrokerInv, DeliveredKnown
  <2> QED
    BY <2>1 DEF BrokerInv, BrokerTypeOK, DeliveredKnown, DispatchedOnce, DeliveryIds,
                KnownTask, Absent
<1>5. NoTaskLost'
  BY DEF BrokerInv, BrokerTypeOK, NoTaskLost, Outstanding
<1>6. AckedIsSettled' /\ RetriesWithinBudget'
  BY DEF BrokerInv, AckedIsSettled, RetriesWithinBudget, Outstanding, DeliveryIds
<1>7. InFlightExact' /\ InFlightCapped'
  <2>1. InFlightTasks' = InFlightTasks
    BY <1>0 DEF InFlightTasks, BrokerInv, BrokerTypeOK, Absent
  <2> QED
    BY <2>1 DEF BrokerInv, InFlightExact, InFlightCapped
<1>8. CountersBalance'
  <2>1. Cardinality(pending') = Cardinality(pending) + 1 /\ Cardinality(pending) \in Nat
    BY <1>0, TaskSets, FS_AddElement DEF BrokerInv, BrokerTypeOK
  <2>2. stats \in Stats /\ inflight \in Int
    BY DEF BrokerInv, BrokerTypeOK
  <2>3. /\ stats.admitted \in Nat /\ stats.completed \in Nat /\ stats.deadLettered \in Nat
    BY <2>2 DEF Stats
  <2>4. CountersBalance
    BY DEF BrokerInv
  <2>5. stats'.admitted = Cardinality(pending') + inflight' + stats'.completed
                            + stats'.deadLettered
    <3>1. stats.admitted = Cardinality(pending) + inflight + stats.completed
                             + stats.deadLettered
      BY <2>4 DEF CountersBalance
    <3>2. stats.admitted + 1 = (Cardinality(pending) + 1) + inflight + stats.completed
                                 + stats.deadLettered
      BY <2>1, <2>2, <2>3, <3>1, OneMorePending
    <3>3. inflight' = inflight
      OBVIOUS
    <3> QED
      BY <1>a, <2>1, <3>2, <3>3
  <2>6. stats'.dispatched + stats'.retried = Len(exec')
    BY <1>a, <2>4 DEF CountersBalance
  <2> QED
    BY <2>5, <2>6 DEF CountersBalance
<1> QED
  BY <1>1, <1>2, <1>3, <1>4, <1>5, <1>6, <1>7, <1>8 DEF BrokerInv

\* Admission, of a task seen before or not, preserves the invariant.
THEOREM AdmitScriptInv ==
  ASSUME BrokerInv, NEW t \in Tasks, NEW epoch \in Nat, AdmitScript(t, epoch)
  PROVE  BrokerInv'
<1>0. ~Fenced(epoch) /\ RaiseFence(epoch) => fence' \in Nat
  BY DEF RaiseFence, BrokerInv, BrokerTypeOK
<1>1. CASE Refused(epoch)
  BY <1>1, RefusedInv
<1>2. CASE ~Refused(epoch) /\ KnownTask(t)
  BY <1>0, <1>2, FenceOnly DEF AdmitScript
<1>3. CASE ~Refused(epoch) /\ ~KnownTask(t)
  BY <1>0, <1>3, AdmitNewInv DEF AdmitScript
<1> QED
  BY <1>1, <1>2, <1>3

-----------------------------------------------------------------------------
LEMMA StatsType ==
  ASSUME BrokerInv
  PROVE  /\ stats \in Stats /\ inflight \in Nat
         /\ stats.admitted \in Nat /\ stats.dispatched \in Nat
         /\ stats.completed \in Nat /\ stats.duplicates \in Nat
         /\ stats.retried \in Nat /\ stats.deadLettered \in Nat
<1>1. stats \in Stats /\ inflight \in Nat
  BY DEF BrokerInv, BrokerTypeOK
<1> QED
  BY <1>1 DEF Stats

LEMMA DispatchedStats ==
  ASSUME NEW s \in Stats, NEW n \in Nat
  PROVE  /\ [s EXCEPT !.dispatched = @ + n] \in Stats
         /\ [s EXCEPT !.dispatched = @ + n].dispatched = s.dispatched + n
         /\ [s EXCEPT !.dispatched = @ + n].admitted = s.admitted
         /\ [s EXCEPT !.dispatched = @ + n].completed = s.completed
         /\ [s EXCEPT !.dispatched = @ + n].retried = s.retried
         /\ [s EXCEPT !.dispatched = @ + n].deadLettered = s.deadLettered
BY DEF Stats

\* What a dispatch pass appends: one first attempt of each popped task.
LEMMA DispatchAppends ==
  ASSUME BrokerInv, NEW epoch \in Nat, NEW popped \in SUBSET pending,
         NEW order \in Bijection(1 .. Cardinality(Live(popped)), Live(popped)),
         exec' = exec \o Deliveries(order, epoch)
  PROVE  /\ Live(popped) = popped
         /\ Cardinality(popped) \in Nat
         /\ exec' \in Seq(Entry)
         /\ Len(exec') = Len(exec) + Cardinality(popped)
         /\ \A i \in 1 .. Len(exec) : exec'[i] = exec[i]
         /\ \A i \in Len(exec) + 1 .. Len(exec') :
              exec'[i].task \in popped /\ exec'[i].retry = 0 /\ exec'[i].epoch = epoch
         /\ \A t \in popped : \E i \in Len(exec) + 1 .. Len(exec') : exec'[i].task = t
         /\ \A i, j \in Len(exec) + 1 .. Len(exec') :
              exec'[i].task = exec'[j].task => i = j
<1> DEFINE n == Cardinality(popped)
           D == Deliveries(order, epoch)
<1>1. Live(popped) = popped /\ popped \in SUBSET Tasks
  BY DEF Live, BrokerInv, BrokerTypeOK, PendingFresh, Absent
<1>2. n \in Nat
  BY <1>1, TaskSets
<1>3. /\ order \in [1 .. n -> popped]
      /\ \A t \in popped : \E k \in 1 .. n : order[k] = t
      /\ \A j, k \in 1 .. n : order[j] = order[k] => j = k
  BY <1>1 DEF Bijection, Injection, Surjection, IsInjective
<1>4. \A k \in 1 .. n : payloads[order[k]] = 0 /\ order[k] \in Tasks
  BY <1>1, <1>3 DEF BrokerInv, PendingFresh
<1>5. /\ D = [k \in 1 .. n |-> [task |-> order[k], retry |-> payloads[order[k]], epoch |-> epoch]]
  BY <1>3 DEF Deliveries
<1>6. \A k \in 1 .. n : D[k] \in Entry /\ D[k].task = order[k] /\ D[k].retry = 0
                           /\ D[k].epoch = epoch
  BY <1>4, <1>5 DEF Entry
<1>7. D \in Seq(Entry) /\ Len(D) = n
  <2>1. D \in [1 .. n -> Entry]
    BY <1>5, <1>6
  <2> HIDE DEF D
  <2> QED
    BY <1>2, <2>1
<1> HIDE DEF D
<1>8. exec \in Seq(Entry) /\ Len(exec) \in Nat
  BY DEF BrokerInv, BrokerTypeOK
<1>9. /\ exec' \in Seq(Entry)
      /\ Len(exec') = Len(exec) + n
      /\ \A i \in 1 .. Len(exec) + n :
           exec'[i] = IF i <= Len(exec) THEN exec[i] ELSE D[i - Len(exec)]
  <2>1. exec' = exec \o D
    BY DEF D
  <2>2. /\ exec \o D \in Seq(Entry)
        /\ Len(exec \o D) = Len(exec) + Len(D)
        /\ \A i \in 1 .. Len(exec) + Len(D) :
             (exec \o D)[i] = IF i <= Len(exec) THEN exec[i] ELSE D[i - Len(exec)]
    BY <1>7, <1>8, ConcatProperties, Zenon
  <2> QED
    BY <1>7, <2>1, <2>2
<1>10. \A i \in 1 .. Len(exec) : exec'[i] = exec[i]
  BY <1>2, <1>8, <1>9
<1>11. \A i \in Len(exec) + 1 .. Len(exec) + n :
         i - Len(exec) \in 1 .. n /\ exec'[i] = D[i - Len(exec)]
  <2> SUFFICES ASSUME NEW i \in Len(exec) + 1 .. Len(exec) + n
               PROVE  i - Len(exec) \in 1 .. n /\ exec'[i] = D[i - Len(exec)]
    OBVIOUS
  <2>1. i \in 1 .. Len(exec) + n /\ ~(i <= Len(exec)) /\ i - Len(exec) \in 1 .. n
    BY <1>2, <1>8
  <2> QED
    BY <1>9, <2>1
<1>12. \A i \in Len(exec) + 1 .. Len(exec) + n :
         /\ exec'[i].task = order[i - Len(exec)]
         /\ exec'[i].task \in popped /\ exec'[i].retry = 0 /\ exec'[i].epoch = epoch
  <2> SUFFICES ASSUME NEW i \in Len(exec) + 1 .. Len(exec) + n
               PROVE  /\ exec'[i].task = order[i - Len(exec)]
                      /\ exec'[i].task \in popped /\ exec'[i].retry = 0
                      /\ exec'[i].epoch = epoch
    OBVIOUS
  <2> DEFINE k == i - Len(exec)
  <2>1. k \in 1 .. n /\ exec'[i] = D[k]
    BY <1>11
  <2> HIDE DEF k
  <2>2. D[k].task = order[k] /\ D[k].retry = 0 /\ D[k].epoch = epoch /\ order[k] \in popped
    BY <1>3, <1>6, <2>1
  <2> QED
    BY <2>1, <2>2 DEF k
<1>13. \A t \in popped : \E i \in Len(exec) + 1 .. Len(exec) + n : exec'[i].task = t
  <2> SUFFICES ASSUME NEW t \in popped
               PROVE  \E i \in Len(exec) + 1 .. Len(exec) + n : exec'[i].task = t
    OBVIOUS
  <2>1. PICK k \in 1 .. n : order[k] = t
    BY <1>3
  <2>2. Len(exec) + k \in Len(exec) + 1 .. Len(exec) + n /\ (Len(exec) + k) - Len(exec) = k
    BY <1>2, <1>8
  <2> QED
    BY <1>12, <2>1, <2>2
<1>14. \A i, j \in Len(exec) + 1 .. Len(exec) + n : exec'[i].task = exec'[j].task => i = j
  <2> SUFFICES ASSUME NEW i \in Len(exec) + 1 .. Len(exec) + n,
                      NEW j \in Len(exec) + 1 .. Len(exec) + n,
                      exec'[i].task = exec'[j].task
               PROVE  i = j
    OBVIOUS
  <2>0. order[i - Len(exec)] = order[j - Len(exec)]
    BY <1>12
  <2>1. i - Len(exec) = j - Len(exec)
    BY <1>3, <1>11, <2>0
  <2> QED
    BY <2>1, <1>8
<1> QED
  BY <1>1, <1>2, <1>9, <1>10, <1>12, <1>13, <1>14

\* The effect of a dispatch pass that pops the set popped.
DispatchPass(popped) ==
  /\ exec' \in Seq(Entry)
  /\ Len(exec') = Len(exec) + Cardinality(popped)
  /\ \A i \in 1 .. Len(exec) : exec'[i] = exec[i]
  /\ \A i \in Len(exec) + 1 .. Len(exec') :
       exec'[i].task \in popped /\ exec'[i].retry = 0
  /\ \A t \in popped : \E i \in Len(exec) + 1 .. Len(exec') : exec'[i].task = t
  /\ \A i, j \in Len(exec) + 1 .. Len(exec') :
       exec'[i].task = exec'[j].task => i = j

LEMMA DispatchPassInv ==
  ASSUME BrokerInv, NEW popped \in PopSets, Live(popped) = popped,
         fence' \in Nat, DispatchPass(popped),
         pending' = pending \ popped,
         inflight' = inflight + Cardinality(popped),
         stats' \in Stats,
         stats'.dispatched = stats.dispatched + Cardinality(popped),
         stats'.admitted = stats.admitted, stats'.completed = stats.completed,
         stats'.retried = stats.retried, stats'.deadLettered = stats.deadLettered,
         UNCHANGED <<payloads, done, execRead, execPel, results, dead>>
  PROVE  BrokerInv'
<1>1. popped \in SUBSET pending
  BY DEF PopSets
<1>2. /\ Cardinality(popped) \in Nat
      /\ exec' \in Seq(Entry)
      /\ Len(exec') = Len(exec) + Cardinality(popped)
      /\ \A i \in 1 .. Len(exec) : exec'[i] = exec[i]
      /\ \A i \in Len(exec) + 1 .. Len(exec') :
           exec'[i].task \in popped /\ exec'[i].retry = 0
      /\ \A t \in popped : \E i \in Len(exec) + 1 .. Len(exec') : exec'[i].task = t
      /\ \A i, j \in Len(exec) + 1 .. Len(exec') :
           exec'[i].task = exec'[j].task => i = j
  <2>1. popped \in SUBSET Tasks
    BY <1>1 DEF BrokerInv, BrokerTypeOK
  <2> QED
    BY <2>1, TaskSets DEF DispatchPass
<1>3. /\ Len(exec) \in Nat /\ Len(exec') \in Nat /\ Len(exec) <= Len(exec')
      /\ execRead \in 0 .. Len(exec) /\ pending \in SUBSET Tasks /\ execPel \subseteq 1 .. execRead
  BY <1>2 DEF BrokerInv, BrokerTypeOK
<1>4. \A i \in DeliveryIds' :
        \/ i \in DeliveryIds /\ exec'[i] = exec[i]
        \/ i \in Len(exec) + 1 .. Len(exec') /\ i \notin DeliveryIds
  BY <1>2, <1>3 DEF DeliveryIds
<1>5. BrokerTypeOK'
  <2>1. exec' \in Seq(Entry) /\ execRead' \in 0 .. Len(exec') /\ (execPel \subseteq 1 .. execRead)'
    BY <1>2, <1>3
  <2>2. inflight' \in Nat /\ pending' \subseteq Tasks
    <3>1. inflight \in Nat /\ inflight' = inflight + Cardinality(popped)
      BY <1>2, StatsType
    <3> QED
      BY <1>2, <1>3, <3>1
  <2> QED
    BY <2>1, <2>2 DEF BrokerInv, BrokerTypeOK
<1>6. PendingFresh' /\ OneTerminalRecord'
  BY DEF BrokerInv, PendingFresh, OneTerminalRecord
<1>7. DeliveredKnown'
  <2>1. \A t \in popped : KnownTask(t)
    BY <1>1 DEF BrokerInv, PendingFresh, KnownTask, Absent
  <2>2. \A i \in DeliveryIds' : KnownTask(exec'[i].task)
    BY <1>2, <1>4, <2>1 DEF BrokerInv, DeliveredKnown
  <2> QED
    BY <2>2 DEF DeliveredKnown, KnownTask
<1>8. DispatchedOnce'
  <2>1. \A i \in DeliveryIds' : exec'[i].task \notin pending'
    BY <1>2, <1>4 DEF BrokerInv, DispatchedOnce
  <2>2. ASSUME NEW i \in DeliveryIds', NEW j \in DeliveryIds',
               exec'[i].task = exec'[j].task, exec'[i].retry = 0, exec'[j].retry = 0
        PROVE  i = j
    <3>1. CASE i \in DeliveryIds /\ j \in DeliveryIds
      BY <1>4, <2>2, <3>1 DEF BrokerInv, DispatchedOnce
    <3>2. CASE i \notin DeliveryIds /\ j \notin DeliveryIds
      BY <1>2, <1>4, <2>2, <3>2
    <3>3. CASE i \in DeliveryIds /\ j \notin DeliveryIds
      <4>1. exec[i].task \notin pending /\ exec'[i] = exec[i]
        BY <1>4, <3>3 DEF BrokerInv, DispatchedOnce
      <4>2. exec'[j].task \in popped
        BY <1>2, <1>4, <3>3
      <4> QED
        BY <1>1, <2>2, <4>1, <4>2
    <3>4. CASE i \notin DeliveryIds /\ j \in DeliveryIds
      <4>1. exec[j].task \notin pending /\ exec'[j] = exec[j]
        BY <1>4, <3>4 DEF BrokerInv, DispatchedOnce
      <4>2. exec'[i].task \in popped
        BY <1>2, <1>4, <3>4
      <4> QED
        BY <1>1, <2>2, <4>1, <4>2
    <3> QED
      BY <3>1, <3>2, <3>3, <3>4
  <2> QED
    BY <2>1, <2>2 DEF DispatchedOnce
<1>9. NoTaskLost'
  <2> SUFFICES ASSUME NEW t \in Tasks, payloads[t] # Absent, t \notin pending'
               PROVE  \E id \in Outstanding' : exec'[id].task = t
    BY DEF NoTaskLost
  <2>1. CASE t \in popped
    <3>1. PICK i \in Len(exec) + 1 .. Len(exec') : exec'[i].task = t
      BY <1>2, <2>1
    <3>2. i \in Outstanding'
      BY <1>3, <3>1 DEF Outstanding
    <3> QED
      BY <3>1, <3>2
  <2>2. CASE t \notin popped
    <3>1. PICK id \in Outstanding : exec[id].task = t
      BY <2>2 DEF BrokerInv, NoTaskLost
    <3>2. id \in 1 .. Len(exec) /\ id \in Outstanding'
      BY <1>3, <3>1 DEF Outstanding
    <3> QED
      BY <1>2, <3>1, <3>2
  <2> QED
    BY <2>1, <2>2
<1>10. AckedIsSettled'
  <2> SUFFICES ASSUME NEW i \in (DeliveryIds \ Outstanding)', exec'[i].task \notin done
               PROVE  \E j \in DeliveryIds' :
                        j > i /\ exec'[j].task = exec'[i].task
                              /\ exec'[j].retry = exec'[i].retry + 1
    BY DEF AckedIsSettled
  <2>1. i \in DeliveryIds \ Outstanding /\ exec'[i] = exec[i]
    BY <1>2, <1>3 DEF DeliveryIds, Outstanding
  <2>2. PICK j \in DeliveryIds : j > i /\ exec[j].task = exec[i].task
                                       /\ exec[j].retry = exec[i].retry + 1
    BY <2>1 DEF BrokerInv, AckedIsSettled
  <2>3. j \in DeliveryIds' /\ exec'[j] = exec[j]
    BY <1>2, <1>3, <2>2 DEF DeliveryIds
  <2> QED
    BY <2>1, <2>2, <2>3
<1>11. RetriesWithinBudget'
  <2> SUFFICES ASSUME NEW i \in DeliveryIds' PROVE exec'[i].retry <= Budget(exec'[i].task)
    BY DEF RetriesWithinBudget
  <2>1. CASE i \in DeliveryIds
    BY <1>4, <2>1 DEF BrokerInv, RetriesWithinBudget
  <2>2. CASE i \notin DeliveryIds
    <3>1. exec'[i].task \in Tasks /\ exec'[i].retry = 0
      BY <1>1, <1>2, <1>3, <1>4, <2>2
    <3> QED
      <4>1. Budget(exec'[i].task) \in Nat
        BY <3>1, BudgetType, Zenon
      <4> QED
        BY <3>1, <4>1
  <2> QED
    BY <2>1, <2>2
<1>12. InFlightExact'
  <2>1. InFlightTasks' = InFlightTasks \cup popped /\ InFlightTasks \cap popped = {}
    BY <1>1, <1>3 DEF InFlightTasks, BrokerInv, PendingFresh, Absent
  <2>2. IsFiniteSet(InFlightTasks) /\ IsFiniteSet(popped)
    BY <1>1, <1>3, TaskSets DEF InFlightTasks
  <2>3. Cardinality(InFlightTasks') = Cardinality(InFlightTasks) + Cardinality(popped)
    <3>1. /\ Cardinality(InFlightTasks \cup popped)
               = Cardinality(InFlightTasks) + Cardinality(popped)
                 - Cardinality(InFlightTasks \cap popped)
          /\ Cardinality(InFlightTasks \cap popped) = 0
      BY <2>1, <2>2, FS_Union, FS_EmptySet
    <3>2. Cardinality(InFlightTasks) \in Nat /\ Cardinality(popped) \in Nat
      BY <2>2, FS_CardinalityType
    <3> QED
      BY <2>1, <3>1, <3>2
  <2> QED
    BY <1>2, <2>3 DEF BrokerInv, InFlightExact
<1>13. InFlightCapped'
  <2>1. CASE popped = {}
    BY <1>2, <2>1, FS_EmptySet, StatsType DEF BrokerInv, InFlightCapped
  <2>2. CASE popped # {}
    BY <1>2, <2>2 DEF PopSets, UnderCap, InFlightCapped
  <2> QED
    BY <2>1, <2>2
<1>14. CountersBalance'
  <2>1. Cardinality(pending') = Cardinality(pending) - Cardinality(popped)
    <3>1. IsFiniteSet(pending) /\ pending \cap popped = popped
      BY <1>1, <1>3, TaskSets
    <3>2. Cardinality(pending \ popped) = Cardinality(pending) - Cardinality(pending \cap popped)
      BY <3>1, FS_Difference, Zenon
    <3> QED
      BY <3>1, <3>2
  <2>2. Cardinality(pending) \in Nat
    BY <1>3, TaskSets
  <2>3. CountersBalance /\ inflight' = inflight + Cardinality(popped)
    BY <1>2 DEF BrokerInv
  <2>4. /\ inflight \in Int /\ stats.admitted \in Nat /\ stats.dispatched \in Nat
        /\ stats.completed \in Nat /\ stats.retried \in Nat /\ stats.deadLettered \in Nat
    BY StatsType
  <2> QED
    <3>1. stats'.dispatched + stats'.retried = Len(exec')
      <4>1. Len(exec') = Len(exec) + Cardinality(popped) /\ Cardinality(popped) \in Nat
        BY <1>2
      <4> QED
        BY <4>1, <1>3, <2>3, <2>4 DEF CountersBalance
    <3>2. stats'.admitted = Cardinality(pending') + inflight' + stats'.completed + stats'.deadLettered
      <4>1. Cardinality(popped) \in Nat
        BY <1>2
      <4> QED
        BY <4>1, <2>1, <2>2, <2>3, <2>4 DEF CountersBalance
    <3> QED
      BY <3>1, <3>2 DEF CountersBalance
<1> QED
  BY <1>5, <1>6, <1>7, <1>8, <1>9, <1>10, <1>11, <1>12, <1>13, <1>14 DEF BrokerInv

\* A dispatch pass, whichever tasks it pops and in whichever order, preserves
\* the invariant.
THEOREM DispatchScriptInv ==
  ASSUME BrokerInv, NEW epoch \in Nat, DispatchScript(epoch)
  PROVE  BrokerInv'
<1>0. RaiseFence(epoch) => fence' \in Nat
  BY DEF RaiseFence, BrokerInv, BrokerTypeOK
<1>1. CASE Refused(epoch)
  BY <1>1, RefusedInv
<1>2. CASE ~Refused(epoch)
  <2>1. PICK popped \in PopSets :
          /\ \E order \in Bijection(1 .. Cardinality(Live(popped)), Live(popped)) :
               exec' = exec \o Deliveries(order, epoch)
          /\ pending' = pending \ popped
          /\ inflight' = inflight + Cardinality(Live(popped))
          /\ stats' = [stats EXCEPT !.dispatched = @ + Cardinality(Live(popped))]
    BY <1>2 DEF DispatchScript
  <2>2. PICK order \in Bijection(1 .. Cardinality(Live(popped)), Live(popped)) :
          exec' = exec \o Deliveries(order, epoch)
    BY <2>1
  <2>3. fence' \in Nat /\ UNCHANGED <<payloads, done, execRead, execPel, results, dead>>
    BY <1>0, <1>2 DEF DispatchScript
  <2>4. Live(popped) = popped /\ Cardinality(popped) \in Nat /\ DispatchPass(popped)
    <3>1. popped \in SUBSET pending
      BY DEF PopSets
    <3>2. /\ Live(popped) = popped
          /\ Cardinality(popped) \in Nat
          /\ exec' \in Seq(Entry)
          /\ Len(exec') = Len(exec) + Cardinality(popped)
          /\ \A i \in 1 .. Len(exec) : exec'[i] = exec[i]
          /\ \A i \in Len(exec) + 1 .. Len(exec') :
               exec'[i].task \in popped /\ exec'[i].retry = 0 /\ exec'[i].epoch = epoch
          /\ \A t \in popped : \E i \in Len(exec) + 1 .. Len(exec') : exec'[i].task = t
          /\ \A i, j \in Len(exec) + 1 .. Len(exec') :
               exec'[i].task = exec'[j].task => i = j
      BY <2>2, <3>1, DispatchAppends, Zenon
    <3> QED
      BY <3>2 DEF DispatchPass
  <2>5. /\ stats' \in Stats
        /\ stats'.dispatched = stats.dispatched + Cardinality(popped)
        /\ stats'.admitted = stats.admitted /\ stats'.completed = stats.completed
        /\ stats'.retried = stats.retried /\ stats'.deadLettered = stats.deadLettered
    <3>1. stats \in Stats /\ stats' = [stats EXCEPT !.dispatched = @ + Cardinality(popped)]
      BY <2>1, <2>4, StatsType
    <3> QED
      BY <2>4, <3>1, DispatchedStats, Zenon
  <2>6. inflight' = inflight + Cardinality(popped) /\ pending' = pending \ popped
    BY <2>1, <2>4
  <2> QED
    BY <2>3, <2>4, <2>5, <2>6, DispatchPassInv
<1> QED
  BY <1>1, <1>2

\* A dispatch pass appends first attempts under its own epoch, and nothing else.
LEMMA DispatchScriptAppends ==
  ASSUME BrokerInv, NEW epoch \in Nat, ~Fenced(epoch), DispatchScript(epoch)
  PROVE  /\ exec' \in Seq(Entry)
         /\ Len(exec') >= Len(exec)
         /\ \A i \in 1 .. Len(exec) : exec'[i] = exec[i]
         /\ \A i \in Len(exec) + 1 .. Len(exec') : exec'[i].retry = 0 /\ exec'[i].epoch = epoch
<1>1. PICK popped \in PopSets :
        \E order \in Bijection(1 .. Cardinality(Live(popped)), Live(popped)) :
          exec' = exec \o Deliveries(order, epoch)
  BY DEF DispatchScript, Refused
<1>2. PICK order \in Bijection(1 .. Cardinality(Live(popped)), Live(popped)) :
        exec' = exec \o Deliveries(order, epoch)
  BY <1>1
<1>3. popped \in SUBSET pending
  BY DEF PopSets
<1>4. /\ Cardinality(popped) \in Nat
      /\ exec' \in Seq(Entry)
      /\ Len(exec') = Len(exec) + Cardinality(popped)
      /\ \A i \in 1 .. Len(exec) : exec'[i] = exec[i]
      /\ \A i \in Len(exec) + 1 .. Len(exec') :
           exec'[i].task \in popped /\ exec'[i].retry = 0 /\ exec'[i].epoch = epoch
  BY <1>2, <1>3, DispatchAppends, Zenon
<1>5. Len(exec) \in Nat
  BY DEF BrokerInv, BrokerTypeOK
<1> QED
  BY <1>4, <1>5

-----------------------------------------------------------------------------
\* Handing out the next delivery preserves the invariant, whoever receives it.
THEOREM DeliverNextInv ==
  ASSUME BrokerInv, DeliverNext, UNCHANGED <<taskVars, exec, recordVars, fence>>
  PROVE  BrokerInv'
<1> USE DEF taskVars, recordVars, DeliverNext
<1>1. /\ Len(exec) \in Nat /\ execRead \in 0 .. Len(exec) /\ execPel \subseteq 1 .. execRead
      /\ exec \in Seq(Entry)
  BY DEF BrokerInv, BrokerTypeOK
<1>2. Outstanding' = Outstanding
  BY <1>1 DEF Outstanding
<1>3. BrokerTypeOK'
  <2>1. execRead' \in 0 .. Len(exec') /\ (execPel \subseteq 1 .. execRead)'
    BY <1>1
  <2> QED
    BY <2>1 DEF BrokerInv, BrokerTypeOK
<1>4. (PendingFresh /\ OneTerminalRecord /\ DeliveredKnown /\ DispatchedOnce)'
  BY DEF BrokerInv, PendingFresh, OneTerminalRecord, DeliveredKnown, DispatchedOnce,
         DeliveryIds, KnownTask
<1>5. (NoTaskLost /\ AckedIsSettled /\ RetriesWithinBudget)'
  BY <1>2 DEF BrokerInv, NoTaskLost, AckedIsSettled, RetriesWithinBudget, DeliveryIds
<1>6. (InFlightExact /\ InFlightCapped /\ CountersBalance)'
  BY DEF BrokerInv, InFlightExact, InFlightTasks, InFlightCapped, CountersBalance
<1> QED
  BY <1>3, <1>4, <1>5, <1>6 DEF BrokerInv

-----------------------------------------------------------------------------
(***************************************************************************)
(* A task of a delivery that is not terminal is in flight: this is what     *)
(* makes the DECR of the two scripts exact.                                 *)
(***************************************************************************)
LEMMA DeliveredInFlight ==
  ASSUME BrokerInv, NEW id \in DeliveryIds
  PROVE  /\ exec[id] \in Entry /\ exec[id].task \in Tasks /\ exec[id].retry \in Nat
         /\ exec[id].task \notin pending
         /\ exec[id].task \notin done => exec[id].task \in InFlightTasks
<1>1. exec \in Seq(Entry)
  BY DEF BrokerInv, BrokerTypeOK
<1>2. exec[id] \in Entry
  BY <1>1 DEF DeliveryIds
<1>3. exec[id].task \in Tasks /\ exec[id].retry \in Nat
  BY <1>2 DEF Entry
<1>4. exec[id].task \notin pending /\ KnownTask(exec[id].task)
  BY DEF BrokerInv, DispatchedOnce, DeliveredKnown
<1> QED
  BY <1>2, <1>3, <1>4 DEF KnownTask, InFlightTasks

\* One task becoming terminal takes exactly one task out of flight.
LEMMA LeaveInFlightExact ==
  ASSUME BrokerInv, NEW t \in InFlightTasks, LeaveInFlight,
         payloads' = [payloads EXCEPT ![t] = Absent], pending' = pending
  PROVE  InFlightExact' /\ InFlightCapped' /\ inflight' = inflight - 1 /\ inflight' \in Nat
<1>1. InFlightTasks' = InFlightTasks \ {t}
  BY DEF InFlightTasks, BrokerInv, BrokerTypeOK
<1>2. IsFiniteSet(InFlightTasks)
  BY TaskSets DEF InFlightTasks
<1>3. /\ Cardinality(InFlightTasks') = Cardinality(InFlightTasks) - 1
      /\ Cardinality(InFlightTasks') \in Nat
  BY <1>1, <1>2, FS_RemoveElement, FS_CardinalityType
<1>4. inflight \in Int /\ inflight' = inflight - 1
  BY StatsType DEF LeaveInFlight
<1> QED
  BY <1>3, <1>4 DEF BrokerInv, InFlightExact, InFlightCapped

(***************************************************************************)
(* What acknowledging id and changing the records of its task, without a    *)
(* new delivery, does to the parts of the invariant about the stream.       *)
(***************************************************************************)
LEMMA SettledByRecord ==
  ASSUME BrokerInv, NEW id \in DeliveryIds, Ack(id),
         UNCHANGED <<pending, exec, execRead>>, payloads' \in [Tasks -> Nat \cup {Absent}],
         exec[id].task \in done', done \subseteq done',
         \A t \in Tasks : t # exec[id].task => payloads'[t] = payloads[t],
         payloads'[exec[id].task] = Absent
  PROVE  /\ execPel' \subseteq 1 .. execRead'
         /\ PendingFresh' /\ DeliveredKnown' /\ DispatchedOnce'
         /\ NoTaskLost' /\ AckedIsSettled' /\ RetriesWithinBudget'
<1> DEFINE t == exec[id].task
<1>1. t \in Tasks /\ t \notin pending
  BY DeliveredInFlight
<1>2. /\ Len(exec) \in Nat /\ execRead \in 0 .. Len(exec) /\ execPel \subseteq 1 .. execRead
      /\ exec \in Seq(Entry) /\ pending \subseteq Tasks
  BY DEF BrokerInv, BrokerTypeOK
<1>3. execPel' \subseteq 1 .. execRead'
  BY <1>2 DEF Ack
<1>4. PendingFresh'
  BY <1>1, <1>2 DEF BrokerInv, PendingFresh
<1>5. DeliveredKnown' /\ DispatchedOnce' /\ RetriesWithinBudget'
  <2>1. \A i \in DeliveryIds : exec[i].task \in Tasks /\ KnownTask(exec[i].task)
    BY DeliveredInFlight DEF BrokerInv, DeliveredKnown
  <2> QED
    BY <2>1 DEF BrokerInv, DeliveredKnown, DispatchedOnce, RetriesWithinBudget, DeliveryIds,
                KnownTask
<1>6. Outstanding \ {id} \subseteq Outstanding'
  BY DEF Outstanding, Ack
<1>7. NoTaskLost'
  BY <1>6 DEF BrokerInv, NoTaskLost
<1>8. AckedIsSettled'
  BY <1>6 DEF BrokerInv, AckedIsSettled, DeliveryIds
<1> QED
  BY <1>3, <1>4, <1>5, <1>7, <1>8

\* The case that a delivery of a terminal task is settled: only the counters of
\* duplicates may move.
LEMMA SettledAgain ==
  ASSUME BrokerInv, NEW id \in DeliveryIds, Ack(id), exec[id].task \in done,
         UNCHANGED <<pending, exec, execRead, done, payloads, results, dead, inflight, fence>>,
         stats' \in Stats,
         stats'.dispatched = stats.dispatched, stats'.admitted = stats.admitted,
         stats'.completed = stats.completed, stats'.retried = stats.retried,
         stats'.deadLettered = stats.deadLettered
  PROVE  BrokerInv'
<1>1. /\ payloads[exec[id].task] = Absent /\ exec[id].task \in Tasks
      /\ payloads \in [Tasks -> Nat \cup {Absent}]
  BY DeliveredInFlight DEF BrokerInv, OneTerminalRecord, BrokerTypeOK
<1>2. /\ execPel' \subseteq 1 .. execRead'
      /\ PendingFresh' /\ DeliveredKnown' /\ DispatchedOnce'
      /\ NoTaskLost' /\ AckedIsSettled' /\ RetriesWithinBudget'
  BY <1>1, SettledByRecord
<1>3. BrokerTypeOK'
  BY <1>2 DEF BrokerInv, BrokerTypeOK
<1>4. OneTerminalRecord' /\ InFlightExact' /\ InFlightCapped' /\ CountersBalance'
  BY DEF BrokerInv, OneTerminalRecord, InFlightExact, InFlightTasks, InFlightCapped,
         CountersBalance
<1> QED
  BY <1>2, <1>3, <1>4 DEF BrokerInv

LEMMA TerminalCounters ==
  ASSUME BrokerInv, UNCHANGED <<pending, exec>>, inflight' = inflight - 1,
         stats' \in Stats,
         stats'.admitted = stats.admitted, stats'.dispatched = stats.dispatched,
         stats'.retried = stats.retried,
         stats'.completed + stats'.deadLettered = stats.completed + stats.deadLettered + 1
  PROVE  CountersBalance'
<1>1. CountersBalance /\ Cardinality(pending) \in Nat
  BY TaskSets DEF BrokerInv, BrokerTypeOK
<1>2. /\ inflight \in Int /\ stats.admitted \in Nat
      /\ stats.completed \in Nat /\ stats.deadLettered \in Nat
  BY StatsType
<1>3. stats'.completed \in Nat /\ stats'.deadLettered \in Nat
  BY DEF Stats
<1>4. stats'.admitted = Cardinality(pending') + inflight' + stats'.completed + stats'.deadLettered
  <2>1. stats.admitted = Cardinality(pending) + inflight + stats.completed + stats.deadLettered
    BY <1>1 DEF CountersBalance
  <2>2. Cardinality(pending') = Cardinality(pending)
    OBVIOUS
  <2> QED
    BY <1>1, <1>2, <1>3, <2>1, <2>2
<1>5. stats'.dispatched + stats'.retried = Len(exec')
  BY <1>1 DEF CountersBalance
<1> QED
  BY <1>4, <1>5 DEF CountersBalance

\* The case that a task becomes terminal, by a result or by a dead letter.
LEMMA BecomesTerminal ==
  ASSUME BrokerInv, NEW id \in DeliveryIds, Ack(id), exec[id].task \notin done,
         UNCHANGED <<pending, exec, execRead, fence>>,
         done' = done \cup {exec[id].task},
         payloads' = [payloads EXCEPT ![exec[id].task] = Absent],
         LeaveInFlight,
         \/ /\ results' = [results EXCEPT ![exec[id].task] = @ + 1]
            /\ stats' = [stats EXCEPT !.completed = @ + 1]
            /\ UNCHANGED dead
         \/ /\ dead' = [dead EXCEPT ![exec[id].task] = @ + 1]
            /\ stats' = [stats EXCEPT !.deadLettered = @ + 1]
            /\ UNCHANGED results
  PROVE  BrokerInv'
<1> DEFINE t == exec[id].task
<1>1. t \in Tasks /\ t \in InFlightTasks /\ t \notin pending
  BY DeliveredInFlight
<1>2. /\ payloads \in [Tasks -> Nat \cup {Absent}] /\ pending \subseteq Tasks
      /\ results \in [Tasks -> Nat] /\ dead \in [Tasks -> Nat] /\ stats \in Stats
  BY DEF BrokerInv, BrokerTypeOK
<1>3. /\ payloads' \in [Tasks -> Nat \cup {Absent}] /\ payloads'[t] = Absent
      /\ \A u \in Tasks : u # t => payloads'[u] = payloads[u]
  BY <1>1, <1>2
<1>4. /\ execPel' \subseteq 1 .. execRead'
      /\ PendingFresh' /\ DeliveredKnown' /\ DispatchedOnce'
      /\ NoTaskLost' /\ AckedIsSettled' /\ RetriesWithinBudget'
  BY <1>3, SettledByRecord
<1>5. InFlightExact' /\ InFlightCapped' /\ inflight' = inflight - 1 /\ inflight' \in Nat
  BY <1>1, LeaveInFlightExact
<1>6. /\ stats' \in Stats
      /\ stats'.admitted = stats.admitted /\ stats'.dispatched = stats.dispatched
      /\ stats'.retried = stats.retried
      /\ stats'.completed + stats'.deadLettered = stats.completed + stats.deadLettered + 1
  BY <1>2 DEF Stats
<1>7. /\ results' \in [Tasks -> Nat] /\ dead' \in [Tasks -> Nat]
      /\ results'[t] + dead'[t] = results[t] + dead[t] + 1
      /\ \A u \in Tasks : u # t => results'[u] = results[u] /\ dead'[u] = dead[u]
  BY <1>1, <1>2
<1>8. BrokerTypeOK'
  BY <1>1, <1>3, <1>4, <1>5, <1>6, <1>7 DEF BrokerInv, BrokerTypeOK
<1>9. OneTerminalRecord'
  <2>1. results[t] + dead[t] = 0
    BY <1>1 DEF BrokerInv, OneTerminalRecord
  <2>2. results'[t] + dead'[t] = 1
    BY <1>7, <2>1
  <2> QED
    BY <1>1, <1>3, <1>7, <2>2 DEF BrokerInv, OneTerminalRecord
<1>10. CountersBalance'
  BY <1>5, <1>6, TerminalCounters
<1> QED
  BY <1>4, <1>5, <1>8, <1>9, <1>10 DEF BrokerInv

\* Completing any delivery ever handed out, acknowledged or not, preserves the
\* invariant.
THEOREM CompleteScriptInv ==
  ASSUME BrokerInv, NEW id \in DeliveryIds, CompleteScript(id)
  PROVE  BrokerInv'
<1>1. CASE Terminal(exec[id].task)
  <2>1. stats' = [stats EXCEPT !.duplicates = @ + 1]
    BY <1>1 DEF CompleteScript, Terminal
  <2>2. /\ stats' \in Stats
        /\ stats'.dispatched = stats.dispatched /\ stats'.admitted = stats.admitted
        /\ stats'.completed = stats.completed /\ stats'.retried = stats.retried
        /\ stats'.deadLettered = stats.deadLettered
    <3>1. stats \in Stats
      BY StatsType
    <3> QED
      BY <2>1, <3>1 DEF Stats
  <2> QED
    BY <1>1, <2>2, SettledAgain DEF CompleteScript, Terminal
<1>2. CASE ~Terminal(exec[id].task)
  BY <1>2, BecomesTerminal DEF CompleteScript, Terminal
<1> QED
  BY <1>1, <1>2

-----------------------------------------------------------------------------
\* The effect on the invariant of publishing a next attempt e of the task of id.
LEMMA RetryEffectInv ==
  ASSUME BrokerInv, NEW id \in DeliveryIds, Ack(id), NEW e \in Entry,
         exec[id].task \notin done, e.task = exec[id].task,
         e.retry = exec[id].retry + 1, e.retry <= Budget(e.task),
         exec' \in Seq(Entry), Len(exec') = Len(exec) + 1, exec'[Len(exec) + 1] = e,
         \A i \in 1 .. Len(exec) : exec'[i] = exec[i],
         payloads' \in [Tasks -> Nat \cup {Absent}], payloads'[e.task] # Absent,
         \A u \in Tasks : u # e.task => payloads'[u] = payloads[u],
         stats' \in Stats, stats'.retried = stats.retried + 1,
         stats'.admitted = stats.admitted, stats'.dispatched = stats.dispatched,
         stats'.completed = stats.completed, stats'.deadLettered = stats.deadLettered,
         UNCHANGED <<done, dead, inflight, pending, execRead, results, fence>>
  PROVE  BrokerInv'
<1> DEFINE n == Len(exec)
<1>1. e.task \in Tasks /\ e.task \in InFlightTasks /\ e.task \notin pending
      /\ exec[id].retry \in Nat /\ e.retry # 0
  BY DeliveredInFlight
<1>2. /\ payloads \in [Tasks -> Nat \cup {Absent}] /\ pending \subseteq Tasks
      /\ exec \in Seq(Entry) /\ n \in Nat
      /\ execRead \in 0 .. n /\ execPel \subseteq 1 .. execRead
  BY DEF BrokerInv, BrokerTypeOK
<1>3. id \in 1 .. n /\ DeliveryIds = 1 .. n /\ DeliveryIds' = 1 .. n + 1
  BY DEF DeliveryIds
<1>4. \A i \in DeliveryIds' :
        (i \in DeliveryIds /\ exec'[i] = exec[i]) \/ (i = n + 1 /\ exec'[i] = e)
  <2> SUFFICES ASSUME NEW i \in DeliveryIds'
               PROVE  (i \in DeliveryIds /\ exec'[i] = exec[i]) \/ (i = n + 1 /\ exec'[i] = e)
    OBVIOUS
  <2>1. i \in 1 .. n \/ i = n + 1
    BY <1>2, <1>3
  <2>2. CASE i \in 1 .. n
    BY <1>3, <2>2
  <2>3. CASE i = n + 1
    BY <2>3
  <2> QED
    BY <2>1, <2>2, <2>3
<1>5. n + 1 \in Outstanding' /\ Outstanding \ {id} \subseteq Outstanding'
  BY <1>2 DEF Outstanding, Ack
<1>6. BrokerTypeOK'
  <2>1. (execPel \subseteq 1 .. execRead)'
    BY <1>2 DEF Ack
  <2>2. execRead' \in 0 .. Len(exec')
    <3>1. execRead' = execRead /\ Len(exec') = n + 1
      OBVIOUS
    <3> HIDE DEF n
    <3> QED
      BY <1>2, <3>1
  <2> QED
    BY <2>1, <2>2 DEF BrokerInv, BrokerTypeOK
<1>7. PendingFresh' /\ OneTerminalRecord'
  BY <1>1, <1>2 DEF BrokerInv, PendingFresh, OneTerminalRecord
<1>8. DeliveredKnown'
  <2>1. \A i \in DeliveryIds : exec[i].task \in Tasks /\ KnownTask(exec[i].task)
    BY DeliveredInFlight DEF BrokerInv, DeliveredKnown
  <2> SUFFICES ASSUME NEW i \in DeliveryIds'
               PROVE  KnownTask(exec[i].task)'
    BY DEF DeliveredKnown
  <2>2. CASE i \in DeliveryIds /\ exec'[i] = exec[i]
    <3>1. exec[i].task \in Tasks /\ KnownTask(exec[i].task)
      BY <2>1, <2>2
    <3>2. CASE exec[i].task = e.task
      BY <2>2, <3>2 DEF KnownTask
    <3>3. CASE exec[i].task # e.task
      BY <2>2, <3>1, <3>3 DEF KnownTask
    <3> QED
      BY <3>2, <3>3
  <2>3. CASE i = n + 1 /\ exec'[i] = e
    BY <2>3 DEF KnownTask
  <2> QED
    BY <1>4, <2>2, <2>3
<1>9. DispatchedOnce'
  <2>1. \A i \in DeliveryIds' : exec'[i].task \notin pending'
    BY <1>1, <1>4 DEF BrokerInv, DispatchedOnce
  <2>2. ASSUME NEW i \in DeliveryIds', NEW j \in DeliveryIds',
               exec'[i].task = exec'[j].task, exec'[i].retry = 0, exec'[j].retry = 0
        PROVE  i = j
    <3>1. (i \in DeliveryIds /\ exec'[i] = exec[i]) /\ (j \in DeliveryIds /\ exec'[j] = exec[j])
      BY <1>1, <1>4, <2>2
    <3> QED
      BY <2>2, <3>1 DEF BrokerInv, DispatchedOnce
  <2> QED
    BY <2>1, <2>2 DEF DispatchedOnce
<1>10. NoTaskLost'
  <2> SUFFICES ASSUME NEW u \in Tasks, payloads'[u] # Absent, u \notin pending
               PROVE  \E i \in Outstanding' : exec'[i].task = u
    BY DEF NoTaskLost
  <2>1. CASE u = e.task
    BY <1>5, <2>1
  <2>2. CASE u # e.task
    <3>1. PICK i \in Outstanding : exec[i].task = u
      BY <2>2 DEF BrokerInv, NoTaskLost
    <3>2. i \in 1 .. n /\ i # id
      BY <1>2, <2>2, <3>1 DEF Outstanding
    <3> QED
      BY <1>5, <3>1, <3>2
  <2> QED
    BY <2>1, <2>2
<1>11. AckedIsSettled'
  <2> SUFFICES ASSUME NEW i \in (DeliveryIds \ Outstanding)', exec'[i].task \notin done
               PROVE  \E j \in DeliveryIds' :
                        j > i /\ exec'[j].task = exec'[i].task
                              /\ exec'[j].retry = exec'[i].retry + 1
    BY DEF AckedIsSettled
  <2>1. i \in DeliveryIds /\ exec'[i] = exec[i] /\ (i = id \/ i \notin Outstanding)
    BY <1>4, <1>5
  <2>2. CASE i = id
    <3>1. n + 1 \in DeliveryIds' /\ n + 1 > id
      BY <1>2, <1>3
    <3> QED
      BY <2>1, <2>2, <3>1
  <2>3. CASE i \notin Outstanding
    <3>1. PICK j \in DeliveryIds : j > i /\ exec[j].task = exec[i].task
                                         /\ exec[j].retry = exec[i].retry + 1
      BY <2>1, <2>3 DEF BrokerInv, AckedIsSettled
    <3>2. j \in DeliveryIds' /\ exec'[j] = exec[j]
      BY <1>2, <1>3, <3>1
    <3> QED
      BY <2>1, <3>1, <3>2
  <2> QED
    BY <2>1, <2>2, <2>3
<1>12. RetriesWithinBudget'
  BY <1>4 DEF BrokerInv, RetriesWithinBudget
<1>13. InFlightExact' /\ InFlightCapped'
  <2>1. InFlightTasks' = InFlightTasks
    BY <1>1, <1>2 DEF InFlightTasks
  <2> QED
    BY <2>1 DEF BrokerInv, InFlightExact, InFlightCapped
<1>14. CountersBalance'
  <2>1. CountersBalance /\ stats.dispatched \in Nat /\ stats.retried \in Nat
    BY StatsType DEF BrokerInv
  <2> QED
    BY <1>2, <2>1 DEF CountersBalance
<1> QED
  BY <1>6, <1>7, <1>8, <1>9, <1>10, <1>11, <1>12, <1>13, <1>14 DEF BrokerInv

LEMMA RetriedStats ==
  ASSUME NEW s \in Stats
  PROVE  /\ [s EXCEPT !.retried = @ + 1] \in Stats
         /\ [s EXCEPT !.retried = @ + 1].retried = s.retried + 1
         /\ [s EXCEPT !.retried = @ + 1].admitted = s.admitted
         /\ [s EXCEPT !.retried = @ + 1].dispatched = s.dispatched
         /\ [s EXCEPT !.retried = @ + 1].completed = s.completed
         /\ [s EXCEPT !.retried = @ + 1].deadLettered = s.deadLettered
BY DEF Stats

\* The case of a retry within the budget: the delivery is acknowledged and the
\* next attempt is published in the same step.
LEMMA RetriedInv ==
  ASSUME BrokerInv, NEW id \in DeliveryIds, Ack(id), exec[id].task \notin done,
         exec[id].retry + 1 <= Budget(exec[id].task),
         payloads' = [payloads EXCEPT ![exec[id].task] = exec[id].retry + 1],
         NEW e \in Entry, exec' = Append(exec, e),
         e.task = exec[id].task, e.retry = exec[id].retry + 1,
         stats' = [stats EXCEPT !.retried = @ + 1],
         UNCHANGED <<done, dead, inflight, pending, execRead, results, fence>>
  PROVE  BrokerInv'
<1> DEFINE t == exec[id].task
           n == Len(exec)
<1>1. t \in Tasks /\ t \in InFlightTasks /\ t \notin pending /\ exec[id].retry \in Nat
  BY DeliveredInFlight
<1>2. /\ payloads \in [Tasks -> Nat \cup {Absent}] /\ pending \subseteq Tasks
      /\ exec \in Seq(Entry) /\ n \in Nat
      /\ execRead \in 0 .. n /\ execPel \subseteq 1 .. execRead
  BY DEF BrokerInv, BrokerTypeOK
<1>3. /\ exec' \in Seq(Entry) /\ Len(exec') = n + 1 /\ exec'[n + 1] = e
      /\ \A i \in 1 .. n : exec'[i] = exec[i]
  BY <1>2, AppendProperties
<1>4. /\ payloads' \in [Tasks -> Nat \cup {Absent}] /\ payloads'[t] # Absent
      /\ \A u \in Tasks : u # t => payloads'[u] = payloads[u]
  BY <1>1, <1>2 DEF Absent
<1>5. /\ stats' \in Stats /\ stats'.retried = stats.retried + 1
      /\ stats'.admitted = stats.admitted /\ stats'.dispatched = stats.dispatched
      /\ stats'.completed = stats.completed /\ stats'.deadLettered = stats.deadLettered
  <2>1. stats \in Stats
    BY StatsType
  <2> QED
    BY <2>1, RetriedStats, Zenon
<1>7. /\ payloads'[e.task] # Absent /\ e.retry <= Budget(e.task)
      /\ \A u \in Tasks : u # e.task => payloads'[u] = payloads[u]
  BY <1>4
<1> HIDE DEF n, t
<1>8. /\ Len(exec') = Len(exec) + 1 /\ exec'[Len(exec) + 1] = e
      /\ \A i \in 1 .. Len(exec) : exec'[i] = exec[i]
  BY <1>3 DEF n
<1> QED
  BY <1>3, <1>4, <1>5, <1>7, <1>8, RetryEffectInv

\* Retrying any delivery ever handed out, by its worker or by any number of
\* recovery passes, preserves the invariant.
THEOREM RetryScriptInv ==
  ASSUME BrokerInv, NEW id \in DeliveryIds, RetryScript(id)
  PROVE  BrokerInv'
<1> DEFINE t == exec[id].task
           next == exec[id].retry + 1
<1>1. CASE Terminal(t)
  BY <1>1, SettledAgain, StatsType DEF RetryScript, Terminal
<1>2. CASE ~Terminal(t) /\ Exhausted(t, next)
  BY <1>2, BecomesTerminal DEF RetryScript, Terminal
<1>3. CASE ~Terminal(t) /\ ~Exhausted(t, next)
  <2> DEFINE e == [task |-> t, retry |-> next, epoch |-> NoEpoch]
  <2>1. t \in Tasks /\ exec[id].retry \in Nat
    BY DeliveredInFlight
  <2>2. e \in Entry /\ e.task = t /\ e.retry = next
    BY <2>1 DEF Entry, NoEpoch
  <2>3. next <= Budget(t)
    BY <1>3, <2>1, BudgetType DEF Exhausted
  <2>4. /\ payloads' = [payloads EXCEPT ![t] = next]
        /\ exec' = Append(exec, e)
        /\ stats' = [stats EXCEPT !.retried = @ + 1]
        /\ Ack(id) /\ t \notin done
        /\ UNCHANGED <<done, dead, inflight, pending, execRead, results, fence>>
    BY <1>3 DEF RetryScript, Terminal
  <2> HIDE DEF e
  <2> QED
    BY <2>2, <2>3, <2>4, RetriedInv
<1> QED
  BY <1>1, <1>2, <1>3

=============================================================================
