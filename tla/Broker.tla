------------------------------- MODULE Broker -------------------------------
(***************************************************************************)
(* The Redis keyspace of internal/broker and the Lua scripts that are its   *)
(* only writers on the path from admission to a terminal record.  A script  *)
(* runs atomically inside Redis, so each one is a single action here.       *)
(*                                                                          *)
(* Abstractions.  A payload is its retry count: the only field of a task    *)
(* that changes after submission (the attempt ID is "<task>#<retry>").      *)
(* The sorted sets pending and pendingAge hold the same members and are one *)
(* set, so a dispatch pops members in any order; the orders are the subject *)
(* of the ranking policies.  Stream trimming is off (streams.max_len = 0,   *)
(* the default).                                                            *)
(***************************************************************************)
EXTENDS Integers, Sequences, FiniteSets, Functions, EpochFence

CONSTANTS
  Tasks,              \* task IDs
  TaskMaxRetries,     \* max_retries carried by each task, 0 meaning "unset"
  DefaultMaxRetries,  \* recovery.max_retries
  MaxInFlight,        \* scheduler.max_in_flight, 0 meaning unlimited
  DispatchBatch       \* scheduler.dispatch_batch

ASSUME BrokerAssumption ==
  /\ IsFiniteSet(Tasks)
  /\ TaskMaxRetries \in [Tasks -> Nat]
  /\ DefaultMaxRetries \in Nat
  /\ MaxInFlight \in Nat
  /\ DispatchBatch \in Nat \ {0}

VARIABLES
  payloads,   \* HASH: retry count of the stored payload, Absent if no field
  pending,    \* ZSETs pending and pendingAge: the tasks waiting to be dispatched
  done,       \* HASH: the terminal task IDs, the idempotency guard
  exec,       \* STREAM of deliveries [task, retry, epoch]; the ID is the position
  execRead,   \* last-delivered ID of the worker group
  execPel,    \* pending entries list of the worker group
  results,    \* STREAM results: how many records each task has
  dead,       \* STREAM dead: how many records each task has
  inflight,   \* the inflight counter
  stats       \* HASH of counters

taskVars   == <<payloads, pending, done>>
execVars   == <<exec, execRead, execPel>>
recordVars == <<results, dead, inflight, stats>>
brokerVars == <<payloads, pending, done, exec, execRead, execPel,
                results, dead, inflight, stats, fence>>

Absent == -1

Entry == [task : Tasks, retry : Nat, epoch : Nat]

Stats == [admitted : Nat, dispatched : Nat, completed : Nat,
          duplicates : Nat, retried : Nat, deadLettered : Nat]

BrokerTypeOK ==
  /\ payloads \in [Tasks -> Nat \cup {Absent}]
  /\ pending \subseteq Tasks
  /\ done \subseteq Tasks
  /\ exec \in Seq(Entry)
  /\ execRead \in 0 .. Len(exec)
  /\ execPel \subseteq 1 .. execRead
  /\ results \in [Tasks -> Nat]
  /\ dead \in [Tasks -> Nat]
  /\ inflight \in Nat
  /\ stats \in Stats
  /\ fence \in Nat

BrokerInit ==
  /\ payloads = [t \in Tasks |-> Absent]
  /\ pending = {}
  /\ done = {}
  /\ exec = <<>>
  /\ execRead = 0
  /\ execPel = {}
  /\ results = [t \in Tasks |-> 0]
  /\ dead = [t \in Tasks |-> 0]
  /\ inflight = 0
  /\ stats = [admitted |-> 0, dispatched |-> 0, completed |-> 0,
              duplicates |-> 0, retried |-> 0, deadLettered |-> 0]
  /\ fence = 0

-----------------------------------------------------------------------------
\* A refused write leaves every key alone.
Refused(epoch) == Fenced(epoch) /\ UNCHANGED brokerVars

(***************************************************************************)
(* admitScript.  Known: the task has a terminal record or a payload.        *)
(***************************************************************************)
\* Defect: the check of the done hash is dropped.
DefectKnownIfStored(t) == payloads[t] # Absent

KnownTask(t) == t \in done \/ payloads[t] # Absent

AdmitScript(t, epoch) ==
  \/ Refused(epoch)
  \/ /\ ~Fenced(epoch)
     /\ KnownTask(t)
     /\ RaiseFence(epoch)
     /\ UNCHANGED <<taskVars, execVars, recordVars>>
  \/ /\ ~Fenced(epoch)
     /\ ~KnownTask(t)
     /\ RaiseFence(epoch)
     /\ payloads' = [payloads EXCEPT ![t] = 0]
     /\ pending' = pending \cup {t}
     /\ stats' = [stats EXCEPT !.admitted = @ + 1]
     /\ UNCHANGED <<done, execVars, results, dead, inflight>>

(***************************************************************************)
(* dispatchScript.  The loop pops until it has popped DispatchBatch         *)
(* members, the pending set is empty, or the in-flight cap is reached; a    *)
(* popped member without a payload is dropped and does not count.           *)
(***************************************************************************)
Live(popped) == {t \in popped : payloads[t] # Absent}

\* The cap lets every pop of the pass happen.
UnderCap(popped) ==
  MaxInFlight > 0 /\ popped # {} =>
    /\ inflight < MaxInFlight
    /\ inflight + Cardinality(Live(popped)) <= MaxInFlight

\* The loop has no reason to go on after these pops.
LoopEnds(popped) ==
  \/ Cardinality(popped) = DispatchBatch
  \/ popped = pending
  \/ MaxInFlight > 0 /\ inflight + Cardinality(Live(popped)) >= MaxInFlight

PopSets ==
  {popped \in SUBSET pending :
     Cardinality(popped) <= DispatchBatch /\ UnderCap(popped) /\ LoopEnds(popped)}

\* The entries one pass appends to the exec stream, in the order popped.
Deliveries(order, epoch) ==
  [i \in DOMAIN order |->
     [task |-> order[i], retry |-> payloads[order[i]], epoch |-> epoch]]

DispatchScript(epoch) ==
  \/ Refused(epoch)
  \/ /\ ~Fenced(epoch)
     /\ RaiseFence(epoch)
     /\ \E popped \in PopSets :
          /\ \E order \in Bijection(1 .. Cardinality(Live(popped)), Live(popped)) :
               exec' = exec \o Deliveries(order, epoch)
          /\ pending' = pending \ popped
          /\ inflight' = inflight + Cardinality(Live(popped))
          /\ stats' = [stats EXCEPT !.dispatched = @ + Cardinality(Live(popped))]
     /\ UNCHANGED <<payloads, done, execRead, execPel, results, dead>>

-----------------------------------------------------------------------------
(***************************************************************************)
(* XREADGROUP ">" with COUNT 1: the next entry nobody has been offered goes *)
(* to the group's pending entries list.  The action of the caller says who  *)
(* receives it.                                                             *)
(***************************************************************************)
\* Defect: the group reads with NOACK.
DefectDeliverNoAck ==
  /\ execRead < Len(exec)
  /\ execRead' = execRead + 1
  /\ UNCHANGED execPel

DeliverNext ==
  /\ execRead < Len(exec)
  /\ execRead' = execRead + 1
  /\ execPel' = execPel \cup {execRead + 1}

Ack(id) == execPel' = execPel \ {id}

\* Defect: the idempotency guard is not consulted.
DefectNeverTerminal(t) == FALSE

\* The idempotency guard of completion and retry: HSETNX or HEXISTS on done.
Terminal(t) == t \in done

\* A task that becomes terminal leaves the in-flight count.
LeaveInFlight == inflight' = inflight - 1

(***************************************************************************)
(* completeScript for the delivery id.  results also stands for the tenant  *)
(* accounting, written under the same guard.                                *)
(***************************************************************************)
CompleteScript(id) ==
  LET t == exec[id].task IN
  /\ \/ /\ ~Terminal(t)
        /\ done' = done \cup {t}
        /\ payloads' = [payloads EXCEPT ![t] = Absent]
        /\ results' = [results EXCEPT ![t] = @ + 1]
        /\ LeaveInFlight
        /\ stats' = [stats EXCEPT !.completed = @ + 1]
     \/ /\ Terminal(t)
        /\ stats' = [stats EXCEPT !.duplicates = @ + 1]
        /\ UNCHANGED <<done, payloads, results, inflight>>
  /\ Ack(id)
  /\ UNCHANGED <<pending, exec, execRead, dead, fence>>

\* recovery.Loop.Budget and worker.retryBudget: 0 falls back to the default.
Budget(t) == IF TaskMaxRetries[t] > 0 THEN TaskMaxRetries[t] ELSE DefaultMaxRetries

\* Defect: one retry too many.
DefectExhaustedLate(t, next) == next > Budget(t) + 1

Exhausted(t, next) == next > Budget(t)

(***************************************************************************)
(* RetryOrDeadLetter and retryScript for the delivery id.  The caller's     *)
(* copy of the task is the one in the entry it was handed, and the script   *)
(* looks at the done hash only: not at whether the entry is still pending.  *)
(***************************************************************************)
RetryScript(id) ==
  LET t == exec[id].task
      next == exec[id].retry + 1
  IN
  /\ \/ /\ Terminal(t)
        /\ UNCHANGED <<done, payloads, exec, dead, inflight, stats>>
     \/ /\ ~Terminal(t)
        /\ Exhausted(t, next)
        /\ dead' = [dead EXCEPT ![t] = @ + 1]
        /\ payloads' = [payloads EXCEPT ![t] = Absent]
        /\ done' = done \cup {t}
        /\ stats' = [stats EXCEPT !.deadLettered = @ + 1]
        /\ LeaveInFlight
        /\ UNCHANGED exec
     \/ /\ ~Terminal(t)
        /\ ~Exhausted(t, next)
        /\ payloads' = [payloads EXCEPT ![t] = next]
        /\ exec' = Append(exec, [task |-> t, retry |-> next, epoch |-> NoEpoch])
        /\ stats' = [stats EXCEPT !.retried = @ + 1]
        /\ UNCHANGED <<done, dead, inflight>>
  /\ Ack(id)
  /\ UNCHANGED <<pending, execRead, results, fence>>

-----------------------------------------------------------------------------
\* Deliveries that some worker or recovery pass is still answerable for.
Outstanding == execPel \cup (execRead + 1 .. Len(exec))

InFlightTasks == {t \in Tasks : payloads[t] # Absent} \ pending

DeliveryIds == 1 .. Len(exec)

(***************************************************************************)
(* What the scripts keep true together, whoever calls them and however      *)
(* often a call is repeated.                                                *)
(***************************************************************************)
\* No task is lost: a task with a payload is waiting in the pending set, or some
\* delivery of it is still outstanding, whatever died in between (scripts.go:
\* "a crash cannot duplicate the retry or drop the task").
NoTaskLost ==
  \A t \in Tasks :
    payloads[t] # Absent =>
      t \in pending \/ \E id \in Outstanding : exec[id].task = t

\* The inflight counter, which completeScript and retryScript decrement, counts
\* the dispatched, non-terminal tasks exactly: duplicate deliveries of a task
\* never decrement it twice, a retry never increments it.
InFlightExact == inflight = Cardinality(InFlightTasks)

\* Dispatch never exceeds max_in_flight, whatever retries and duplicates do.
InFlightCapped == MaxInFlight > 0 => inflight <= MaxInFlight

\* A task has one terminal record, a result or a dead letter and never both,
\* exactly when the done hash says so; then its payload is gone.
OneTerminalRecord ==
  \A t \in Tasks :
    /\ results[t] + dead[t] = IF t \in done THEN 1 ELSE 0
    /\ t \in done => payloads[t] = Absent /\ t \notin pending

\* Dispatch delivers a task once: a first attempt (retry 0) is never published
\* twice, however often its ingress entry is offered, and a task that has been
\* delivered is not waiting for dispatch.
DispatchedOnce ==
  /\ \A i, j \in DeliveryIds :
       exec[i].task = exec[j].task /\ exec[i].retry = 0 /\ exec[j].retry = 0 => i = j
  /\ \A i \in DeliveryIds : exec[i].task \notin pending

\* A delivery that left the pending entries list is answered for: its task is
\* terminal or a later delivery carries the next attempt.
AckedIsSettled ==
  \A i \in DeliveryIds \ Outstanding :
    \/ exec[i].task \in done
    \/ \E j \in DeliveryIds :
         j > i /\ exec[j].task = exec[i].task /\ exec[j].retry = exec[i].retry + 1

\* No delivery carries more retries than the budget of its task allows.
RetriesWithinBudget ==
  \A i \in DeliveryIds : exec[i].retry <= Budget(exec[i].task)

\* The counters an operator reads add up: what was admitted is pending, in
\* flight, completed or dead-lettered; the exec stream holds the dispatches and
\* the retries.
CountersBalance ==
  /\ stats.admitted = Cardinality(pending) + inflight + stats.completed + stats.deadLettered
  /\ stats.dispatched + stats.retried = Len(exec)
=============================================================================
