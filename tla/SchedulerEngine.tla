-------------------------- MODULE SchedulerEngine ---------------------------
(***************************************************************************)
(* The scheduler replicas of internal/scheduler: while a replica leads, the *)
(* four loops of serveLoops work on the ingress stream and the keyspace of  *)
(* module Broker.                                                           *)
(*                                                                          *)
(* Abstractions.  Of leader election only what module LeaderTerms promises  *)
(* is used: a term starts with a fresh epoch, and may overlap older ones;   *)
(* module LeaderLease implements that promise.  The policy state is the     *)
(* virtual clock of wfq, which Notify moves to the finish tag of a dispatch *)
(* when that is later; which tag, is left open.  The other policies keep no *)
(* state (MaxTag = 0).  Workers and recovery are "a delivered task may be   *)
(* completed at any time": module TaskQueue has the details.  Gauges and    *)
(* metrics are left out.                                                    *)
(***************************************************************************)
EXTENDS Broker, StreamGroup

CONSTANTS
  Schedulers,   \* scheduler replicas
  Invalid,      \* tasks that fail domain.Task.Validate
  Malformed,    \* ingress payloads that are not a task
  IngestBatch,  \* scheduler.ingest_batch
  MaxTag,       \* bound on the finish tags of the policy, 0 if it keeps no state
  MaxSubmits,   \* bound on the length of the ingress stream
  MaxEpoch      \* bound on the number of leadership terms

ASSUME EngineAssumption ==
  /\ Invalid \subseteq Tasks
  /\ Malformed \cap Tasks = {}
  /\ IngestBatch \in Nat \ {0}
  /\ MaxSubmits \in Nat
  /\ MaxEpoch \in Nat
  /\ MaxTag \in Nat

VARIABLES
  counter,      \* the last epoch handed out
  term,         \* the epoch of the term each replica is in, NoEpoch outside
  pc,           \* "out" of a term, "serving", or "ending": the context is cancelled
  ingress,      \* STREAM of submissions; the ID is the position
  ingressRead,  \* last-delivered ID of the scheduler group
  ingressPel,   \* pending entries list of the scheduler group
  schedState,   \* HASH: the saved policy state, NoState when it is empty
  clock,        \* the policy state in the memory of each replica
  batch,        \* what admitBatch of each replica and loop is working on
  cursor        \* XAUTOCLAIM scan position of each reclaim loop

termVars    == <<counter, term, pc>>
ingressVars == <<ingress, ingressRead, ingressPel>>
policyVars  == <<schedState, clock>>
loopVars    == <<batch, cursor>>
vars == <<brokerVars, termVars, ingressVars, policyVars, loopVars>>

\* The epochs of the dispatches, in stream order.  Nothing retries here, so the
\* exec stream holds no other entries.
DispatchLog == [i \in DOMAIN exec |-> exec[i].epoch]

Terms == INSTANCE LeaderTerms WITH log <- DispatchLog, MaxLog <- Cardinality(Tasks)

Loops == {"ingest", "reclaim"}

IngressIds == 1 .. Len(ingress)

\* The clock of a saved state, and the term that saved it.
NoState == [epoch |-> NoEpoch, clock |-> 0]

\* Entries left to admit, entries to acknowledge, the pre-check done or not.
Idle == [todo |-> {}, acks |-> {}, checked |-> FALSE]

\* A replica has an epoch exactly while it is in a term, and the loops work on
\* entries of the stream.
TypeOK ==
  /\ BrokerTypeOK
  /\ counter \in 0 .. MaxEpoch
  /\ term \in [Schedulers -> 0 .. MaxEpoch]
  /\ pc \in [Schedulers -> {"out", "serving", "ending"}]
  /\ \A s \in Schedulers : pc[s] = "out" <=> term[s] = NoEpoch
  /\ ingress \in Seq(Tasks \cup Malformed)
  /\ ingressRead \in 0 .. Len(ingress)
  /\ ingressPel \subseteq 1 .. ingressRead
  /\ schedState \in [epoch : 0 .. MaxEpoch, clock : 0 .. MaxTag]
  /\ clock \in [Schedulers -> 0 .. MaxTag]
  /\ batch \in [Schedulers -> [Loops ->
       [todo : SUBSET IngressIds, acks : SUBSET IngressIds, checked : BOOLEAN]]]
  /\ cursor \in [Schedulers -> IngressIds \cup {0}]

Init ==
  /\ BrokerInit
  /\ counter = 0
  /\ term = [s \in Schedulers |-> NoEpoch]
  /\ pc = [s \in Schedulers |-> "out"]
  /\ ingress = <<>>
  /\ ingressRead = 0
  /\ ingressPel = {}
  /\ schedState = NoState
  /\ clock = [s \in Schedulers |-> 0]
  /\ batch = [s \in Schedulers |-> [l \in Loops |-> Idle]]
  /\ cursor = [s \in Schedulers |-> 0]

-----------------------------------------------------------------------------
(***************************************************************************)
(* The outside: producers and workers.                                      *)
(***************************************************************************)
\* A producer submits a task, perhaps one it has submitted before.
Submit(entry) ==
  /\ Len(ingress) < MaxSubmits
  /\ ingress' = Append(ingress, entry)
  /\ UNCHANGED <<brokerVars, termVars, ingressRead, ingressPel, policyVars, loopVars>>

WorkerReads ==
  /\ DeliverNext
  /\ UNCHANGED <<taskVars, exec, recordVars, fence>>
  /\ UNCHANGED <<termVars, ingressVars, policyVars, loopVars>>

WorkerSettles(id) ==
  /\ CompleteScript(id)
  /\ UNCHANGED <<termVars, ingressVars, policyVars, loopVars>>

-----------------------------------------------------------------------------
(***************************************************************************)
(* Terms.                                                                   *)
(***************************************************************************)
\* restoreState: an empty hash leaves the policy as it is.
RestoredClock(s) ==
  IF schedState = NoState THEN clock ELSE [clock EXCEPT ![s] = schedState.clock]

\* Defect: leadTerm serves without an epoch, as a scheduler without a lease does.
DefectBeginTerm(s) ==
  /\ pc[s] = "out"
  /\ counter < MaxEpoch
  /\ counter' = counter + 1
  /\ pc' = [pc EXCEPT ![s] = "serving"]
  /\ clock' = RestoredClock(s)
  /\ UNCHANGED <<brokerVars, term, ingressVars, schedState, loopVars>>

\* The replica wins the lease; leadTerm adopts the saved state and starts the
\* loops, the reclaim loop at the beginning of the pending entries list.
BeginTerm(s) ==
  /\ pc[s] = "out"
  /\ counter < MaxEpoch
  /\ counter' = counter + 1
  /\ term' = [term EXCEPT ![s] = counter + 1]
  /\ pc' = [pc EXCEPT ![s] = "serving"]
  /\ clock' = RestoredClock(s)
  /\ UNCHANGED <<brokerVars, ingressVars, schedState, loopVars>>

\* The lease is lost or the process is asked to stop: the context is cancelled,
\* calls on their way may still arrive.
TermCancelled(s) ==
  /\ pc[s] = "serving"
  /\ pc' = [pc EXCEPT ![s] = "ending"]
  /\ UNCHANGED <<brokerVars, counter, term, ingressVars, policyVars, loopVars>>

\* What the loops of s were doing is dropped, and the term is over.
LeaveTerm(s) ==
  /\ batch' = [batch EXCEPT ![s] = [l \in Loops |-> Idle]]
  /\ term' = [term EXCEPT ![s] = NoEpoch]
  /\ pc' = [pc EXCEPT ![s] = "out"]
  /\ cursor' = [cursor EXCEPT ![s] = 0]
  /\ UNCHANGED counter

\* The loops have returned.
EndTerm(s) ==
  /\ pc[s] = "ending"
  /\ LeaveTerm(s)
  /\ UNCHANGED <<brokerVars, ingressVars, policyVars>>

\* A process dies and is started again, its policy state empty.
Crash(s) ==
  /\ LeaveTerm(s)
  /\ clock' = [clock EXCEPT ![s] = 0]
  /\ UNCHANGED <<brokerVars, ingressVars, schedState>>

Leading(s) == pc[s] \in {"serving", "ending"}

\* A guarded script of s may run.
Accepted(s) == Leading(s) /\ ~Fenced(term[s])

\* A guarded script of s is refused: onFenced ends the term.
FencedOut(s) ==
  /\ Leading(s)
  /\ Fenced(term[s])
  /\ pc' = [pc EXCEPT ![s] = "ending"]
  /\ UNCHANGED <<brokerVars, counter, term>>

-----------------------------------------------------------------------------
(***************************************************************************)
(* The ingest loop and the reclaim loop.                                    *)
(***************************************************************************)
Serving(s) == pc[s] = "serving"

Unread == {id \in IngressIds : id > ingressRead /\ id <= ingressRead + IngestBatch}

Garbage(ids) == {id \in ids : ingress[id] \in Malformed}

StartBatch(s, l, ids) ==
  batch' = [batch EXCEPT ![s][l] = [todo |-> ids, acks |-> {}, checked |-> FALSE]]

Deliver(ids) == ingressRead' = ingressRead + Cardinality(ids)

\* XREADGROUP returns entries that all parse.
ReadIngress(s) ==
  /\ Serving(s)
  /\ batch[s]["ingest"] = Idle
  /\ Unread # {} /\ Garbage(Unread) = {}
  /\ Deliver(Unread)
  /\ ingressPel' = ingressPel \cup Unread
  /\ StartBatch(s, "ingest", Unread)
  /\ UNCHANGED <<brokerVars, termVars, ingress, policyVars, cursor>>

\* ReadIngress meets an entry it cannot parse, acknowledges it if it can, and
\* fails: the loop forgets the other entries of the read as well.
ReadGarbage(s) ==
  /\ Serving(s)
  /\ batch[s]["ingest"] = Idle
  /\ Garbage(Unread) # {}
  /\ Deliver(Unread)
  /\ \/ ingressPel' = ingressPel \cup (Unread \ {Least(Garbage(Unread))})
     \/ ingressPel' = ingressPel \cup Unread
  /\ UNCHANGED <<brokerVars, termVars, ingress, policyVars, loopVars>>

\* The reply of a read is lost, or arrives when the term is over.
ReadIngressLost(s) ==
  /\ Leading(s)
  /\ batch[s]["ingest"] = Idle
  /\ Unread # {}
  /\ Deliver(Unread)
  /\ ingressPel' = ingressPel \cup Unread
  /\ UNCHANGED <<brokerVars, termVars, ingress, policyVars, loopVars>>

\* Any entries may have been pending for longer than ingest_reclaim_min_idle.
Pages(s) == {ClaimPage(idle, cursor[s], IngestBatch) : idle \in SUBSET ingressPel}

\* Defect: reclaimed entries leave the pending entries list before they are
\* admitted.
DefectReclaimAcks(page) == page

\* The reclaimed entries that cannot be parsed are acknowledged at once.
ReclaimDrops(page) == Garbage(page)

\* Defect: at the end of the list the scan position stays there.
DefectCursorStays(s, page) ==
  LET next == NextCursor(ingressPel, page, IngestBatch)
  IN  IF next = 0 THEN Len(ingress) ELSE next

\* Where the next pass of the reclaim loop begins.
CursorAfter(s, page) == NextCursor(ingressPel, page, IngestBatch)

\* AutoClaimIngress, and the entries that parse go to admitBatch; the
\* acknowledgements may fail.
ReclaimIngress(s, page) ==
  /\ Serving(s)
  /\ batch[s]["reclaim"] = Idle
  /\ \E acked \in SUBSET ReclaimDrops(page) : ingressPel' = ingressPel \ acked
  /\ cursor' = [cursor EXCEPT ![s] = CursorAfter(s, page)]
  /\ StartBatch(s, "reclaim", page \ Garbage(page))
  /\ UNCHANGED <<brokerVars, termVars, ingress, ingressRead, policyVars>>

-----------------------------------------------------------------------------
(***************************************************************************)
(* admitBatch, one Redis call per step.                                     *)
(***************************************************************************)
\* Known: entries of tasks seen before need no admission.  The call may fail,
\* and then nothing is known.
CheckKnown(s, l) ==
  /\ Serving(s)
  /\ batch[s][l].todo # {}
  /\ ~batch[s][l].checked
  /\ \E known \in {{}, {id \in batch[s][l].todo : KnownTask(ingress[id])}} :
       batch' = [batch EXCEPT ![s][l] =
                   [todo |-> @.todo \ known, acks |-> known, checked |-> TRUE]]
  /\ UNCHANGED <<brokerVars, termVars, ingressVars, policyVars, cursor>>

\* The next entry that needs a call.
Admitting(s, l, id) ==
  /\ batch[s][l].checked
  /\ batch[s][l].todo # {}
  /\ id = Least(batch[s][l].todo)

\* Defect: an entry is acknowledged whether it could be admitted or not.
DefectAckAnyway(s, l) == [batch[s][l] EXCEPT !.todo = {}, !.acks = @ \cup batch[s][l].todo]

\* After a failed admission the loop acknowledges what it has and gives up.
GivenUp(s, l) == [batch[s][l] EXCEPT !.todo = {}]

\* An entry that was dealt with is acknowledged with the others of its batch.
Answered(s, l, id) == [batch[s][l] EXCEPT !.todo = @ \ {id}, !.acks = @ \cup {id}]

\* An entry that Validate rejects is acknowledged with the others.
RejectInvalid(s, l) ==
  /\ Serving(s)
  /\ \E id \in batch[s][l].todo :
       /\ Admitting(s, l, id)
       /\ ingress[id] \in Invalid
       /\ batch' = [batch EXCEPT ![s][l] = Answered(s, l, id)]
  /\ UNCHANGED <<brokerVars, termVars, ingressVars, policyVars, cursor>>

\* The admit script runs.  When the term is over, or the reply is lost, the loop
\* learns nothing of it.
Admit(s, l) ==
  /\ Accepted(s)
  /\ \E id \in batch[s][l].todo :
       /\ Admitting(s, l, id)
       /\ ingress[id] \notin Invalid
       /\ AdmitScript(ingress[id], term[s])
       /\ \/ /\ Serving(s)
             /\ batch' = [batch EXCEPT ![s][l] = Answered(s, l, id)]
          \/ /\ Serving(s)
             /\ batch' = [batch EXCEPT ![s][l] = GivenUp(s, l)]
          \/ /\ ~Serving(s)
             /\ batch' = [batch EXCEPT ![s][l] = Idle]
  /\ UNCHANGED <<termVars, ingressVars, policyVars, cursor>>

\* The call fails before it reaches Redis.
AdmitFails(s, l) ==
  /\ Serving(s)
  /\ batch[s][l].checked
  /\ batch[s][l].todo # {}
  /\ batch' = [batch EXCEPT ![s][l] = GivenUp(s, l)]
  /\ UNCHANGED <<brokerVars, termVars, ingressVars, policyVars, cursor>>

\* The fence refuses: the entries not admitted stay unacknowledged.
AdmitRefused(s, l) ==
  /\ batch[s][l].checked
  /\ batch[s][l].todo # {}
  /\ FencedOut(s)
  /\ batch' = [batch EXCEPT ![s][l] = GivenUp(s, l)]
  /\ UNCHANGED <<ingressVars, policyVars, cursor>>

\* AckIngress for the entries dealt with; the call may fail.
AckBatch(s, l) ==
  /\ Leading(s)
  /\ batch[s][l].checked
  /\ batch[s][l].todo = {}
  /\ ingressPel' = ingressPel \ batch[s][l].acks \/ UNCHANGED ingressPel
  /\ batch' = [batch EXCEPT ![s][l] = Idle]
  /\ UNCHANGED <<brokerVars, termVars, ingress, ingressRead, policyVars, cursor>>

-----------------------------------------------------------------------------
(***************************************************************************)
(* The dispatch loop and the observe loop.                                  *)
(***************************************************************************)
\* Notify for the tasks of one pass: the clock moves to the latest tag, never
\* backwards.
Notified(s) == {[clock EXCEPT ![s] = tag] : tag \in clock[s] .. MaxTag}

\* A dispatch pass; the policy is notified of what it returned, if it returned
\* anything and the reply arrives.
Dispatch(s) ==
  /\ Accepted(s)
  /\ DispatchScript(term[s])
  /\ clock' \in IF exec' = exec THEN {clock} ELSE Notified(s)
  /\ UNCHANGED <<termVars, ingressVars, schedState, loopVars>>

\* saveStateScript: the state in memory replaces the saved one.
SavedState(s) == [epoch |-> term[s], clock |-> clock[s]]

\* flushState, on its ticker and once more when the loops have ended.
FlushState(s) ==
  /\ Accepted(s)
  /\ MaxTag > 0
  /\ RaiseFence(term[s])
  /\ schedState' = SavedState(s)
  /\ UNCHANGED <<taskVars, execVars, recordVars, termVars, ingressVars, clock, loopVars>>

\* Dispatch or flushState is refused.
LoopRefused(s) ==
  /\ FencedOut(s)
  /\ UNCHANGED <<ingressVars, policyVars, loopVars>>

-----------------------------------------------------------------------------
LoopStep(s, l) ==
  \/ CheckKnown(s, l)
  \/ RejectInvalid(s, l)
  \/ Admit(s, l)
  \/ AdmitFails(s, l)
  \/ AdmitRefused(s, l)
  \/ AckBatch(s, l)

SchedulerStep(s) ==
  \/ BeginTerm(s)
  \/ TermCancelled(s)
  \/ EndTerm(s)
  \/ Crash(s)
  \/ ReadIngress(s)
  \/ ReadGarbage(s)
  \/ ReadIngressLost(s)
  \/ \E page \in Pages(s) : ReclaimIngress(s, page)
  \/ Dispatch(s)
  \/ FlushState(s)
  \/ LoopRefused(s)
  \/ \E l \in Loops : LoopStep(s, l)

Next ==
  \/ \E entry \in Tasks \cup Malformed : Submit(entry)
  \/ WorkerReads
  \/ \E id \in execPel : WorkerSettles(id)
  \/ \E s \in Schedulers : SchedulerStep(s)

Spec == Init /\ [][Next]_vars

(***************************************************************************)
(* The loops run while a term lasts, and calls do not fail for ever.  An    *)
(* entry that stays pending is idle for long enough in the end, so that a   *)
(* reclaim pass that reaches it claims it.                                  *)
(***************************************************************************)
Reclaims(s, id) ==
  \E page \in Pages(s) :
    /\ id \in page
    /\ ReclaimIngress(s, page)
    /\ id \in ReclaimDrops(page) => id \notin ingressPel'

AdmitCall(s, l) == CheckKnown(s, l) \/ RejectInvalid(s, l) \/ Admit(s, l)

AckArrives(s, l) ==
  /\ batch[s][l].acks # {}
  /\ AckBatch(s, l)
  /\ ingressPel' = ingressPel \ batch[s][l].acks

Fairness ==
  \A s \in Schedulers :
    /\ WF_vars(ReadIngress(s) \/ ReadGarbage(s))
    /\ WF_vars(\E page \in Pages(s) : ReclaimIngress(s, page))
    /\ \A id \in 1 .. MaxSubmits : SF_vars(Reclaims(s, id))
    /\ WF_vars(LoopRefused(s))
    /\ \A l \in Loops :
         /\ WF_vars(AdmitCall(s, l) \/ AckBatch(s, l))
         /\ SF_vars(AdmitCall(s, l) /\ batch'[s][l].acks # batch[s][l].acks)
         /\ SF_vars(AckArrives(s, l))

FairSpec == Spec /\ Fairness
-----------------------------------------------------------------------------
(***************************************************************************)
(* Properties.                                                              *)
(***************************************************************************)
Settled(id) == id <= ingressRead /\ id \notin ingressPel

\* No accepted submission is dropped: an ingress entry that no scheduler will be
\* offered again is one whose task is known, or that was not a valid task.  A
\* crash, a fence, a lost reply or an unreadable neighbour in the middle of a
\* batch leaves the entry where the next leader finds it.
SubmissionsKept ==
  \A id \in IngressIds :
    Settled(id) /\ ingress[id] \notin Invalid \cup Malformed => KnownTask(ingress[id])

\* The writes of the loops, late ones included, are those the fence allows: the
\* epochs stamped on the exec stream are a dispatch log of module LeaderTerms.
ImplementsTerms == Terms!Spec

\* The saved policy state is never replaced by the state of an older term.
SavedTermsNeverGoBack == [][schedState'.epoch >= schedState.epoch]_vars

\* Every submission is settled in the end, though its first reader crashed, was
\* fenced or lost a reply: unless replicas keep failing, a leader that stays finds
\* the stranded entries of all others (reclaimIngressLoop: "The task simply never
\* runs" without it).
SubmissionsSettle ==
  \A id \in 1 .. MaxSubmits :
    (\E s \in Schedulers : <>[]Serving(s)) => []<>(id \in IngressIds => Settled(id))

\* README: "a stale state flush cannot roll the virtual clock backwards", "a
\* promoted standby inherits the virtual clock rather than restarting it".
SavedClockNeverGoesBack == [][schedState'.clock >= schedState.clock]_vars

=============================================================================
