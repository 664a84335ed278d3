----------------------- MODULE SchedulerEngine_proofs -----------------------
(***************************************************************************)
(* The loops of the scheduler replicas keep every submission, never let an  *)
(* older term overwrite the saved policy state, and write to the exec       *)
(* stream as module LeaderTerms allows: for every number of replicas, terms *)
(* and submissions, every batch size and every mix of valid, invalid and    *)
(* malformed entries.  What the scripts do to the keyspace is taken from    *)
(* module Broker_proofs.                                                    *)
(***************************************************************************)
EXTENDS SchedulerEngine, Broker_proofs, WellFoundedInduction

USE EngineAssumption DEF EngineAssumption

-----------------------------------------------------------------------------
(***************************************************************************)
(* The inductive invariant.                                                 *)
(***************************************************************************)
\* A replica has an epoch exactly while it is in a term.
TermsHaveEpochs ==
  \A s \in Schedulers : IF pc[s] = "out" THEN term[s] = NoEpoch ELSE term[s] > 0

\* The saved state is one that the fence let through.
SavedUnderFence == schedState.epoch <= fence

\* Without retries, all payloads and deliveries are first attempts.
FirstAttempts ==
  /\ \A t \in Tasks : payloads[t] \in {0, Absent}
  /\ \A i \in DeliveryIds : exec[i].retry = 0

\* The entry can leave the pending entries list: its task is known, or it is
\* not a valid task.
Disposed(id) == ingress[id] \in Invalid \cup Malformed \/ KnownTask(ingress[id])

\* What a loop is about to acknowledge has been dealt with, and what it is about
\* to admit could be parsed.
BatchesSound ==
  \A s \in Schedulers, l \in Loops :
    /\ \A id \in batch[s][l].acks : Disposed(id)
    /\ \A id \in batch[s][l].todo : ingress[id] \in Tasks

EngineInv ==
  /\ TypeOK
  /\ BrokerInv
  /\ TermsHaveEpochs
  /\ SavedUnderFence
  /\ FirstAttempts
  /\ BatchesSound
  /\ SubmissionsKept

-----------------------------------------------------------------------------
(***************************************************************************)
(* Streams and batches.                                                     *)
(***************************************************************************)
\* A nonempty set of naturals has a least member.
LEMMA LeastNumber ==
  ASSUME NEW S \in SUBSET Nat, S # {}
  PROVE  \E m \in S : \A n \in S : m <= n
<1> DEFINE R == {ss \in Nat \X Nat : ss[1] < ss[2]}
<1>1. IsWellFoundedOn(R, Nat)
  BY NatLessThanWellFounded DEF OpToRel
<1> HIDE DEF R
<1>2. PICK m \in S : \A n \in S : ~(<<n, m>> \in R)
  BY <1>1, WFMin
<1>3. ASSUME NEW n \in S PROVE m <= n
  <2>1. m \in Nat /\ n \in Nat
    OBVIOUS
  <2>2. <<n, m>> \notin R
    BY <1>2
  <2>3. ~(n < m)
    BY <2>1, <2>2 DEF R
  <2> QED
    BY <2>1, <2>3
<1> QED
  BY <1>3

LEMMA LeastMember ==
  ASSUME NEW S \in SUBSET Nat, S # {}
  PROVE  Least(S) \in S
BY LeastNumber DEF Least

\* A read offers the entries behind the last-delivered ID, without a gap.
LEMMA UnreadIsNext ==
  ASSUME TypeOK
  PROVE  /\ Unread \subseteq IngressIds
         /\ ingressRead + Cardinality(Unread) \in 0 .. Len(ingress)
         /\ Unread = ingressRead + 1 .. ingressRead + Cardinality(Unread)
<1> DEFINE last == IF Len(ingress) <= ingressRead + IngestBatch
                   THEN Len(ingress) ELSE ingressRead + IngestBatch
<1>1. Len(ingress) \in Nat /\ ingressRead \in Nat /\ ingressRead <= Len(ingress)
  BY DEF TypeOK
<1>2. last \in Nat /\ last >= ingressRead /\ last <= Len(ingress)
  BY <1>1
<1>3. Unread = ingressRead + 1 .. last
  BY <1>1 DEF Unread, IngressIds
<1> HIDE DEF last
<1>4. Cardinality(ingressRead + 1 .. last) =
        IF ingressRead + 1 > last THEN 0 ELSE last - (ingressRead + 1) + 1
  BY <1>1, <1>2, FS_Interval
<1>5. Cardinality(Unread) = last - ingressRead
  BY <1>1, <1>2, <1>3, <1>4
<1> QED
  BY <1>1, <1>2, <1>3, <1>5 DEF IngressIds

Batches == [todo : SUBSET IngressIds, acks : SUBSET IngressIds, checked : BOOLEAN]

\* No script forgets a task.
KnownKept == \A t \in Tasks : KnownTask(t) => KnownTask(t)'

\* An entry that was disposed of stays so.
LEMMA DisposedKept ==
  ASSUME TypeOK, KnownKept, UNCHANGED ingress, NEW id \in IngressIds, Disposed(id)
  PROVE  Disposed(id)'
<1>1. ingress[id] \in Tasks \cup Malformed
  BY DEF TypeOK, IngressIds
<1> QED
  BY <1>1 DEF Disposed, KnownKept

\* A loop changes its batch, and no other.
LEMMA BatchUpdated ==
  ASSUME TypeOK, BatchesSound, KnownKept, UNCHANGED ingress,
         NEW s \in Schedulers, NEW l \in Loops, NEW b \in Batches,
         batch' = [batch EXCEPT ![s][l] = b],
         \A id \in b.acks : Disposed(id) \/ Disposed(id)',
         \A id \in b.todo : ingress[id] \in Tasks
  PROVE  BatchesSound' /\ batch' \in [Schedulers -> [Loops -> Batches']]
<1>1. batch \in [Schedulers -> [Loops -> Batches]] /\ Batches' = Batches
  BY DEF TypeOK, Batches, IngressIds
<1>2. batch' \in [Schedulers -> [Loops -> Batches]]
  BY <1>1
<1>3. ASSUME NEW s2 \in Schedulers, NEW l2 \in Loops
      PROVE  /\ \A id \in batch'[s2][l2].acks : Disposed(id)'
             /\ \A id \in batch'[s2][l2].todo : ingress'[id] \in Tasks
  <2>1. CASE s2 = s /\ l2 = l
    <3>1. batch'[s2][l2] = b
      BY <1>1, <2>1
    <3>2. b.acks \subseteq IngressIds
      BY DEF Batches
    <3> QED
      BY <3>1, <3>2, DisposedKept
  <2>2. CASE ~(s2 = s /\ l2 = l)
    <3>1. batch'[s2][l2] = batch[s2][l2]
      BY <1>1, <2>2
    <3>2. batch[s2][l2] \in Batches
      BY <1>1
    <3>3. batch[s2][l2].acks \subseteq IngressIds
      BY <3>2 DEF Batches
    <3> QED
      BY <3>1, <3>3, DisposedKept DEF BatchesSound
  <2> QED
    BY <2>1, <2>2
<1> QED
  BY <1>1, <1>2, <1>3 DEF BatchesSound

\* The loops of a replica drop what they were doing.
LEMMA BatchesDropped ==
  ASSUME TypeOK, BatchesSound, KnownKept, UNCHANGED ingress, NEW s \in Schedulers,
         batch' = [batch EXCEPT ![s] = [l \in Loops |-> Idle]]
  PROVE  BatchesSound' /\ batch' \in [Schedulers -> [Loops -> Batches']]
<1>1. batch \in [Schedulers -> [Loops -> Batches]] /\ Batches' = Batches
  BY DEF TypeOK, Batches, IngressIds
<1>2. Idle \in Batches /\ Idle.acks = {} /\ Idle.todo = {}
  BY DEF Idle, Batches
<1>3. batch' \in [Schedulers -> [Loops -> Batches]]
  BY <1>1, <1>2
<1>4. ASSUME NEW s2 \in Schedulers, NEW l2 \in Loops
      PROVE  /\ \A id \in batch'[s2][l2].acks : Disposed(id)'
             /\ \A id \in batch'[s2][l2].todo : ingress'[id] \in Tasks
  <2>1. CASE s2 = s
    BY <1>1, <1>2, <2>1
  <2>2. CASE s2 # s
    <3>1. batch'[s2][l2] = batch[s2][l2]
      BY <1>1, <2>2
    <3>2. batch[s2][l2] \in Batches
      BY <1>1
    <3>3. batch[s2][l2].acks \subseteq IngressIds
      BY <3>2 DEF Batches
    <3> QED
      BY <3>1, <3>3, DisposedKept DEF BatchesSound
  <2> QED
    BY <2>1, <2>2
<1> QED
  BY <1>1, <1>3, <1>4 DEF BatchesSound

LEMMA BatchesSame ==
  ASSUME TypeOK, BatchesSound, KnownKept, UNCHANGED <<ingress, batch>>
  PROVE  BatchesSound' /\ batch' \in [Schedulers -> [Loops -> Batches']]
<1>1. batch \in [Schedulers -> [Loops -> Batches]] /\ Batches' = Batches
  BY DEF TypeOK, Batches, IngressIds
<1>2. ASSUME NEW s \in Schedulers, NEW l \in Loops
      PROVE  \A id \in batch[s][l].acks : Disposed(id)'
  <2>1. batch[s][l] \in Batches
    BY <1>1
  <2>2. batch[s][l].acks \subseteq IngressIds
    BY <2>1 DEF Batches
  <2> QED
    BY <2>2, DisposedKept DEF BatchesSound
<1> QED
  BY <1>1, <1>2 DEF BatchesSound

\* Submissions are kept by a step that settles only entries disposed of.
LEMMA KeptByStep ==
  ASSUME TypeOK, SubmissionsKept, KnownKept, UNCHANGED ingress,
         \A id \in IngressIds : Settled(id)' => Settled(id) \/ Disposed(id) \/ Disposed(id)'
  PROVE  SubmissionsKept'
<1>1. ASSUME NEW id \in IngressIds, Settled(id)' PROVE Disposed(id)'
  <2>1. Settled(id) => Disposed(id)
    BY DEF SubmissionsKept, Disposed
  <2> QED
    BY <1>1, <2>1, DisposedKept
<1>2. IngressIds' = IngressIds
  BY DEF IngressIds
<1> QED
  BY <1>1, <1>2 DEF SubmissionsKept, Disposed

-----------------------------------------------------------------------------
(***************************************************************************)
(* What the scripts change of the keyspace, beyond its own invariant.       *)
(***************************************************************************)
\* A term that is not fenced out raises the fence to its epoch.
LEMMA FenceRaised ==
  ASSUME fence \in Nat, NEW epoch \in Nat \ {0}, ~Fenced(epoch), RaiseFence(epoch)
  PROVE  fence' = epoch /\ fence <= epoch
BY DEF Fenced, RaiseFence

\* The part of the invariant that speaks of the keyspace, after a step.
KeyspaceStep ==
  /\ BrokerInv'
  /\ FirstAttempts'
  /\ KnownKept

LEMMA KeyspaceSame ==
  ASSUME BrokerInv, FirstAttempts, UNCHANGED brokerVars
  PROVE  KeyspaceStep
<1>1. UNCHANGED <<taskVars, execVars, recordVars>> /\ fence' \in Nat
  BY DEF brokerVars, taskVars, execVars, recordVars, BrokerInv, BrokerTypeOK
<1>2. BrokerInv'
  BY <1>1, FenceOnly
<1>3. FirstAttempts' /\ KnownKept
  BY DEF brokerVars, FirstAttempts, KnownKept, KnownTask, DeliveryIds
<1> QED
  BY <1>2, <1>3 DEF KeyspaceStep

LEMMA AdmitEffect ==
  ASSUME BrokerInv, FirstAttempts, NEW t \in Tasks, NEW epoch \in Nat \ {0}, ~Fenced(epoch),
         AdmitScript(t, epoch)
  PROVE  KeyspaceStep /\ KnownTask(t)' /\ fence' = epoch /\ fence <= epoch /\ exec' = exec
<1> USE DEF taskVars, execVars, recordVars
<1>1. BrokerInv'
  BY AdmitScriptInv
<1>2. fence \in Nat /\ payloads \in [Tasks -> Nat \cup {Absent}]
  BY DEF BrokerInv, BrokerTypeOK
<1>3. RaiseFence(epoch) /\ exec' = exec
  BY DEF AdmitScript, Refused
<1>4. fence' = epoch /\ fence <= epoch
  BY <1>2, <1>3, FenceRaised
<1>5. \/ KnownTask(t) /\ UNCHANGED <<payloads, done>>
      \/ payloads' = [payloads EXCEPT ![t] = 0] /\ UNCHANGED done
  BY DEF AdmitScript, Refused
<1>6. KnownKept /\ KnownTask(t)'
  BY <1>2, <1>5 DEF KnownKept, KnownTask, Absent
<1>7. FirstAttempts'
  BY <1>2, <1>3, <1>5 DEF FirstAttempts, DeliveryIds
<1> QED
  BY <1>1, <1>3, <1>4, <1>6, <1>7 DEF KeyspaceStep

\* A dispatch appends entries of its own epoch to the exec stream.
Appended(epoch) ==
  /\ exec' \in Seq(Entry)
  /\ Len(exec') >= Len(exec)
  /\ \A i \in 1 .. Len(exec) : exec'[i] = exec[i]
  /\ \A i \in Len(exec) + 1 .. Len(exec') : exec'[i].epoch = epoch

LEMMA DispatchEffect ==
  ASSUME BrokerInv, FirstAttempts, NEW epoch \in Nat \ {0}, ~Fenced(epoch),
         DispatchScript(epoch)
  PROVE  KeyspaceStep /\ Appended(epoch) /\ fence' = epoch /\ fence <= epoch
<1>1. BrokerInv'
  BY DispatchScriptInv
<1>2. fence \in Nat /\ payloads \in [Tasks -> Nat \cup {Absent}] /\ Len(exec) \in Nat
  BY DEF BrokerInv, BrokerTypeOK
<1>3. RaiseFence(epoch) /\ UNCHANGED <<payloads, done>>
  BY DEF DispatchScript, Refused
<1>4. fence' = epoch /\ fence <= epoch
  BY <1>2, <1>3, FenceRaised
<1>5. /\ exec' \in Seq(Entry)
      /\ Len(exec') >= Len(exec)
      /\ \A i \in 1 .. Len(exec) : exec'[i] = exec[i]
      /\ \A i \in Len(exec) + 1 .. Len(exec') : exec'[i].retry = 0 /\ exec'[i].epoch = epoch
  BY DispatchScriptAppends
<1>6. Appended(epoch)
  BY <1>5 DEF Appended
<1>7. FirstAttempts'
  <2>1. ASSUME NEW i \in DeliveryIds' PROVE exec'[i].retry = 0
    <3>1. i \in 1 .. Len(exec) \/ i \in Len(exec) + 1 .. Len(exec')
      BY <1>2, <1>5 DEF DeliveryIds
    <3> QED
      BY <1>5, <3>1 DEF FirstAttempts, DeliveryIds
  <2> QED
    BY <1>3, <2>1 DEF FirstAttempts
<1>8. KnownKept
  BY <1>3 DEF KnownKept, KnownTask
<1> QED
  BY <1>1, <1>4, <1>6, <1>7, <1>8 DEF KeyspaceStep

LEMMA CompleteEffect ==
  ASSUME BrokerInv, FirstAttempts, NEW id \in execPel, CompleteScript(id)
  PROVE  KeyspaceStep /\ UNCHANGED <<exec, fence>>
<1>1. id \in DeliveryIds
  BY DEF BrokerInv, BrokerTypeOK, DeliveryIds
<1>2. BrokerInv'
  BY <1>1, CompleteScriptInv
<1>3. UNCHANGED <<exec, fence>>
  BY DEF CompleteScript
<1>4. exec[id].task \in Tasks /\ payloads \in [Tasks -> Nat \cup {Absent}]
  BY <1>1, DeliveredInFlight DEF BrokerInv, BrokerTypeOK
<1>5. \/ /\ done' = done \cup {exec[id].task}
         /\ payloads' = [payloads EXCEPT ![exec[id].task] = Absent]
      \/ UNCHANGED <<done, payloads>>
  BY DEF CompleteScript
<1>6. FirstAttempts'
  BY <1>3, <1>4, <1>5 DEF FirstAttempts, DeliveryIds
<1>7. KnownKept
  BY <1>4, <1>5 DEF KnownKept, KnownTask
<1> QED
  BY <1>2, <1>3, <1>6, <1>7 DEF KeyspaceStep

-----------------------------------------------------------------------------
(***************************************************************************)
(* Init, and one lemma per group of actions.                                *)
(***************************************************************************)
LEMMA EngineInitInv == Init => EngineInv
<1> SUFFICES ASSUME Init PROVE EngineInv
  OBVIOUS
<1> USE DEF Init
<1>1. BrokerInv
  BY BrokerInitInv
<1>2. TypeOK
  <2>1. BrokerTypeOK
    BY <1>1 DEF BrokerInv
  <2> QED
    BY <2>1 DEF TypeOK, NoEpoch, NoState, Idle, IngressIds
<1>3. TermsHaveEpochs /\ SavedUnderFence
  BY DEF TermsHaveEpochs, SavedUnderFence, NoState, NoEpoch, BrokerInit
<1>4. FirstAttempts
  BY DEF FirstAttempts, BrokerInit, DeliveryIds
<1>5. BatchesSound
  BY DEF BatchesSound, Idle
<1>6. SubmissionsKept
  BY DEF SubmissionsKept, IngressIds
<1> QED
  BY <1>1, <1>2, <1>3, <1>4, <1>5, <1>6 DEF EngineInv

\* A submission: the new entry is not delivered yet.
LEMMA SubmitInv ==
  ASSUME EngineInv, NEW entry \in Tasks \cup Malformed, Submit(entry)
  PROVE  EngineInv'
<1> USE DEF Submit, termVars, policyVars, loopVars
<1> DEFINE n == Len(ingress)
<1>1. KeyspaceStep
  BY KeyspaceSame DEF EngineInv
<1>2. /\ ingress \in Seq(Tasks \cup Malformed) /\ n \in Nat
      /\ ingressRead \in 0 .. n /\ ingressPel \subseteq 1 .. ingressRead
  BY DEF EngineInv, TypeOK
<1>3. /\ ingress' \in Seq(Tasks \cup Malformed) /\ Len(ingress') = n + 1
      /\ \A id \in 1 .. n : ingress'[id] = ingress[id]
  BY <1>2
<1> HIDE DEF n
<1>4. IngressIds \subseteq IngressIds' /\ IngressIds = 1 .. n /\ IngressIds' = 1 .. n + 1
  BY <1>2, <1>3 DEF IngressIds, n
<1>5. batch \in [Schedulers -> [Loops -> Batches]]
  BY DEF EngineInv, TypeOK, Batches
<1>6. TypeOK'
  <2>1. BrokerTypeOK'
    BY <1>1 DEF KeyspaceStep, BrokerInv
  <2>2. Batches \subseteq Batches'
    BY <1>4 DEF Batches
  <2>3. batch' \in [Schedulers -> [Loops -> Batches']]
    BY <1>5, <2>2
  <2>4. ingressRead' \in 0 .. Len(ingress') /\ ingressPel' \subseteq 1 .. ingressRead'
    BY <1>2, <1>3
  <2>5. cursor' \in [Schedulers -> IngressIds' \cup {0}]
    BY <1>4 DEF EngineInv, TypeOK
  <2> QED
    BY <1>3, <2>1, <2>3, <2>4, <2>5 DEF EngineInv, TypeOK, Batches
<1>7. TermsHaveEpochs' /\ SavedUnderFence'
  BY DEF EngineInv, TermsHaveEpochs, SavedUnderFence, brokerVars
<1>8. ASSUME NEW id \in 1 .. n, Disposed(id) PROVE Disposed(id)'
  BY <1>3, <1>8 DEF Disposed, KnownTask, brokerVars
<1>9. BatchesSound'
  <2>1. ASSUME NEW s \in Schedulers, NEW l \in Loops
        PROVE  /\ \A id \in batch[s][l].acks : Disposed(id)'
               /\ \A id \in batch[s][l].todo : ingress'[id] \in Tasks
    <3>1. batch[s][l] \in Batches
      BY <1>5
    <3>2. batch[s][l].acks \subseteq 1 .. n /\ batch[s][l].todo \subseteq 1 .. n
      BY <1>4, <3>1 DEF Batches
    <3> QED
      BY <1>3, <1>8, <3>2 DEF EngineInv, BatchesSound
  <2> QED
    BY <2>1 DEF BatchesSound
<1>10. SubmissionsKept'
  <2>1. ASSUME NEW id \in IngressIds', Settled(id)' PROVE Disposed(id)'
    <3>1. id \in 1 .. n /\ Settled(id)
      BY <1>2, <1>4, <2>1 DEF Settled
    <3> QED
      BY <1>4, <1>8, <3>1 DEF EngineInv, SubmissionsKept, Disposed
  <2> QED
    BY <2>1 DEF SubmissionsKept, Disposed
<1> QED
  BY <1>1, <1>6, <1>7, <1>9, <1>10 DEF EngineInv, KeyspaceStep

\* A step that leaves the ingress stream and its group alone settles nothing.
LEMMA GroupSame ==
  ASSUME TypeOK, SubmissionsKept, KnownKept, UNCHANGED ingressVars
  PROVE  SubmissionsKept'
<1>1. \A id \in IngressIds : Settled(id)' => Settled(id)
  BY DEF ingressVars, Settled
<1> QED
  BY <1>1, KeptByStep DEF ingressVars

\* A script that ran elsewhere: workers change the keyspace only.
LEMMA WorkerStepInv ==
  ASSUME EngineInv, KeyspaceStep, fence' = fence,
         UNCHANGED <<termVars, ingressVars, policyVars, loopVars>>
  PROVE  EngineInv'
<1> USE DEF termVars, ingressVars, policyVars, loopVars
<1>1. BatchesSound' /\ batch' \in [Schedulers -> [Loops -> Batches']]
  BY BatchesSame DEF EngineInv, KeyspaceStep
<1>2. SubmissionsKept'
  BY GroupSame DEF EngineInv, KeyspaceStep
<1>3. TypeOK'
  BY <1>1 DEF EngineInv, TypeOK, KeyspaceStep, BrokerInv, Batches, IngressIds
<1>4. TermsHaveEpochs' /\ SavedUnderFence'
  BY DEF EngineInv, TermsHaveEpochs, SavedUnderFence
<1> QED
  BY <1>1, <1>2, <1>3, <1>4 DEF EngineInv, KeyspaceStep

LEMMA WorkerReadsInv ==
  ASSUME EngineInv, WorkerReads
  PROVE  EngineInv'
<1>1. BrokerInv'
  BY DeliverNextInv DEF EngineInv, WorkerReads
<1>2. FirstAttempts' /\ KnownKept /\ fence' = fence
  BY DEF EngineInv, WorkerReads, FirstAttempts, KnownKept, KnownTask, DeliveryIds, taskVars
<1> QED
  BY <1>1, <1>2, WorkerStepInv DEF KeyspaceStep, WorkerReads

LEMMA WorkerSettlesInv ==
  ASSUME EngineInv, NEW id \in execPel, WorkerSettles(id)
  PROVE  EngineInv'
BY CompleteEffect, WorkerStepInv DEF EngineInv, WorkerSettles

-----------------------------------------------------------------------------
(***************************************************************************)
(* Terms.                                                                   *)
(***************************************************************************)
LEMMA BeginTermInv ==
  ASSUME EngineInv, NEW s \in Schedulers, BeginTerm(s)
  PROVE  EngineInv'
<1> USE DEF BeginTerm, ingressVars, loopVars
<1>1. KeyspaceStep
  BY KeyspaceSame DEF EngineInv
<1>2. BatchesSound' /\ batch' \in [Schedulers -> [Loops -> Batches']]
  BY <1>1, BatchesSame DEF EngineInv, KeyspaceStep
<1>3. SubmissionsKept'
  BY <1>1, GroupSame DEF EngineInv, KeyspaceStep
<1>4. counter \in 0 .. MaxEpoch /\ counter' \in 1 .. MaxEpoch
  BY DEF EngineInv, TypeOK
<1>5. schedState.clock \in 0 .. MaxTag
  BY DEF EngineInv, TypeOK
<1>6. clock' \in [Schedulers -> 0 .. MaxTag]
  BY <1>5 DEF EngineInv, TypeOK, RestoredClock
<1>7. TypeOK'
  <2>1. /\ term' \in [Schedulers -> 0 .. MaxEpoch] /\ counter' \in 0 .. MaxEpoch
        /\ pc' \in [Schedulers -> {"out", "serving", "ending"}]
    BY <1>4 DEF EngineInv, TypeOK
  <2>2. \A r \in Schedulers : pc'[r] = "out" <=> term'[r] = NoEpoch
    BY <1>4 DEF EngineInv, TypeOK, NoEpoch
  <2> QED
    BY <1>1, <1>2, <1>6, <2>1, <2>2 DEF EngineInv, TypeOK, KeyspaceStep, BrokerInv, Batches, IngressIds
<1>8. TermsHaveEpochs'
  BY <1>4 DEF EngineInv, TypeOK, TermsHaveEpochs
<1>9. SavedUnderFence'
  BY DEF EngineInv, SavedUnderFence, brokerVars
<1> QED
  BY <1>1, <1>2, <1>3, <1>7, <1>8, <1>9 DEF EngineInv, KeyspaceStep

LEMMA LeaveTermInv ==
  ASSUME EngineInv, NEW s \in Schedulers, LeaveTerm(s),
         clock' \in [Schedulers -> 0 .. MaxTag],
         UNCHANGED <<brokerVars, ingressVars, schedState>>
  PROVE  EngineInv'
<1> USE DEF LeaveTerm, ingressVars
<1>1. KeyspaceStep
  BY KeyspaceSame DEF EngineInv
<1>2. BatchesSound' /\ batch' \in [Schedulers -> [Loops -> Batches']]
  BY <1>1, BatchesDropped DEF EngineInv, KeyspaceStep
<1>3. SubmissionsKept'
  BY <1>1, GroupSame DEF EngineInv, KeyspaceStep
<1>4. cursor' \in [Schedulers -> IngressIds' \cup {0}]
  BY DEF EngineInv, TypeOK, IngressIds
<1>5. TypeOK'
  BY <1>1, <1>2, <1>4 DEF EngineInv, TypeOK, KeyspaceStep, BrokerInv, Batches, IngressIds, NoEpoch
<1>6. TermsHaveEpochs'
  BY DEF EngineInv, TypeOK, TermsHaveEpochs
<1>7. SavedUnderFence'
  BY DEF EngineInv, SavedUnderFence, brokerVars
<1> QED
  BY <1>1, <1>2, <1>3, <1>5, <1>6, <1>7 DEF EngineInv, KeyspaceStep

LEMMA EndTermInv ==
  ASSUME EngineInv, NEW s \in Schedulers, EndTerm(s) \/ Crash(s)
  PROVE  EngineInv'
<1>1. clock' \in [Schedulers -> 0 .. MaxTag]
  <2>1. clock \in [Schedulers -> 0 .. MaxTag] /\ 0 \in 0 .. MaxTag
    BY DEF EngineInv, TypeOK
  <2>2. clock' = clock \/ clock' = [clock EXCEPT ![s] = 0]
    BY DEF EndTerm, Crash, policyVars
  <2> QED
    BY <2>1, <2>2
<1> QED
  BY <1>1, LeaveTermInv DEF EndTerm, Crash, policyVars

\* A term in which a replica serves, or has been told to end, goes on or is told
\* to end; its batches may change.
LEMMA EndingInv ==
  ASSUME EngineInv, NEW s \in Schedulers, Leading(s),
         pc' = [pc EXCEPT ![s] = "ending"],
         BatchesSound', batch' \in [Schedulers -> [Loops -> Batches']],
         UNCHANGED <<brokerVars, counter, term, ingressVars, policyVars, cursor>>
  PROVE  EngineInv'
<1> USE DEF ingressVars, policyVars
<1>1. KeyspaceStep
  BY KeyspaceSame DEF EngineInv
<1>2. SubmissionsKept'
  BY <1>1, GroupSame DEF EngineInv, KeyspaceStep
<1>3. TypeOK'
  <2>1. \A r \in Schedulers : pc'[r] = "out" <=> term'[r] = NoEpoch
    BY DEF EngineInv, TypeOK, Leading
  <2> QED
    BY <1>1, <2>1 DEF EngineInv, TypeOK, KeyspaceStep, BrokerInv, Batches, IngressIds
<1>4. TermsHaveEpochs'
  BY DEF EngineInv, TypeOK, TermsHaveEpochs, Leading
<1>5. SavedUnderFence'
  BY DEF EngineInv, SavedUnderFence, brokerVars
<1> QED
  BY <1>1, <1>2, <1>3, <1>4, <1>5 DEF EngineInv, KeyspaceStep

LEMMA TermCancelledInv ==
  ASSUME EngineInv, NEW s \in Schedulers, TermCancelled(s) \/ LoopRefused(s)
  PROVE  EngineInv'
<1>1. /\ Leading(s) /\ pc' = [pc EXCEPT ![s] = "ending"]
      /\ UNCHANGED <<brokerVars, counter, term, ingressVars, policyVars, batch, cursor>>
  BY DEF TermCancelled, LoopRefused, FencedOut, Leading, loopVars
<1>2. KnownKept
  BY <1>1, KeyspaceSame DEF EngineInv, KeyspaceStep
<1>3. BatchesSound' /\ batch' \in [Schedulers -> [Loops -> Batches']]
  BY <1>1, <1>2, BatchesSame DEF EngineInv, ingressVars
<1> QED
  BY <1>1, <1>3, EndingInv

-----------------------------------------------------------------------------
(***************************************************************************)
(* The ingest loop and the reclaim loop.                                    *)
(***************************************************************************)
\* What a loop step preserves when it leaves keyspace, terms and policy alone
\* and keeps the group and the batches in order.
LEMMA LoopStepInv ==
  ASSUME EngineInv, UNCHANGED <<brokerVars, termVars, ingress, policyVars>>,
         ingressRead' \in 0 .. Len(ingress), ingressPel' \subseteq 1 .. ingressRead',
         BatchesSound', batch' \in [Schedulers -> [Loops -> Batches']],
         cursor' \in [Schedulers -> IngressIds \cup {0}],
         \A id \in IngressIds : Settled(id)' => Settled(id) \/ Disposed(id)
  PROVE  EngineInv'
<1> USE DEF termVars, policyVars
<1>1. KeyspaceStep
  BY KeyspaceSame DEF EngineInv
<1>2. SubmissionsKept'
  BY <1>1, KeptByStep DEF EngineInv, KeyspaceStep
<1>3. TypeOK'
  BY <1>1 DEF EngineInv, TypeOK, KeyspaceStep, BrokerInv, Batches, IngressIds
<1>4. TermsHaveEpochs' /\ SavedUnderFence'
  BY DEF EngineInv, TermsHaveEpochs, SavedUnderFence, brokerVars
<1> QED
  BY <1>1, <1>2, <1>3, <1>4 DEF EngineInv, KeyspaceStep

\* A read moves the last-delivered ID over the entries it offers.
LEMMA ReadGroup ==
  ASSUME EngineInv, Deliver(Unread), NEW kept, Unread \ Garbage(Unread) \subseteq kept,
         kept \subseteq Unread, ingressPel' = ingressPel \cup kept, UNCHANGED ingress
  PROVE  /\ ingressRead' \in 0 .. Len(ingress)
         /\ ingressPel' \subseteq 1 .. ingressRead'
         /\ \A id \in IngressIds : Settled(id)' => Settled(id) \/ Disposed(id)
<1> DEFINE k == Cardinality(Unread)
<1>1. /\ Unread \subseteq IngressIds /\ ingressRead + k \in 0 .. Len(ingress)
      /\ Unread = ingressRead + 1 .. ingressRead + k
  BY UnreadIsNext DEF EngineInv
<1>2. ingressRead' = ingressRead + k
  BY DEF Deliver
<1> HIDE DEF k
<1>3. /\ Len(ingress) \in Nat /\ ingressRead \in 0 .. Len(ingress)
      /\ ingressPel \subseteq 1 .. ingressRead
  BY DEF EngineInv, TypeOK
<1>4. k \in Nat
  <2>1. IsFiniteSet(Unread)
    <3>1. IsFiniteSet(IngressIds)
      BY <1>3, FS_Interval DEF IngressIds
    <3> QED
      BY <1>1, <3>1, FS_Subset
  <2> QED
    BY <2>1, FS_CardinalityType DEF k
<1>5. ingressPel' \subseteq 1 .. ingressRead'
  <2>1. ASSUME NEW id \in ingressPel' PROVE id \in 1 .. ingressRead'
    <3>1. CASE id \in ingressPel
      BY <1>2, <1>3, <1>4, <3>1
    <3>2. CASE id \in Unread
      BY <1>1, <1>2, <1>3, <1>4, <3>2
    <3> QED
      BY <2>1, <3>1, <3>2
  <2> QED
    BY <2>1
<1>6. ASSUME NEW id \in IngressIds, Settled(id)' PROVE Settled(id) \/ Disposed(id)
  <2>1. id \in Nat /\ id <= ingressRead + k /\ id \notin ingressPel /\ id \notin kept
    BY <1>2, <1>6 DEF Settled, IngressIds
  <2>2. CASE id <= ingressRead
    BY <2>1, <2>2 DEF Settled
  <2>3. CASE id > ingressRead
    <3>1. id \in Unread
      BY <1>1, <1>3, <1>4, <2>1, <2>3
    <3>2. ingress[id] \in Malformed
      BY <2>1, <3>1 DEF Garbage
    <3> QED
      BY <3>2 DEF Disposed
  <2> QED
    BY <1>3, <2>1, <2>2, <2>3
<1> QED
  BY <1>1, <1>2, <1>5, <1>6

\* Entries that parse are tasks.
LEMMA ParsedIsTask ==
  ASSUME TypeOK, NEW ids \in SUBSET IngressIds
  PROVE  \A id \in ids \ Garbage(ids) : ingress[id] \in Tasks
BY DEF TypeOK, IngressIds, Garbage

\* A loop takes up a batch.
LEMMA BatchStarted ==
  ASSUME EngineInv, KnownKept, UNCHANGED ingress, NEW s \in Schedulers, NEW l \in Loops,
         NEW ids \in SUBSET IngressIds, \A id \in ids : ingress[id] \in Tasks,
         StartBatch(s, l, ids)
  PROVE  BatchesSound' /\ batch' \in [Schedulers -> [Loops -> Batches']]
<1> DEFINE b == [todo |-> ids, acks |-> {}, checked |-> FALSE]
<1>1. b \in Batches /\ b.acks = {} /\ b.todo = ids
  BY DEF Batches
<1>2. batch' = [batch EXCEPT ![s][l] = b]
  BY DEF StartBatch
<1> HIDE DEF b
<1> QED
  BY <1>1, <1>2, BatchUpdated DEF EngineInv

LEMMA ReadInv ==
  ASSUME EngineInv, NEW s \in Schedulers,
         ReadIngress(s) \/ ReadGarbage(s) \/ ReadIngressLost(s)
  PROVE  EngineInv'
<1>1. /\ UNCHANGED <<brokerVars, termVars, ingress, policyVars, cursor>>
      /\ Deliver(Unread)
  BY DEF ReadIngress, ReadGarbage, ReadIngressLost, loopVars
<1>2. KnownKept
  BY <1>1, KeyspaceSame DEF EngineInv, KeyspaceStep
<1>3. Unread \in SUBSET IngressIds
  BY UnreadIsNext DEF EngineInv
<1>4. PICK kept : /\ Unread \ Garbage(Unread) \subseteq kept /\ kept \subseteq Unread
                  /\ ingressPel' = ingressPel \cup kept
  <2>1. CASE ReadGarbage(s)
    <3>1. Garbage(Unread) \in SUBSET Nat /\ Garbage(Unread) # {}
      BY <1>3, <2>1 DEF Garbage, IngressIds, ReadGarbage
    <3>2. Least(Garbage(Unread)) \in Garbage(Unread)
      BY <3>1, LeastMember
    <3> QED
      BY <2>1, <3>2 DEF ReadGarbage
  <2>2. CASE ReadIngress(s) \/ ReadIngressLost(s)
    BY <2>2 DEF ReadIngress, ReadIngressLost
  <2> QED
    BY <2>1, <2>2
<1>5. /\ ingressRead' \in 0 .. Len(ingress)
      /\ ingressPel' \subseteq 1 .. ingressRead'
      /\ \A id \in IngressIds : Settled(id)' => Settled(id) \/ Disposed(id)
  BY <1>1, <1>4, ReadGroup
<1>6. BatchesSound' /\ batch' \in [Schedulers -> [Loops -> Batches']]
  <2>1. CASE ReadIngress(s)
    <3>1. StartBatch(s, "ingest", Unread) /\ Garbage(Unread) = {} /\ "ingest" \in Loops
      BY <2>1 DEF ReadIngress, Loops
    <3>2. \A id \in Unread : ingress[id] \in Tasks
      BY <1>3, <3>1, ParsedIsTask DEF EngineInv
    <3> QED
      BY <1>1, <1>2, <1>3, <3>1, <3>2, BatchStarted
  <2>2. CASE ReadGarbage(s) \/ ReadIngressLost(s)
    <3>1. UNCHANGED <<ingress, batch>>
      BY <2>2 DEF ReadGarbage, ReadIngressLost, loopVars
    <3> QED
      BY <1>2, <3>1, BatchesSame DEF EngineInv
  <2> QED
    BY <2>1, <2>2
<1>7. cursor' \in [Schedulers -> IngressIds \cup {0}]
  BY <1>1 DEF EngineInv, TypeOK
<1> QED
  BY <1>1, <1>5, <1>6, <1>7, LoopStepInv

LEMMA ReclaimInv ==
  ASSUME EngineInv, NEW s \in Schedulers, NEW page \in Pages(s), ReclaimIngress(s, page)
  PROVE  EngineInv'
<1>1. /\ UNCHANGED <<brokerVars, termVars, ingress, ingressRead, policyVars>>
      /\ cursor' = [cursor EXCEPT ![s] = CursorAfter(s, page)]
      /\ StartBatch(s, "reclaim", page \ Garbage(page)) /\ "reclaim" \in Loops
  BY DEF ReclaimIngress, Loops
<1>2. KnownKept
  BY <1>1, KeyspaceSame DEF EngineInv, KeyspaceStep
<1>3. /\ ingressPel \subseteq 1 .. ingressRead /\ ingressRead \in 0 .. Len(ingress)
      /\ Len(ingress) \in Nat /\ cursor \in [Schedulers -> IngressIds \cup {0}]
  BY DEF EngineInv, TypeOK
<1>4. ingressPel \subseteq IngressIds
  BY <1>3 DEF IngressIds
<1>5. page \in SUBSET IngressIds
  BY <1>4 DEF Pages, ClaimPage, Scanned
<1>6. PICK acked \in SUBSET Garbage(page) : ingressPel' = ingressPel \ acked
  BY DEF ReclaimIngress, ReclaimDrops
<1>7. \A id \in page \ Garbage(page) : ingress[id] \in Tasks
  BY <1>5, ParsedIsTask DEF EngineInv
<1>8. BatchesSound' /\ batch' \in [Schedulers -> [Loops -> Batches']]
  BY <1>1, <1>2, <1>5, <1>7, BatchStarted
<1>9. CursorAfter(s, page) \in IngressIds \cup {0}
  <2> DEFINE rest == Unscanned(ingressPel, page)
  <2>0. rest \subseteq ingressPel
    BY Zenon DEF Unscanned
  <2> HIDE DEF rest
  <2>1. rest \subseteq IngressIds /\ rest \in SUBSET Nat
    BY <1>4, <2>0 DEF IngressIds
  <2>2. rest # {} => Least(rest) \in rest
    BY <2>1, LeastMember
  <2> QED
    BY <2>1, <2>2 DEF CursorAfter, NextCursor, rest
<1>10. cursor' \in [Schedulers -> IngressIds \cup {0}]
  BY <1>1, <1>3, <1>9
<1>11. \A id \in IngressIds : Settled(id)' => Settled(id) \/ Disposed(id)
  BY <1>1, <1>6 DEF Settled, Disposed, Garbage
<1> QED
  BY <1>1, <1>3, <1>6, <1>8, <1>10, <1>11, LoopStepInv

-----------------------------------------------------------------------------
(***************************************************************************)
(* admitBatch.                                                              *)
(***************************************************************************)
LEMMA BatchType ==
  ASSUME EngineInv, NEW s \in Schedulers, NEW l \in Loops
  PROVE  /\ batch \in [Schedulers -> [Loops -> Batches]]
         /\ batch[s][l] \in Batches
         /\ batch[s][l].todo \subseteq IngressIds /\ batch[s][l].acks \subseteq IngressIds
         /\ batch[s][l].checked \in BOOLEAN
         /\ \A id \in batch[s][l].acks : Disposed(id)
         /\ \A id \in batch[s][l].todo : ingress[id] \in Tasks
<1>1. batch \in [Schedulers -> [Loops -> Batches]]
  BY DEF EngineInv, TypeOK, Batches
<1>2. batch[s][l] \in Batches
  BY <1>1
<1> QED
  BY <1>1, <1>2 DEF Batches, EngineInv, BatchesSound

\* The entry id of a batch moves from the work to the acknowledgements.
LEMMA AnsweredBatch ==
  ASSUME EngineInv, KnownKept, UNCHANGED ingress, NEW s \in Schedulers, NEW l \in Loops,
         NEW id \in batch[s][l].todo, Disposed(id) \/ Disposed(id)',
         batch' = [batch EXCEPT ![s][l] = Answered(s, l, id)]
  PROVE  BatchesSound' /\ batch' \in [Schedulers -> [Loops -> Batches']]
<1> DEFINE b == Answered(s, l, id)
<1>1. b \in Batches /\ b.todo = batch[s][l].todo \ {id} /\ b.acks = batch[s][l].acks \cup {id}
  BY BatchType DEF Answered, Batches
<1>2. batch' = [batch EXCEPT ![s][l] = b]
  OBVIOUS
<1> HIDE DEF b
<1>3. /\ \A i \in b.acks : Disposed(i) \/ Disposed(i)'
      /\ \A i \in b.todo : ingress[i] \in Tasks
  BY <1>1, BatchType
<1> QED
  BY <1>1, <1>2, <1>3, BatchUpdated DEF EngineInv

LEMMA GivenUpBatch ==
  ASSUME EngineInv, KnownKept, UNCHANGED ingress, NEW s \in Schedulers, NEW l \in Loops,
         \/ batch' = [batch EXCEPT ![s][l] = GivenUp(s, l)]
         \/ batch' = [batch EXCEPT ![s][l] = Idle]
  PROVE  BatchesSound' /\ batch' \in [Schedulers -> [Loops -> Batches']]
<1> DEFINE g == GivenUp(s, l)
<1>1. g \in Batches /\ g.todo = {} /\ g.acks = batch[s][l].acks
  BY BatchType DEF GivenUp, Batches
<1>2. Idle \in Batches /\ Idle.todo = {} /\ Idle.acks = {}
  BY DEF Idle, Batches
<1>3. CASE batch' = [batch EXCEPT ![s][l] = g]
  <2> HIDE DEF g
  <2>1. \A i \in g.acks : Disposed(i) \/ Disposed(i)'
    BY <1>1, BatchType
  <2> QED
    BY <1>1, <1>3, <2>1, BatchUpdated DEF EngineInv
<1>4. CASE batch' = [batch EXCEPT ![s][l] = Idle]
  BY <1>2, <1>4, BatchUpdated DEF EngineInv
<1> QED
  BY <1>3, <1>4

\* The steps of admitBatch that run no script.
LEMMA BatchStepInv ==
  ASSUME EngineInv, UNCHANGED <<brokerVars, termVars, ingressVars, policyVars, cursor>>,
         BatchesSound', batch' \in [Schedulers -> [Loops -> Batches']]
  PROVE  EngineInv'
<1>1. /\ ingressRead' \in 0 .. Len(ingress) /\ ingressPel' \subseteq 1 .. ingressRead'
      /\ cursor' \in [Schedulers -> IngressIds \cup {0}]
  BY DEF EngineInv, TypeOK, ingressVars
<1>2. \A id \in IngressIds : Settled(id)' => Settled(id) \/ Disposed(id)
  BY DEF ingressVars, Settled
<1> QED
  BY <1>1, <1>2, LoopStepInv DEF ingressVars

LEMMA CheckKnownInv ==
  ASSUME EngineInv, NEW s \in Schedulers, NEW l \in Loops, CheckKnown(s, l)
  PROVE  EngineInv'
<1>1. UNCHANGED <<brokerVars, termVars, ingressVars, policyVars, cursor>>
  BY DEF CheckKnown
<1>2. KnownKept
  BY <1>1, KeyspaceSame DEF EngineInv, KeyspaceStep
<1>3. PICK known \in {{}, {id \in batch[s][l].todo : KnownTask(ingress[id])}} :
        batch' = [batch EXCEPT ![s][l] =
                    [todo |-> @.todo \ known, acks |-> known, checked |-> TRUE]]
  BY DEF CheckKnown
<1> DEFINE b == [todo |-> batch[s][l].todo \ known, acks |-> known, checked |-> TRUE]
<1>4. known \subseteq batch[s][l].todo /\ \A id \in known : Disposed(id)
  BY DEF Disposed
<1>5. b \in Batches /\ b.todo \subseteq batch[s][l].todo /\ b.acks = known
  BY <1>4, BatchType DEF Batches
<1>6. batch' = [batch EXCEPT ![s][l] = b]
  BY <1>3, BatchType
<1> HIDE DEF b
<1>7. BatchesSound' /\ batch' \in [Schedulers -> [Loops -> Batches']]
  <2>1. /\ \A id \in b.acks : Disposed(id) \/ Disposed(id)'
        /\ \A id \in b.todo : ingress[id] \in Tasks
    BY <1>4, <1>5, BatchType
  <2> QED
    BY <1>1, <1>2, <1>5, <1>6, <2>1, BatchUpdated DEF EngineInv, ingressVars
<1> QED
  BY <1>1, <1>7, BatchStepInv

LEMMA RejectInvalidInv ==
  ASSUME EngineInv, NEW s \in Schedulers, NEW l \in Loops, RejectInvalid(s, l)
  PROVE  EngineInv'
<1>1. UNCHANGED <<brokerVars, termVars, ingressVars, policyVars, cursor>>
  BY DEF RejectInvalid
<1>2. KnownKept
  BY <1>1, KeyspaceSame DEF EngineInv, KeyspaceStep
<1>3. PICK id \in batch[s][l].todo :
        /\ ingress[id] \in Invalid
        /\ batch' = [batch EXCEPT ![s][l] = Answered(s, l, id)]
  BY DEF RejectInvalid
<1>4. Disposed(id)
  BY <1>3 DEF Disposed
<1>5. BatchesSound' /\ batch' \in [Schedulers -> [Loops -> Batches']]
  BY <1>1, <1>2, <1>3, <1>4, AnsweredBatch DEF ingressVars
<1> QED
  BY <1>1, <1>5, BatchStepInv

LEMMA AdmitFailsInv ==
  ASSUME EngineInv, NEW s \in Schedulers, NEW l \in Loops, AdmitFails(s, l)
  PROVE  EngineInv'
<1>1. UNCHANGED <<brokerVars, termVars, ingressVars, policyVars, cursor>>
  BY DEF AdmitFails
<1>2. KnownKept
  BY <1>1, KeyspaceSame DEF EngineInv, KeyspaceStep
<1>3. BatchesSound' /\ batch' \in [Schedulers -> [Loops -> Batches']]
  BY <1>1, <1>2, GivenUpBatch DEF AdmitFails, ingressVars
<1> QED
  BY <1>1, <1>3, BatchStepInv

LEMMA AdmitRefusedInv ==
  ASSUME EngineInv, NEW s \in Schedulers, NEW l \in Loops, AdmitRefused(s, l)
  PROVE  EngineInv'
<1>1. /\ Leading(s) /\ pc' = [pc EXCEPT ![s] = "ending"]
      /\ UNCHANGED <<brokerVars, counter, term, ingressVars, policyVars, cursor>>
  BY DEF AdmitRefused, FencedOut
<1>2. KnownKept
  BY <1>1, KeyspaceSame DEF EngineInv, KeyspaceStep
<1>3. BatchesSound' /\ batch' \in [Schedulers -> [Loops -> Batches']]
  BY <1>1, <1>2, GivenUpBatch DEF AdmitRefused, ingressVars
<1> QED
  BY <1>1, <1>3, EndingInv

\* The acknowledgement: every entry it removes had been dealt with.
LEMMA AckBatchInv ==
  ASSUME EngineInv, NEW s \in Schedulers, NEW l \in Loops, AckBatch(s, l)
  PROVE  EngineInv'
<1>1. /\ UNCHANGED <<brokerVars, termVars, ingress, ingressRead, policyVars, cursor>>
      /\ batch' = [batch EXCEPT ![s][l] = Idle]
      /\ ingressPel' = ingressPel \ batch[s][l].acks \/ UNCHANGED ingressPel
  BY DEF AckBatch
<1>2. KnownKept
  BY <1>1, KeyspaceSame DEF EngineInv, KeyspaceStep
<1>3. BatchesSound' /\ batch' \in [Schedulers -> [Loops -> Batches']]
  BY <1>1, <1>2, GivenUpBatch
<1>4. /\ ingressRead' \in 0 .. Len(ingress) /\ ingressPel' \subseteq 1 .. ingressRead'
      /\ cursor' \in [Schedulers -> IngressIds \cup {0}]
  BY <1>1 DEF EngineInv, TypeOK
<1>5. \A id \in IngressIds : Settled(id)' => Settled(id) \/ Disposed(id)
  BY <1>1, BatchType DEF Settled
<1> QED
  BY <1>1, <1>3, <1>4, <1>5, LoopStepInv

-----------------------------------------------------------------------------
(***************************************************************************)
(* The scripts of a term.                                                   *)
(***************************************************************************)
\* A replica whose script runs has an epoch that no newer term has passed.
LEMMA AcceptedEpoch ==
  ASSUME EngineInv, NEW s \in Schedulers, Accepted(s)
  PROVE  /\ term[s] \in Nat \ {0} /\ term[s] \in 0 .. MaxEpoch /\ ~Fenced(term[s])
         /\ BrokerInv /\ FirstAttempts
<1>1. term[s] \in 0 .. MaxEpoch /\ term[s] > 0
  BY DEF EngineInv, TypeOK, TermsHaveEpochs, Accepted, Leading
<1> QED
  BY <1>1 DEF Accepted, EngineInv

LEMMA AdmitInv ==
  ASSUME EngineInv, NEW s \in Schedulers, NEW l \in Loops, Admit(s, l)
  PROVE  EngineInv'
<1> USE DEF termVars, policyVars, ingressVars
<1>1. Accepted(s) /\ UNCHANGED <<termVars, ingressVars, policyVars, cursor>>
  BY DEF Admit
<1>2. PICK id \in batch[s][l].todo :
        /\ AdmitScript(ingress[id], term[s])
        /\ \/ batch' = [batch EXCEPT ![s][l] = Answered(s, l, id)]
           \/ batch' = [batch EXCEPT ![s][l] = GivenUp(s, l)]
           \/ batch' = [batch EXCEPT ![s][l] = Idle]
  BY DEF Admit
<1>3. ingress[id] \in Tasks
  BY BatchType
<1>4. /\ KeyspaceStep /\ KnownTask(ingress[id])'
      /\ fence' = term[s] /\ fence <= term[s]
  BY <1>1, <1>2, <1>3, AcceptedEpoch, AdmitEffect
<1>5. Disposed(id)'
  BY <1>1, <1>4 DEF Disposed, KnownTask
<1>6. BatchesSound' /\ batch' \in [Schedulers -> [Loops -> Batches']]
  BY <1>1, <1>2, <1>4, <1>5, AnsweredBatch, GivenUpBatch DEF KeyspaceStep
<1>7. SubmissionsKept'
  BY <1>1, <1>4, GroupSame DEF EngineInv, KeyspaceStep
<1>8. TypeOK'
  BY <1>1, <1>4, <1>6 DEF EngineInv, TypeOK, KeyspaceStep, BrokerInv, Batches, IngressIds
<1>9. TermsHaveEpochs'
  BY <1>1 DEF EngineInv, TermsHaveEpochs
<1>10. SavedUnderFence'
  <2>1. schedState.epoch \in Nat /\ fence \in Nat /\ term[s] \in Nat /\ schedState.epoch <= fence
    BY <1>1, AcceptedEpoch DEF EngineInv, TypeOK, BrokerTypeOK, SavedUnderFence
  <2> QED
    BY <1>1, <1>4, <2>1 DEF SavedUnderFence
<1> QED
  BY <1>4, <1>6, <1>7, <1>8, <1>9, <1>10 DEF EngineInv, KeyspaceStep

LEMMA DispatchInv ==
  ASSUME EngineInv, NEW s \in Schedulers, Dispatch(s)
  PROVE  EngineInv'
<1> USE DEF termVars, loopVars, ingressVars
<1>1. Accepted(s) /\ UNCHANGED <<termVars, ingressVars, schedState, loopVars>>
  BY DEF Dispatch
<1>2. KeyspaceStep /\ fence' = term[s] /\ fence <= term[s]
  BY <1>1, AcceptedEpoch, DispatchEffect DEF Dispatch
<1>3. BatchesSound' /\ batch' \in [Schedulers -> [Loops -> Batches']]
  BY <1>1, <1>2, BatchesSame DEF EngineInv, KeyspaceStep
<1>4. SubmissionsKept'
  BY <1>1, <1>2, GroupSame DEF EngineInv, KeyspaceStep
<1>5. clock' \in [Schedulers -> 0 .. MaxTag]
  <2>1. clock \in [Schedulers -> 0 .. MaxTag]
    BY DEF EngineInv, TypeOK
  <2>2. clock' = clock \/ clock' \in Notified(s)
    BY DEF Dispatch
  <2>3. ASSUME NEW tag \in clock[s] .. MaxTag, clock' = [clock EXCEPT ![s] = tag]
        PROVE  clock' \in [Schedulers -> 0 .. MaxTag]
    <3>1. tag \in 0 .. MaxTag
      BY <2>1
    <3> QED
      BY <2>1, <2>3, <3>1
  <2> QED
    BY <2>1, <2>2, <2>3 DEF Notified
<1>6. TypeOK'
  BY <1>1, <1>2, <1>3, <1>5 DEF EngineInv, TypeOK, KeyspaceStep, BrokerInv, Batches, IngressIds
<1>7. TermsHaveEpochs'
  BY <1>1 DEF EngineInv, TermsHaveEpochs
<1>8. SavedUnderFence'
  <2>1. schedState.epoch \in Nat /\ fence \in Nat /\ term[s] \in Nat /\ schedState.epoch <= fence
    BY <1>1, AcceptedEpoch DEF EngineInv, TypeOK, BrokerTypeOK, SavedUnderFence
  <2> QED
    BY <1>1, <1>2, <2>1 DEF SavedUnderFence
<1> QED
  BY <1>2, <1>3, <1>4, <1>6, <1>7, <1>8 DEF EngineInv, KeyspaceStep

\* The state of a term that the fence lets through replaces the saved one.
LEMMA FlushStateInv ==
  ASSUME EngineInv, NEW s \in Schedulers, FlushState(s)
  PROVE  EngineInv' /\ fence' = term[s] /\ fence <= term[s]
<1> USE DEF termVars, loopVars, ingressVars
<1>1. /\ Accepted(s) /\ RaiseFence(term[s]) /\ schedState' = SavedState(s)
      /\ UNCHANGED <<taskVars, execVars, recordVars, termVars, ingressVars, clock, loopVars>>
  BY DEF FlushState
<1>2. fence' = term[s] /\ fence <= term[s] /\ fence' \in Nat
  BY <1>1, AcceptedEpoch, FenceRaised DEF BrokerInv, BrokerTypeOK
<1>3. KeyspaceStep
  <2>1. BrokerInv'
    BY <1>1, <1>2, FenceOnly DEF EngineInv
  <2>2. FirstAttempts' /\ KnownKept
    BY <1>1 DEF EngineInv, FirstAttempts, KnownKept, KnownTask, DeliveryIds, taskVars, execVars
  <2> QED
    BY <2>1, <2>2 DEF KeyspaceStep
<1>4. BatchesSound' /\ batch' \in [Schedulers -> [Loops -> Batches']]
  BY <1>1, <1>3, BatchesSame DEF EngineInv, KeyspaceStep
<1>5. SubmissionsKept'
  BY <1>1, <1>3, GroupSame DEF EngineInv, KeyspaceStep
<1>6. schedState' \in [epoch : 0 .. MaxEpoch, clock : 0 .. MaxTag] /\ schedState'.epoch = term[s]
  <2>1. term[s] \in 0 .. MaxEpoch /\ clock[s] \in 0 .. MaxTag
    BY DEF EngineInv, TypeOK
  <2> QED
    BY <1>1, <2>1 DEF SavedState
<1>7. TypeOK'
  BY <1>1, <1>3, <1>4, <1>6 DEF EngineInv, TypeOK, KeyspaceStep, BrokerInv, Batches, IngressIds
<1>8. TermsHaveEpochs' /\ SavedUnderFence'
  BY <1>1, <1>2, <1>6 DEF EngineInv, TermsHaveEpochs, SavedUnderFence
<1> QED
  BY <1>2, <1>3, <1>4, <1>5, <1>7, <1>8 DEF EngineInv, KeyspaceStep

-----------------------------------------------------------------------------
(***************************************************************************)
(* The invariant holds throughout.                                          *)
(***************************************************************************)
LEMMA EngineNextInv == EngineInv /\ [Next]_vars => EngineInv'
<1> SUFFICES ASSUME EngineInv, [Next]_vars PROVE EngineInv'
  OBVIOUS
<1>1. CASE UNCHANGED vars
  <2>1. KeyspaceStep /\ fence' = fence
    BY <1>1, KeyspaceSame DEF vars, EngineInv, brokerVars
  <2> QED
    BY <1>1, <2>1, WorkerStepInv DEF vars
<1>2. ASSUME NEW s \in Schedulers, NEW l \in Loops, LoopStep(s, l) PROVE EngineInv'
  BY <1>2, CheckKnownInv, RejectInvalidInv, AdmitInv, AdmitFailsInv, AdmitRefusedInv, AckBatchInv
     DEF LoopStep
<1>3. ASSUME NEW s \in Schedulers, SchedulerStep(s) PROVE EngineInv'
  BY <1>2, <1>3, BeginTermInv, TermCancelledInv, EndTermInv, ReadInv, ReclaimInv, DispatchInv,
     FlushStateInv DEF SchedulerStep
<1> QED
  BY <1>1, <1>3, SubmitInv, WorkerReadsInv, WorkerSettlesInv DEF Next

LEMMA EngineInvariant == Spec => []EngineInv
BY EngineInitInv, EngineNextInv, PTL DEF Spec

\* Every variable of the replicas, their streams and the keyspace has its type.
THEOREM EngineTypeCorrect == Spec => []TypeOK
<1>1. EngineInv => TypeOK
  BY DEF EngineInv
<1> QED
  BY <1>1, EngineInvariant, PTL

\* No accepted submission is dropped by the ingest and reclaim loops, whatever
\* crashes, is fenced or loses a reply in the middle of a batch.
THEOREM SubmissionsAreKept == Spec => []SubmissionsKept
<1>1. EngineInv => SubmissionsKept
  BY DEF EngineInv
<1> QED
  BY <1>1, EngineInvariant, PTL

\* With several replicas that admit and dispatch at once, late calls included,
\* the keyspace keeps every invariant of its scripts: no task is lost, none is
\* dispatched twice, the in-flight count is exact and within its cap.
THEOREM EngineKeepsKeyspace ==
  Spec => [](NoTaskLost /\ DispatchedOnce /\ InFlightExact /\ InFlightCapped)
<1>1. EngineInv => NoTaskLost /\ DispatchedOnce /\ InFlightExact /\ InFlightCapped
  BY DEF EngineInv, BrokerInv
<1> QED
  BY <1>1, EngineInvariant, PTL

-----------------------------------------------------------------------------
(***************************************************************************)
(* The saved policy state.                                                  *)
(***************************************************************************)
\* Only a flush touches the saved state.
LEMMA SavedByFlush ==
  ASSUME EngineInv, Next
  PROVE  \/ UNCHANGED schedState
         \/ \E s \in Schedulers : FlushState(s)
<1> USE DEF policyVars
<1>1. ASSUME NEW s \in Schedulers, NEW l \in Loops, LoopStep(s, l) PROVE UNCHANGED schedState
  BY <1>1 DEF LoopStep, CheckKnown, RejectInvalid, Admit, AdmitFails, AdmitRefused, AckBatch
<1>2. ASSUME NEW s \in Schedulers, SchedulerStep(s), ~FlushState(s) PROVE UNCHANGED schedState
  <2>1. CASE BeginTerm(s) \/ TermCancelled(s) \/ EndTerm(s) \/ Crash(s)
    BY <2>1 DEF BeginTerm, TermCancelled, EndTerm, Crash
  <2>2. CASE ReadIngress(s) \/ ReadGarbage(s) \/ ReadIngressLost(s)
             \/ \E page \in Pages(s) : ReclaimIngress(s, page)
    BY <2>2 DEF ReadIngress, ReadGarbage, ReadIngressLost, ReclaimIngress
  <2>3. CASE Dispatch(s) \/ LoopRefused(s)
    BY <2>3 DEF Dispatch, LoopRefused
  <2> QED
    BY <1>1, <1>2, <2>1, <2>2, <2>3 DEF SchedulerStep
<1>3. ASSUME NEW entry \in Tasks \cup Malformed, Submit(entry) PROVE UNCHANGED schedState
  BY <1>3 DEF Submit
<1>4. ASSUME WorkerReads \/ \E id \in execPel : WorkerSettles(id) PROVE UNCHANGED schedState
  BY <1>4 DEF WorkerReads, WorkerSettles
<1> QED
  BY <1>2, <1>3, <1>4 DEF Next

\* The saved policy state is never replaced by the state of an older term,
\* however late a flush of that term arrives.
THEOREM SavedTermsAdvance == Spec => SavedTermsNeverGoBack
<1>1. EngineInv /\ [Next]_vars => [schedState'.epoch >= schedState.epoch]_vars
  <2> SUFFICES ASSUME EngineInv, Next PROVE schedState'.epoch >= schedState.epoch
    OBVIOUS
  <2>1. schedState.epoch \in Nat /\ fence \in Nat /\ schedState.epoch <= fence
    BY DEF EngineInv, TypeOK, BrokerTypeOK, SavedUnderFence
  <2>2. CASE UNCHANGED schedState
    BY <2>1, <2>2
  <2>3. ASSUME NEW s \in Schedulers, FlushState(s) PROVE schedState'.epoch >= schedState.epoch
    <3>1. fence <= term[s]
      BY <2>3, FlushStateInv
    <3>2. schedState'.epoch = term[s] /\ term[s] \in Nat
      BY <2>3 DEF FlushState, SavedState, EngineInv, TypeOK
    <3> QED
      BY <2>1, <3>1, <3>2
  <2> QED
    BY <2>2, <2>3, SavedByFlush
<1> QED
  BY <1>1, EngineInvariant, PTL DEF Spec, SavedTermsNeverGoBack

-----------------------------------------------------------------------------
(***************************************************************************)
(* The dispatches as a log of module LeaderTerms.                           *)
(***************************************************************************)
\* A stream without two deliveries of one task is no longer than the set of
\* tasks.
LEMMA DeliveriesBounded ==
  ASSUME NEW e \in Seq(Entry),
         \A i, j \in 1 .. Len(e) : e[i].task = e[j].task => i = j
  PROVE  Len(e) <= Cardinality(Tasks)
<1> DEFINE n == Len(e)
           f == [i \in 1 .. n |-> e[i].task]
<1>1. n \in Nat
  OBVIOUS
<1>2. ASSUME NEW i \in 1 .. n PROVE e[i].task \in Tasks
  <2>1. e[i] \in Entry
    BY ElementOfSeq
  <2> QED
    BY <2>1 DEF Entry
<1>3. f \in [1 .. n -> Tasks]
  BY <1>2
<1>4. IsInjective(f)
  BY DEF IsInjective
<1>5. f \in Injection(1 .. n, Tasks)
  BY <1>3, <1>4 DEF Injection
<1>6. IsFiniteSet(Tasks)
  BY BrokerAssumption
<1> HIDE DEF n, f
<1>7. Cardinality(1 .. n) <= Cardinality(Tasks)
  BY <1>5, <1>6, FS_Injection, Zenon
<1>8. Cardinality(1 .. n) = n
  BY <1>1, FS_Interval
<1> QED
  BY <1>7, <1>8 DEF n

\* Every task is dispatched at most once, so that bounds the log.
LEMMA DispatchesBounded ==
  ASSUME EngineInv'
  PROVE  Len(exec') <= Cardinality(Tasks)
<1>1. exec' \in Seq(Entry)
  BY DEF EngineInv, TypeOK, BrokerTypeOK
<1>2. \A i, j \in 1 .. Len(exec') : exec'[i].task = exec'[j].task => i = j
  BY DEF EngineInv, FirstAttempts, BrokerInv, DispatchedOnce, DeliveryIds
<1> QED
  BY <1>1, <1>2, DeliveriesBounded

LEMMA LogAppended ==
  ASSUME EngineInv, EngineInv', NEW epoch \in Nat \ {0}, Appended(epoch)
  PROVE  \/ UNCHANGED DispatchLog
         \/ \E n \in 1 .. Cardinality(Tasks) - Len(DispatchLog) :
              DispatchLog' = DispatchLog \o [i \in 1 .. n |-> epoch]
<1> DEFINE m == Len(exec)
           n == Len(exec') - Len(exec)
           e == [i \in 1 .. n |-> epoch]
<1>1. /\ exec \in Seq(Entry) /\ m \in Nat /\ exec' \in Seq(Entry) /\ n \in Nat
      /\ Len(exec') = m + n
      /\ \A i \in 1 .. m : exec'[i] = exec[i]
      /\ \A i \in m + 1 .. m + n : exec'[i].epoch = epoch
  BY DEF EngineInv, TypeOK, BrokerTypeOK, Appended
<1>2. m + n <= Cardinality(Tasks)
  BY <1>1, DispatchesBounded
<1>3. Cardinality(Tasks) \in Nat
  BY BrokerAssumption, FS_CardinalityType
<1>4. DispatchLog = [i \in 1 .. m |-> exec[i].epoch] /\ DispatchLog' = [i \in 1 .. m + n |-> exec'[i].epoch]
  BY <1>1 DEF DispatchLog
<1>5. ASSUME NEW i \in 1 .. m PROVE exec[i].epoch \in Nat
  <2>1. exec[i] \in Entry
    BY <1>1, ElementOfSeq
  <2> QED
    BY <2>1 DEF Entry
<1>6. ASSUME NEW i \in 1 .. m + n PROVE exec'[i].epoch \in Nat
  <2>1. exec'[i] \in Entry
    BY <1>1, ElementOfSeq
  <2> QED
    BY <2>1 DEF Entry
<1> HIDE DEF m, n
<1>7. DispatchLog \in Seq(Nat) /\ Len(DispatchLog) = m
  BY <1>1, <1>4, <1>5
<1>8. e \in Seq(Nat) /\ Len(e) = n
  BY <1>1
<1>9. DispatchLog' \in Seq(Nat) /\ Len(DispatchLog') = m + n
  BY <1>1, <1>4, <1>6
<1>10. DispatchLog' = DispatchLog \o e
  <2> DEFINE d == DispatchLog
             c == d \o e
  <2>1. /\ c \in Seq(Nat) /\ Len(c) = Len(d) + Len(e)
        /\ \A i \in 1 .. Len(d) + Len(e) : c[i] = IF i <= Len(d) THEN d[i] ELSE e[i - Len(d)]
    <3> HIDE DEF d, e
    <3>1. d \in Seq(Nat) /\ e \in Seq(Nat)
      BY <1>7, <1>8 DEF d
    <3> QED
      BY <3>1, ConcatProperties, Zenon
  <2>2. Len(c) = m + n
    BY <1>7, <1>8, <2>1
  <2>3. ASSUME NEW i \in 1 .. m + n PROVE DispatchLog'[i] = c[i]
    <3>1. i \in Int /\ 1 <= i /\ i <= m + n /\ m \in Nat /\ n \in Nat
      BY <1>1
    <3>2. c[i] = IF i <= m THEN d[i] ELSE e[i - m]
      BY <1>7, <1>8, <2>1
    <3>3. CASE i <= m
      <4>1. i \in 1 .. m
        BY <3>1, <3>3
      <4> QED
        BY <1>1, <1>4, <3>2, <3>3, <4>1
    <3>4. CASE ~(i <= m)
      <4>1. i \in m + 1 .. m + n /\ i - m \in 1 .. n
        BY <3>1, <3>4
      <4>2. DispatchLog'[i] = epoch
        BY <1>1, <1>4, <4>1
      <4> QED
        BY <3>2, <3>4, <4>1, <4>2
    <3> QED
      BY <3>3, <3>4
  <2>4. c \in Seq(Nat)
    BY <2>1
  <2> HIDE DEF c
  <2>5. DispatchLog' = c
    BY <1>9, <2>2, <2>3, <2>4, SeqEqual
  <2> QED
    BY <2>5 DEF c
<1>11. CASE n = 0
  BY <1>1, <1>4, <1>11
<1>12. CASE n # 0
  <2>1. n \in 1 .. Cardinality(Tasks) - Len(DispatchLog)
    BY <1>1, <1>2, <1>3, <1>7, <1>12
  <2> QED
    BY <1>10, <2>1
<1> QED
  BY <1>11, <1>12

\* A script that the fence lets through and that dispatches nothing.
LEMMA SilentWrite ==
  ASSUME EngineInv, NEW s \in Schedulers, Accepted(s), fence' = term[s], fence <= term[s],
         UNCHANGED <<exec, counter, term>>
  PROVE  Terms!Write(s)
<1>1. term[s] \in Nat /\ term[s] # 0 /\ fence \in Nat
  BY AcceptedEpoch DEF BrokerInv, BrokerTypeOK
<1>2. UNCHANGED DispatchLog
  BY DEF DispatchLog
<1> QED
  BY <1>1, <1>2 DEF Terms!Write

\* Every step of the loops is a step of module LeaderTerms, or changes nothing
\* it speaks of.
LEMMA StepImplementsTerms ==
  EngineInv /\ EngineInv' /\ [Next]_vars => [Terms!Next]_(Terms!vars)
<1> SUFFICES ASSUME EngineInv, EngineInv', [Next]_vars
             PROVE  Terms!Next \/ UNCHANGED <<counter, fence, DispatchLog, term>>
  BY DEF Terms!vars
<1> DEFINE Stutter == UNCHANGED <<counter, fence, DispatchLog, term>>
<1> USE DEF brokerVars, taskVars, execVars, recordVars, termVars
<1>1. ASSUME UNCHANGED <<exec, counter, fence, term>> PROVE Stutter
  BY <1>1 DEF DispatchLog
<1>2. ASSUME UNCHANGED vars PROVE Stutter
  BY <1>1, <1>2 DEF vars
<1>3. ASSUME NEW entry \in Tasks \cup Malformed, Submit(entry) PROVE Stutter
  BY <1>1, <1>3 DEF Submit
<1>4. ASSUME WorkerReads PROVE Stutter
  BY <1>1, <1>4 DEF WorkerReads, DeliverNext
<1>5. ASSUME NEW id \in execPel, WorkerSettles(id) PROVE Stutter
  <2>1. UNCHANGED <<exec, fence>> /\ UNCHANGED termVars
    BY <1>5 DEF WorkerSettles, CompleteScript
  <2> QED
    BY <1>1, <2>1
<1>6. ASSUME NEW s \in Schedulers, BeginTerm(s) PROVE Terms!Begin(s)
  <2>1. term[s] = 0
    BY <1>6 DEF BeginTerm, EngineInv, TermsHaveEpochs, NoEpoch
  <2>2. UNCHANGED <<fence, DispatchLog>>
    BY <1>6 DEF BeginTerm, DispatchLog
  <2> QED
    BY <1>6, <2>1, <2>2 DEF BeginTerm, Terms!Begin
<1>7. ASSUME NEW s \in Schedulers, EndTerm(s) \/ Crash(s) PROVE Terms!End(s) \/ Stutter
  <2>1. /\ term' = [term EXCEPT ![s] = 0]
        /\ UNCHANGED <<exec, counter, fence>>
    BY <1>7 DEF EndTerm, Crash, LeaveTerm, NoEpoch
  <2>2. UNCHANGED DispatchLog
    BY <2>1 DEF DispatchLog
  <2>3. CASE term[s] # 0
    BY <2>1, <2>2, <2>3 DEF Terms!End
  <2>4. CASE term[s] = 0
    <3>1. term' = term
      BY <2>1, <2>4 DEF EngineInv, TypeOK
    <3> QED
      BY <2>1, <2>2, <3>1
  <2> QED
    BY <2>3, <2>4
<1>8. ASSUME NEW s \in Schedulers, FlushState(s) PROVE Terms!Write(s)
  <2>1. Accepted(s) /\ UNCHANGED <<exec, counter, term>>
    BY <1>8 DEF FlushState
  <2> QED
    BY <1>8, <2>1, FlushStateInv, SilentWrite
<1>9. ASSUME NEW s \in Schedulers, NEW l \in Loops, Admit(s, l) PROVE Terms!Write(s)
  <2>1. Accepted(s) /\ UNCHANGED <<counter, term>>
    BY <1>9 DEF Admit
  <2>2. PICK id \in batch[s][l].todo : AdmitScript(ingress[id], term[s])
    BY <1>9 DEF Admit
  <2>3. ingress[id] \in Tasks
    BY BatchType
  <2>4. fence' = term[s] /\ fence <= term[s] /\ exec' = exec
    BY <2>1, <2>2, <2>3, AcceptedEpoch, AdmitEffect
  <2> QED
    BY <2>1, <2>4, SilentWrite
<1>10. ASSUME NEW s \in Schedulers, Dispatch(s) PROVE Terms!Write(s)
  <2>1. Accepted(s) /\ DispatchScript(term[s]) /\ UNCHANGED <<counter, term>>
    BY <1>10 DEF Dispatch
  <2>2. term[s] \in Nat \ {0} /\ fence \in Nat
    BY <2>1, AcceptedEpoch DEF BrokerInv, BrokerTypeOK
  <2>3. Appended(term[s]) /\ fence' = term[s] /\ fence <= term[s]
    BY <2>1, AcceptedEpoch, DispatchEffect
  <2>4. \/ UNCHANGED DispatchLog
        \/ \E n \in 1 .. Cardinality(Tasks) - Len(DispatchLog) :
             DispatchLog' = DispatchLog \o [i \in 1 .. n |-> term[s]]
    BY <2>2, <2>3, LogAppended
  <2>5. term[s] # 0 /\ term[s] >= fence
    BY <2>2, <2>3
  <2> QED
    BY <2>1, <2>3, <2>4, <2>5 DEF Terms!Write
<1>11. ASSUME NEW s \in Schedulers,
              \/ TermCancelled(s) \/ ReadIngress(s) \/ ReadGarbage(s) \/ ReadIngressLost(s)
              \/ LoopRefused(s)
       PROVE  Stutter
  <2>1. UNCHANGED <<exec, counter, fence, term>>
    BY <1>11 DEF TermCancelled, ReadIngress, ReadGarbage, ReadIngressLost, LoopRefused, FencedOut
  <2> QED
    BY <1>1, <2>1
<1>12. ASSUME NEW s \in Schedulers, NEW page \in Pages(s), ReclaimIngress(s, page) PROVE Stutter
  BY <1>1, <1>12 DEF ReclaimIngress
<1>13. ASSUME NEW s \in Schedulers, NEW l \in Loops,
              \/ CheckKnown(s, l) \/ RejectInvalid(s, l) \/ AdmitFails(s, l)
              \/ AdmitRefused(s, l) \/ AckBatch(s, l)
       PROVE  Stutter
  <2>1. UNCHANGED <<exec, counter, fence, term>>
    BY <1>13 DEF CheckKnown, RejectInvalid, AdmitFails, AdmitRefused, FencedOut, AckBatch
  <2> QED
    BY <1>1, <2>1
<1> HIDE DEF Stutter, brokerVars, taskVars, execVars, recordVars, termVars
<1>14. ASSUME NEW s \in Schedulers, SchedulerStep(s) PROVE Terms!Next \/ Stutter
  <2>1. Terms!Begin(s) \/ Terms!End(s) \/ Terms!Write(s) \/ Stutter
    BY <1>6, <1>7, <1>8, <1>9, <1>10, <1>11, <1>12, <1>13, <1>14 DEF SchedulerStep, LoopStep
  <2> QED
    BY <2>1 DEF Terms!Next
<1>15. ASSUME Next PROVE Terms!Next \/ Stutter
  BY <1>3, <1>4, <1>5, <1>14, <1>15 DEF Next
<1>16. Terms!Next \/ Stutter
  BY <1>2, <1>15
<1> QED
  BY <1>16 DEF Stutter

\* The writes of the loops are those the fence allows: the scheduler replicas
\* implement module LeaderTerms, and with LeaseImplementsTerms both sides of the
\* contract between election and loops hold for every number of replicas.
THEOREM EngineImplementsTerms == Spec => ImplementsTerms
<1>1. Init => Terms!Init
  <2> SUFFICES ASSUME Init PROVE Terms!Init
    OBVIOUS
  <2>1. exec = <<>>
    BY DEF Init, BrokerInit
  <2>2. DispatchLog = <<>>
    BY <2>1 DEF DispatchLog
  <2> QED
    BY <2>2 DEF Init, BrokerInit, Terms!Init, NoEpoch
<1> QED
  BY <1>1, EngineInvariant, StepImplementsTerms, PTL DEF Spec, ImplementsTerms, Terms!Spec
=============================================================================
