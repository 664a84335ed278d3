-------------------------- MODULE FaultTrial_proofs -------------------------
(***************************************************************************)
(* Proofs about module FaultTrial, for every number of schedulers and every *)
(* choice of the lease, the timeouts and the lengths of the waits.          *)
(*                                                                          *)
(* Proved here is what holds in any order of events: the types, that no     *)
(* node's record shows a superseded writer, what the cleanup leaves behind, *)
(* and that an epoch the store knows identifies one term.  What a           *)
(* trial measures depends on which of two timers runs out first; that is    *)
(* module TrialTiming_proofs.                                               *)
(***************************************************************************)
EXTENDS FaultTrial, FunctionTheorems, FiniteSetTheorems, SequenceTheorems, TLAPS

-----------------------------------------------------------------------------
(***************************************************************************)
(* Types.                                                                   *)
(***************************************************************************)
Cell == [holder : Grant, left : Nat, counter : 0 .. MaxEpoch, fence : 0 .. MaxEpoch,
         log : Seq(1 .. MaxEpoch)]

\* Exactly the processes with a grant have an epoch.
Coherent(r) == r.phase \in {"granted", "leading"} <=> r.epoch # 0

ProcRecord == [phase : Phases, epoch : 0 .. MaxEpoch, timer : Nat, due : BOOLEAN,
               stopped : BOOLEAN, path : {"up", "cut"}]

Arms == FailoverArms \cup PartitionArms \cup StoreArms \cup BenchArms

Nodes == 1 .. arm.nodes + 1

StoreTyped ==
  /\ arm \in Arms
  /\ db \in [Nodes -> Cell]
  /\ master \in Nodes
  /\ alive \subseteq Nodes
  /\ online \subseteq alive \ {master}
  /\ link \in {"up", "cut"}

ProcTyped == proc \in [Schedulers -> ProcRecord] /\ \A p \in Schedulers : Coherent(proc[p])

MeasuresTyped ==
  /\ led \in [1 .. MaxEpoch -> Nat]
  /\ backlog \in BOOLEAN
  /\ data \in BOOLEAN
  /\ gap \in 0 .. MaxGap
  /\ outage \in {NoFault, Open} \cup 0 .. MaxGap

Outcomes == {"running", "ok", "timeout", "leaders", "nobody", "unsuperseded", "split",
             "notdown", "healed", "submit", "inverted"}

HarnessTyped ==
  /\ timer \in Nat
  /\ victim \in Schedulers \cup {"nobody"}
  /\ submit \in [state : {"idle", "running", "done", "failed"}, left : Nat]
  /\ workers \in BOOLEAN
  /\ watch \in [last : Grant, seen : SUBSET (1 .. MaxEpoch), reused : BOOLEAN]
  /\ outcome \in Outcomes

\* Where runTrial can be, by experiment.
LeaderSteps == {"elect", "gauges", "load", "before", "paused", "cut", "healed", "settle",
                "submit", "drain", "verdict", "defer", "ended"}

StoreSteps == {"elect", "load", "before", "cutting", "churn", "window", "crash", "failover",
               "promoted", "submit", "drain", "churn2", "reelect", "verdict", "defer", "ended"}

BenchSteps == {"elect", "submit", "drain", "stop", "collect", "defer", "ended"}

StepTyped ==
  /\ LeaderTrial => step \in LeaderSteps
  /\ StoreTrial => step \in StoreSteps
  /\ Bench => step \in BenchSteps
  /\ step \in {"paused", "cut", "healed"} => victim \in Schedulers

-----------------------------------------------------------------------------
(***************************************************************************)
(* The record of a node.                                                    *)
(***************************************************************************)
\* The epochs are in order, and the fence is past all of them.
CellSorted(c) ==
  /\ \A i, j \in DOMAIN c.log : i <= j => c.log[i] <= c.log[j]
  /\ \A i \in DOMAIN c.log : c.log[i] <= c.fence

LogsSorted == \A i \in Nodes : CellSorted(db[i])

-----------------------------------------------------------------------------
(***************************************************************************)
(* Cleaning up.                                                             *)
(***************************************************************************)
Running == step \notin {"defer", "ended"}

\* An error of a leader trial that is returned while the producer submits.
EarlyError == LeaderTrial /\ outcome \in {"nobody", "unsuperseded", "split"}

\* The producer runs from "load" to "submit", and in no case beyond.
ProducerBounded ==
  /\ step \in {"elect", "gauges", "load"} => submit.state = "idle"
  /\ ~StoreTrial /\ step \in {"drain", "verdict", "stop", "collect"} => submit.state # "running"
  /\ ~StoreTrial /\ ~Running /\ ~EarlyError => submit.state # "running"

\* The result is known when runTrial returns, and not before.
ResultLast == Running => outcome = "running"

\* An experiment of the benchmark starts no process.
BenchAlone == Bench => \A p \in Schedulers : proc[p].phase = "dead"

\* The deferred calls that are left, by experiment.
LeaderDefers ==
  {Deferred, <<"workers", "schedulers", "reset", "cancel">>, <<"schedulers", "reset", "cancel">>,
   <<"reset", "cancel">>, <<"cancel">>, <<>>}

StoreDefers ==
  {StoreDeferred, <<"schedulers", "cluster", "cancel">>, <<"cluster", "cancel">>, <<"cancel">>, <<>>}

BenchDefers == {BenchDeferred, <<"reset">>, <<>>}

DefersLeft ==
  /\ LeaderTrial => defers \in LeaderDefers /\ (Running => defers = Deferred)
  /\ StoreTrial => defers \in StoreDefers /\ (Running => defers = StoreDeferred)
  /\ Bench => defers \in BenchDefers /\ (Running => defers = BenchDeferred)
  /\ step = "ended" => defers = <<>>

AllDead == \A p \in Schedulers : proc[p].phase = "dead"

\* What the calls that have run have done.
Cleaned ==
  /\ ~Bench /\ Len(defers) <= 2 => AllDead
  /\ ~Bench /\ Len(defers) <= 3 => ~workers
  /\ Bench /\ Len(defers) <= 1 => ~workers
  /\ LeaderTrial /\ ~EarlyError /\ Len(defers) <= 1 => ~data
  /\ StoreTrial /\ Len(defers) <= 1 => ~data /\ alive = {}
  /\ Bench /\ defers = <<>> => ~data
  /\ ~Bench /\ defers = <<>> => submit.state # "running"

-----------------------------------------------------------------------------
(***************************************************************************)
(* Epochs and the terms they identify.                                      *)
(***************************************************************************)
Before == {"elect", "load", "before", "cutting", "churn", "window", "crash"}
After == {"promoted", "submit", "drain", "churn2", "reelect", "verdict"}

Granted(p) == proc[p].phase = "granted"

\* One master dies, once, and no scheduler is stopped.
OneFailover ==
  StoreTrial =>
    /\ \A p \in Schedulers : ~proc[p].stopped
    /\ step \in Before => master = 1 /\ alive = 1 .. 3
    /\ step = "failover" => master = 1 /\ alive = {2, 3}
    /\ step \in After => master \in {2, 3} /\ alive = {2, 3}

Led(e) == led[e] > 0

\* No epoch that the store knows has identified two terms, and none above its
\* counter is in use, so that the next one to be given out is new.  Whoever was
\* granted an epoch that dies with the master has handed it back when a replica
\* is promoted.
TokensSafe ==
  /\ \A e \in 1 .. MaxEpoch : led[e] <= 1
  /\ Running =>
       /\ \A p \in Schedulers : Granted(p) => ~Led(proc[p].epoch) /\ proc[p].epoch <= Current.counter
       /\ \A p, q \in Schedulers : Granted(p) /\ Granted(q) /\ p # q => proc[p].epoch # proc[q].epoch
       /\ \A e \in 1 .. MaxEpoch : Led(e) => e <= Current.counter
  /\ step = "failover" /\ timer < DownAfter => \A p \in Schedulers : ~Granted(p)

CleanupInv ==
  /\ ProducerBounded /\ ResultLast /\ BenchAlone /\ DefersLeft
  /\ ~Running => Cleaned
TokenInv == OneFailover /\ TokensSafe

-----------------------------------------------------------------------------
(***************************************************************************)
(* The arms.                                                                *)
(***************************************************************************)
LEMMA DurationsNat ==
  /\ TTL \in Nat /\ RenewInterval \in Nat /\ StoreTTL \in Nat /\ StoreRenew \in Nat
  /\ FaultAfter \in Nat /\ SubmitFor \in Nat /\ PauseFor \in Nat /\ Settle \in Nat
  /\ HalfPeriod \in Nat /\ CutLimit \in Nat /\ Window \in Nat /\ DownAfter \in Nat
  /\ IdleLimit \in Nat /\ MaxGap \in Nat /\ Retry \in Nat /\ WaitTimeout \in Nat /\ MaxEpoch \in Nat
  /\ DownAfter > 0
BY TrialAssumption, ReplicaAssumption, StoreAssumption

ArmTyped(a) == a.ttl \in Nat /\ a.renew \in Nat /\ a.cut \in Nat /\ a.min \in Nat

LEMMA LeaderArmFacts ==
  ASSUME NEW a \in FailoverArms \cup PartitionArms
  PROVE  /\ ArmTyped(a) /\ a.nodes = 0 /\ a.wait = 0 /\ a.min = 0 /\ a.count \in {1, 2}
         /\ a.fault \notin {"crash", "stall"}
<1> USE DurationsNat DEF ArmTyped, LeaderArm
<1>1. CASE a \in FailoverArms
  BY <1>1 DEF FailoverArms
<1>2. CASE a \in PartitionArms
  <2>1. TTL \div 2 \in Nat /\ 2 * TTL \in Nat /\ 3 * TTL \in Nat
    OBVIOUS
  <2> QED
    BY <1>2, <2>1 DEF PartitionArms
<1> QED
  BY <1>1, <1>2

LEMMA StoreArmFacts ==
  ASSUME NEW a \in StoreArms
  PROVE  /\ ArmTyped(a) /\ a.nodes = 2 /\ a.wait \in {0, 1} /\ a.count = 3
         /\ a.fault \in {"crash", "stall"}
BY DurationsNat DEF ArmTyped, StoreArms, StoreArm

LEMMA BenchArmFacts ==
  ASSUME NEW a \in BenchArms
  PROVE  /\ ArmTyped(a) /\ a.nodes = 0 /\ a.wait = 0 /\ a.min = 0 /\ a.count = 0
         /\ a.fault = "none"
BY DurationsNat DEF ArmTyped, BenchArms, LeaderArm

LEMMA ArmFacts ==
  ASSUME arm \in Arms
  PROVE  /\ ArmTyped(arm) /\ arm.nodes \in Nat /\ arm.wait \in {0, 1}
         /\ StoreTrial => /\ arm.nodes = 2 /\ arm.fault \in {"crash", "stall"}
                          /\ ~Bench /\ ~LeaderTrial
         /\ ~StoreTrial => arm.nodes = 0 /\ arm.wait = 0 /\ arm.fault \notin {"crash", "stall"}
         /\ Bench => arm.count = 0 /\ arm.fault = "none" /\ ~StoreTrial /\ ~LeaderTrial
         /\ StoreTrial \/ Bench \/ LeaderTrial
<1>1. CASE arm \in FailoverArms \cup PartitionArms
  <2>1. /\ ArmTyped(arm) /\ arm.nodes = 0 /\ arm.wait = 0 /\ arm.min = 0 /\ arm.count \in {1, 2}
        /\ arm.fault \notin {"crash", "stall"}
    BY <1>1, LeaderArmFacts
  <2>2. ~StoreTrial /\ ~Bench
    BY <2>1, StoreArmFacts, BenchArmFacts DEF StoreTrial, Bench
  <2> QED
    BY <2>1, <2>2 DEF LeaderTrial
<1>2. CASE StoreTrial
  <2>1. /\ ArmTyped(arm) /\ arm.nodes = 2 /\ arm.wait \in {0, 1} /\ arm.count = 3
        /\ arm.fault \in {"crash", "stall"}
    BY <1>2, StoreArmFacts DEF StoreTrial
  <2>2. ~Bench
    BY <2>1, BenchArmFacts DEF Bench
  <2> QED
    BY <1>2, <2>1, <2>2 DEF LeaderTrial
<1>3. CASE Bench
  <2>1. /\ ArmTyped(arm) /\ arm.nodes = 0 /\ arm.wait = 0 /\ arm.min = 0 /\ arm.count = 0
        /\ arm.fault = "none"
    BY <1>3, BenchArmFacts DEF Bench
  <2>2. ~StoreTrial
    BY <2>1, StoreArmFacts DEF StoreTrial
  <2> QED
    BY <1>3, <2>1, <2>2 DEF LeaderTrial
<1> QED
  BY <1>1, <1>2, <1>3 DEF Arms, StoreTrial, Bench

-----------------------------------------------------------------------------
(***************************************************************************)
(* What every step preserves of the store, the processes and the measures.  *)
(***************************************************************************)
LEMMA NoGrantTyped == NoGrant \in Grant
BY DEF Grant

LEMMA CurrentTyped ==
  ASSUME StoreTyped
  PROVE  /\ Current \in Cell /\ Current.holder \in Grant /\ Current.left \in Nat
         /\ Current.counter \in 0 .. MaxEpoch /\ Current.fence \in 0 .. MaxEpoch
         /\ Current.log \in Seq(1 .. MaxEpoch)
<1>1. Current \in Cell
  BY DEF StoreTyped, Current
<1> QED
  BY <1>1 DEF Cell

LEMMA OwnerTyped ==
  ASSUME StoreTyped, LeaderFound
  PROVE  LeaseOwner \in Schedulers /\ Current.holder.epoch \in 1 .. MaxEpoch
BY CurrentTyped DEF LeaderFound, LeaseOwner, Grant, NoGrant

LEMMA StoreSame ==
  ASSUME StoreTyped, UNCHANGED <<storeVars, arm>>
  PROVE  StoreTyped'
BY DEF StoreTyped, storeVars, Nodes

LEMMA CellWritten ==
  ASSUME StoreTyped, NEW cell \in Cell, WriteCell(cell), UNCHANGED <<master, alive, online, link, arm>>
  PROVE  StoreTyped'
BY DEF StoreTyped, Nodes, WriteCell

LEMMA ProcPut ==
  ASSUME ProcTyped, NEW p \in Schedulers, NEW r \in ProcRecord, Coherent(r), Put(p, r)
  PROVE  ProcTyped'
BY DEF ProcTyped, Put

LEMMA ProcSame ==
  ASSUME ProcTyped, UNCHANGED proc
  PROVE  ProcTyped'
BY DEF ProcTyped

LEMMA ProcOf ==
  ASSUME ProcTyped, NEW p \in Schedulers
  PROVE  /\ proc[p] \in ProcRecord /\ Coherent(proc[p])
         /\ proc[p].phase \in Phases /\ proc[p].epoch \in 0 .. MaxEpoch
         /\ proc[p].phase \in {"granted", "leading"} => proc[p].epoch \in 1 .. MaxEpoch
<1>1. proc[p] \in ProcRecord /\ Coherent(proc[p])
  BY DEF ProcTyped
<1>2. proc[p].phase \in Phases /\ proc[p].epoch \in 0 .. MaxEpoch
  BY <1>1 DEF ProcRecord
<1>3. proc[p].phase \in {"granted", "leading"} => proc[p].epoch \in 1 .. MaxEpoch
  BY <1>1, <1>2, StoreAssumption DEF Coherent
<1> QED
  BY <1>1, <1>2, <1>3

LEMMA StandbyRecord ==
  ASSUME ProcTyped, NEW p \in Schedulers
  PROVE  Standby(p) \in ProcRecord /\ Coherent(Standby(p))
<1>1. proc[p] \in ProcRecord
  BY ProcOf
<1>2. Retry \in Nat /\ 0 \in 0 .. MaxEpoch
  BY DurationsNat
<1> QED
  BY <1>1, <1>2 DEF Standby, ProcRecord, Coherent, Phases

LEMMA KilledRecord ==
  ASSUME ProcTyped, NEW p \in Schedulers
  PROVE  Killed(p) \in ProcRecord /\ Coherent(Killed(p)) /\ Killed(p).phase = "dead"
<1>1. proc[p] \in ProcRecord
  BY ProcOf
<1>2. 0 \in 0 .. MaxEpoch
  BY DurationsNat
<1> QED
  BY <1>1, <1>2 DEF Killed, ProcRecord, Coherent, Phases

\* A record that differs in the timer, the flags or the path only.
LEMMA OtherFields ==
  ASSUME ProcTyped, NEW p \in Schedulers, NEW r \in ProcRecord,
         r.phase = proc[p].phase, r.epoch = proc[p].epoch
  PROVE  Coherent(r)
BY ProcOf DEF Coherent

LEMMA ReleasedCell ==
  ASSUME StoreTyped, NEW p \in Schedulers
  PROVE  /\ Released(p) \in Cell
         /\ Released(p).log = Current.log /\ Released(p).fence = Current.fence
         /\ Released(p).counter = Current.counter
<1>1. Current \in Cell
  BY CurrentTyped
<1> QED
  BY <1>1, NoGrantTyped DEF Released, Cell

-----------------------------------------------------------------------------
(***************************************************************************)
(* The scheduler processes.                                                 *)
(***************************************************************************)
World == StoreTyped /\ ProcTyped /\ MeasuresTyped

\* The records of a step of p, and what such a step can do to its phase.
LEMMA GrantedRecord ==
  ASSUME ProcTyped, NEW p \in Schedulers, NEW epoch \in 1 .. MaxEpoch
  PROVE  LET r == [proc[p] EXCEPT !.phase = "granted", !.epoch = epoch, !.timer = WaitTimeout]
         IN  r \in ProcRecord /\ Coherent(r) /\ r.phase = "granted" /\ r.epoch = epoch /\ r.stopped = proc[p].stopped
<1>1. proc[p] \in ProcRecord
  BY ProcOf
<1>2. WaitTimeout \in Nat /\ epoch \in 0 .. MaxEpoch /\ epoch # 0
  BY DurationsNat
<1> QED
  BY <1>1, <1>2 DEF ProcRecord, Coherent, Phases

LEMMA LeadingRecord ==
  ASSUME ProcTyped, NEW p \in Schedulers, NEW n \in Nat, proc[p].phase = "granted"
  PROVE  LET r == [proc[p] EXCEPT !.phase = "leading", !.timer = n, !.due = TRUE]
         IN  r \in ProcRecord /\ Coherent(r) /\ r.phase = "leading" /\ r.epoch = proc[p].epoch
<1>1. proc[p] \in ProcRecord /\ Coherent(proc[p])
  BY ProcOf
<1> QED
  BY <1>1 DEF ProcRecord, Coherent, Phases

LEMMA TimerRecord ==
  ASSUME ProcTyped, NEW p \in Schedulers, NEW n \in Nat
  PROVE  LET r == [proc[p] EXCEPT !.timer = n]
         IN  r \in ProcRecord /\ Coherent(r) /\ r.phase = proc[p].phase /\ r.epoch = proc[p].epoch
             /\ r.stopped = proc[p].stopped
<1>1. proc[p] \in ProcRecord /\ Coherent(proc[p])
  BY ProcOf
<1> QED
  BY <1>1 DEF ProcRecord, Coherent

LEMMA DueRecord ==
  ASSUME ProcTyped, NEW p \in Schedulers
  PROVE  LET r == [proc[p] EXCEPT !.due = FALSE]
         IN  r \in ProcRecord /\ Coherent(r) /\ r.phase = proc[p].phase /\ r.epoch = proc[p].epoch
             /\ r.stopped = proc[p].stopped
<1>1. proc[p] \in ProcRecord /\ Coherent(proc[p])
  BY ProcOf
<1> QED
  BY <1>1 DEF ProcRecord, Coherent

\* The cell a won campaign writes.
LEMMA WonCell ==
  ASSUME StoreTyped, NEW p \in Schedulers, NEW epoch \in 1 .. MaxEpoch
  PROVE  LET c == [Current EXCEPT !.counter = epoch, !.left = arm.ttl,
                                  !.holder = [owner |-> p, epoch |-> epoch]]
         IN  c \in Cell /\ c.log = Current.log /\ c.fence = Current.fence /\ c.counter = epoch
<1>1. Current \in Cell
  BY CurrentTyped
<1>2. arm.ttl \in Nat /\ [owner |-> p, epoch |-> epoch] \in Grant /\ epoch \in 0 .. MaxEpoch
  BY ArmFacts, DurationsNat DEF StoreTyped, ArmTyped, Grant
<1> QED
  BY <1>1, <1>2 DEF Cell

LEMMA RenewedCell ==
  ASSUME StoreTyped
  PROVE  LET c == [Current EXCEPT !.left = arm.ttl]
         IN  c \in Cell /\ c.log = Current.log /\ c.fence = Current.fence /\ c.counter = Current.counter
<1>1. Current \in Cell
  BY CurrentTyped
<1>2. arm.ttl \in Nat
  BY ArmFacts DEF StoreTyped, ArmTyped
<1> QED
  BY <1>1, <1>2 DEF Cell

\* The record after a dispatch under an epoch that is not fenced.
LEMMA StampedLog ==
  ASSUME NEW log \in Seq(1 .. MaxEpoch), NEW epoch \in 1 .. MaxEpoch
  PROVE  /\ Stamp(log, epoch) \in Seq(1 .. MaxEpoch)
         /\ (\A i, j \in DOMAIN log : i <= j => log[i] <= log[j])
            /\ (\A i \in DOMAIN log : log[i] <= epoch)
              => /\ \A i, j \in DOMAIN Stamp(log, epoch) : i <= j => Stamp(log, epoch)[i] <= Stamp(log, epoch)[j]
                 /\ \A i \in DOMAIN Stamp(log, epoch) : Stamp(log, epoch)[i] <= epoch
<1> DEFINE s == Append(log, epoch)
<1>1. CASE Stamp(log, epoch) = log
  BY <1>1
<1>2. CASE Stamp(log, epoch) = s
  <2>1. /\ s \in Seq(1 .. MaxEpoch) /\ DOMAIN s = 1 .. Len(log) + 1 /\ s[Len(log) + 1] = epoch
        /\ \A i \in 1 .. Len(log) : s[i] = log[i]
        /\ DOMAIN log = 1 .. Len(log) /\ Len(log) \in Nat
    OBVIOUS
  <2>2. ASSUME NEW i \in 1 .. Len(log) + 1 PROVE i \in 1 .. Len(log) \/ i = Len(log) + 1
    BY <2>1
  <2> HIDE DEF s
  <2>3. ASSUME \A i, j \in DOMAIN log : i <= j => log[i] <= log[j],
               \A i \in DOMAIN log : log[i] <= epoch
        PROVE  /\ \A i, j \in DOMAIN s : i <= j => s[i] <= s[j]
               /\ \A i \in DOMAIN s : s[i] <= epoch
    <3>1. ASSUME NEW i \in DOMAIN s PROVE s[i] <= epoch
      BY <2>1, <2>2, <2>3
    <3>2. ASSUME NEW i \in DOMAIN s, NEW j \in DOMAIN s, i <= j PROVE s[i] <= s[j]
      <4>1. CASE j = Len(log) + 1
        BY <2>1, <3>1, <4>1
      <4>2. CASE j # Len(log) + 1
        <5>1. i \in 1 .. Len(log) /\ j \in 1 .. Len(log)
          BY <2>1, <3>2, <4>2
        <5> QED
          BY <2>1, <2>3, <3>2, <5>1
      <4> QED
        BY <4>1, <4>2
    <3> QED
      BY <3>1, <3>2
  <2> QED
    BY <1>2, <2>1, <2>3
<1> QED
  BY <1>1, <1>2 DEF Stamp

LEMMA EntryOf ==
  ASSUME NEW S, NEW s \in Seq(S), NEW i \in DOMAIN s
  PROVE  s[i] \in S
OBVIOUS

\* The cell a dispatch pass writes.
LEMMA DispatchedCell ==
  ASSUME StoreTyped, CellSorted(Current), NEW epoch \in 1 .. MaxEpoch, Current.fence <= epoch,
         NEW c, c = [Current EXCEPT !.fence = epoch, !.log = IF backlog THEN Stamp(@, epoch) ELSE @]
  PROVE  c \in Cell /\ CellSorted(c) /\ c.counter = Current.counter
<1>1. Current \in Cell /\ Current.log \in Seq(1 .. MaxEpoch) /\ Current.fence \in 0 .. MaxEpoch
  BY CurrentTyped
<1>2. epoch \in 0 .. MaxEpoch
  OBVIOUS
<1>3. \A i \in DOMAIN Current.log : Current.log[i] <= epoch
  <2>1. ASSUME NEW i \in DOMAIN Current.log PROVE Current.log[i] <= epoch
    <3>1. Current.log[i] \in 1 .. MaxEpoch
      BY <1>1, EntryOf
    <3>2. Current.log[i] <= Current.fence
      BY DEF CellSorted
    <3> QED
      BY <1>1, <3>1, <3>2
  <2> QED
    BY <2>1
<1>4. c.log = (IF backlog THEN Stamp(Current.log, epoch) ELSE Current.log) /\ c.fence = epoch
      /\ c.counter = Current.counter
  BY <1>1 DEF Cell
<1>5. CellSorted(c) /\ c.log \in Seq(1 .. MaxEpoch)
  <2>1. CASE backlog
    BY <1>1, <1>3, <1>4, <2>1, StampedLog DEF CellSorted
  <2>2. CASE ~backlog
    BY <1>1, <1>3, <1>4, <2>2 DEF CellSorted
  <2> QED
    BY <2>1, <2>2
<1>6. c \in Cell
  <2>1. c = [Current EXCEPT !.fence = epoch, !.log = c.log]
    BY <1>1, <1>4 DEF Cell
  <2> QED
    BY <1>1, <1>2, <1>5, <2>1 DEF Cell
<1> QED
  BY <1>4, <1>5, <1>6

LEMMA SortedWritten ==
  ASSUME StoreTyped, LogsSorted, NEW cell, CellSorted(cell), WriteCell(cell), UNCHANGED arm
  PROVE  LogsSorted'
BY DEF StoreTyped, LogsSorted, Nodes, WriteCell

LEMMA SortedSame ==
  ASSUME LogsSorted, UNCHANGED <<db, arm>>
  PROVE  LogsSorted'
BY DEF LogsSorted, Nodes

LEMMA SameRecordSorted ==
  ASSUME LogsSorted, StoreTyped, NEW c, c.log = Current.log, c.fence = Current.fence
  PROVE  CellSorted(c) /\ CellSorted(Current)
BY DEF LogsSorted, StoreTyped, CellSorted, Current

LEMMA MeasuresSame ==
  ASSUME MeasuresTyped, UNCHANGED <<led, backlog, gap, outage, data>>
  PROVE  MeasuresTyped'
BY DEF MeasuresTyped

WorldInv == World /\ LogsSorted

LEMMA CampaignInv ==
  ASSUME WorldInv, NEW p \in Schedulers, Campaign(p)
  PROVE  WorldInv'
<1> DEFINE epoch == Current.counter + 1
<1>1. UNCHANGED <<master, alive, online, link, arm, led, backlog, gap, outage>>
  BY DEF Campaign
<1>2. CASE /\ epoch <= MaxEpoch
           /\ WriteCell([Current EXCEPT !.counter = epoch, !.left = arm.ttl,
                                        !.holder = [owner |-> p, epoch |-> epoch]])
           /\ Put(p, [proc[p] EXCEPT !.phase = "granted", !.epoch = epoch, !.timer = WaitTimeout])
           /\ data' = TRUE
  <2>1. epoch \in 1 .. MaxEpoch
    <3>1. Current.counter \in 0 .. MaxEpoch
      BY CurrentTyped DEF WorldInv, World
    <3> QED
      BY <1>2, <3>1, DurationsNat
  <2> HIDE DEF epoch
  <2>2. ProcTyped'
    BY <1>2, <2>1, GrantedRecord, ProcPut DEF WorldInv, World
  <2>3. StoreTyped'
    BY <1>1, <1>2, <2>1, WonCell, CellWritten DEF WorldInv, World
  <2>4. LogsSorted'
    <3> DEFINE c == [Current EXCEPT !.counter = epoch, !.left = arm.ttl,
                                    !.holder = [owner |-> p, epoch |-> epoch]]
    <3>1. c.log = Current.log /\ c.fence = Current.fence /\ WriteCell(c)
      BY <1>2, <2>1, WonCell DEF WorldInv, World
    <3> HIDE DEF c
    <3>2. CellSorted(c)
      BY <3>1, SameRecordSorted DEF WorldInv, World
    <3> QED
      BY <1>1, <3>1, <3>2, SortedWritten DEF WorldInv, World
  <2>5. MeasuresTyped'
    BY <1>1, <1>2 DEF WorldInv, World, MeasuresTyped
  <2> QED
    BY <2>2, <2>3, <2>4, <2>5 DEF WorldInv, World
<1>3. CASE Put(p, Standby(p)) /\ UNCHANGED <<db, data>>
  <2>1. ProcTyped'
    BY <1>3, StandbyRecord, ProcPut DEF WorldInv, World
  <2> QED
    BY <1>1, <1>3, <2>1, StoreSame, SortedSame, MeasuresSame DEF WorldInv, World, storeVars
<1> QED
  BY <1>2, <1>3 DEF Campaign, NextEpoch

LEMMA TermBeginsInv ==
  ASSUME WorldInv, NEW p \in Schedulers, TermBegins(p)
  PROVE  WorldInv'
<1>1. /\ proc[p].phase = "granted"
      /\ Put(p, [proc[p] EXCEPT !.phase = "leading", !.timer = arm.renew, !.due = TRUE])
      /\ led' = [led EXCEPT ![proc[p].epoch] = @ + 1]
      /\ UNCHANGED <<storeVars, arm, backlog, gap, outage, data>>
  BY DEF TermBegins
<1>2. arm.renew \in Nat
  BY ArmFacts DEF WorldInv, World, StoreTyped, ArmTyped
<1>3. ProcTyped'
  BY <1>1, <1>2, LeadingRecord, ProcPut DEF WorldInv, World
<1>4. MeasuresTyped'
  <2>1. proc[p].epoch \in 1 .. MaxEpoch
    BY <1>1, ProcOf DEF WorldInv, World
  <2>2. led' \in [1 .. MaxEpoch -> Nat]
    BY <1>1, <2>1 DEF WorldInv, World, MeasuresTyped
  <2> QED
    BY <1>1, <2>2 DEF WorldInv, World, MeasuresTyped
<1> QED
  BY <1>1, <1>3, <1>4, StoreSame, SortedSame DEF WorldInv, World, storeVars

\* Redis is left alone, the lease released, or the lease extended.
LEMMA LeaseCallInv ==
  ASSUME WorldInv, NEW p \in Schedulers,
         UNCHANGED db \/ WriteCell(Released(p)) \/ WriteCell([Current EXCEPT !.left = arm.ttl]),
         UNCHANGED <<master, alive, online, link, arm>>
  PROVE  StoreTyped' /\ LogsSorted'
<1>1. CASE UNCHANGED db
  BY <1>1, StoreSame, SortedSame DEF WorldInv, World, storeVars
<1>2. ASSUME NEW c \in Cell, c.log = Current.log, c.fence = Current.fence, WriteCell(c)
      PROVE  StoreTyped' /\ LogsSorted'
  BY <1>2, CellWritten, SortedWritten, SameRecordSorted DEF WorldInv, World
<1>3. CASE WriteCell(Released(p))
  BY <1>2, <1>3, ReleasedCell DEF WorldInv, World
<1>4. CASE WriteCell([Current EXCEPT !.left = arm.ttl])
  BY <1>2, <1>4, RenewedCell DEF WorldInv, World
<1> QED
  BY <1>1, <1>3, <1>4

LEMMA GrantHandedBackInv ==
  ASSUME WorldInv, NEW p \in Schedulers, GrantHandedBack(p)
  PROVE  WorldInv'
<1>1. /\ UNCHANGED db \/ WriteCell(Released(p))
      /\ Put(p, Standby(p))
      /\ UNCHANGED <<master, alive, online, link, arm, led, backlog, gap, outage, data>>
  BY DEF GrantHandedBack
<1>2. ProcTyped'
  BY <1>1, StandbyRecord, ProcPut DEF WorldInv, World
<1> QED
  BY <1>1, <1>2, LeaseCallInv, MeasuresSame DEF WorldInv, World

LEMMA RenewInv ==
  ASSUME WorldInv, NEW p \in Schedulers, Renew(p)
  PROVE  WorldInv'
<1>1. /\ UNCHANGED db \/ WriteCell([Current EXCEPT !.left = arm.ttl])
      /\ Put(p, Standby(p)) \/ Put(p, [proc[p] EXCEPT !.timer = arm.renew])
      /\ UNCHANGED <<master, alive, online, link, arm, led, backlog, gap, outage, data>>
  BY DEF Renew
<1>2. arm.renew \in Nat
  BY ArmFacts DEF WorldInv, World, StoreTyped, ArmTyped
<1>3. ProcTyped'
  BY <1>1, <1>2, StandbyRecord, TimerRecord, ProcPut DEF WorldInv, World
<1> QED
  BY <1>1, <1>3, LeaseCallInv, MeasuresSame DEF WorldInv, World

LEMMA DispatchPassInv ==
  ASSUME WorldInv, NEW p \in Schedulers, DispatchPass(p)
  PROVE  WorldInv'
<1> DEFINE epoch == proc[p].epoch
           cell == [Current EXCEPT !.fence = epoch,
                                   !.log = IF backlog THEN Stamp(@, epoch) ELSE @]
<1>1. proc[p].phase = "leading" /\ UNCHANGED <<master, alive, online, link, arm, led>>
  BY DEF DispatchPass
<1>2. epoch \in 1 .. MaxEpoch
  BY <1>1, ProcOf DEF WorldInv, World
<1>3. CASE /\ ~Refused(p) /\ WriteCell(cell)
           /\ Put(p, [proc[p] EXCEPT !.due = FALSE])
           /\ backlog' = FALSE
           /\ gap' = IF backlog THEN 0 ELSE gap
           /\ outage' = IF backlog THEN OutageAround ELSE outage
           /\ data' = TRUE
  <2>1. ProcTyped'
    BY <1>3, DueRecord, ProcPut DEF WorldInv, World
  <2>2. Current.fence <= epoch /\ CellSorted(Current)
    BY <1>2, <1>3, CurrentTyped, SameRecordSorted DEF WorldInv, World, Refused
  <2> HIDE DEF epoch
  <2>3. cell \in Cell /\ CellSorted(cell)
    BY <1>2, <2>2, DispatchedCell DEF WorldInv, World
  <2> HIDE DEF cell
  <2>4. StoreTyped' /\ LogsSorted'
    BY <1>1, <1>3, <2>3, CellWritten, SortedWritten DEF WorldInv, World
  <2>5. MeasuresTyped'
    <3>1. gap \in 0 .. MaxGap /\ 0 \in 0 .. MaxGap /\ outage \in {NoFault, Open} \cup 0 .. MaxGap
          /\ led' \in [1 .. MaxEpoch -> Nat]
      BY <1>1, DurationsNat DEF WorldInv, World, MeasuresTyped
    <3>2. gap' \in 0 .. MaxGap
      BY <1>3, <3>1
    <3>3. outage' \in {NoFault, Open} \cup 0 .. MaxGap
      BY <1>3, <3>1 DEF OutageAround
    <3> QED
      BY <1>3, <3>1, <3>2, <3>3 DEF MeasuresTyped
  <2> QED
    BY <2>1, <2>4, <2>5 DEF WorldInv, World
<1>4. CASE WriteCell(Released(p)) /\ Put(p, Standby(p)) /\ UNCHANGED <<backlog, gap, outage, data>>
  <2>1. ProcTyped'
    BY <1>4, StandbyRecord, ProcPut DEF WorldInv, World
  <2> QED
    BY <1>1, <1>4, <2>1, LeaseCallInv, MeasuresSame DEF WorldInv, World
<1>5. CASE Put(p, [proc[p] EXCEPT !.due = FALSE]) /\ UNCHANGED <<db, backlog, gap, outage, data>>
  <2>1. ProcTyped'
    BY <1>5, DueRecord, ProcPut DEF WorldInv, World
  <2> QED
    BY <1>1, <1>5, <2>1, LeaseCallInv, MeasuresSame DEF WorldInv, World
<1> QED
  BY <1>3, <1>4, <1>5 DEF DispatchPass

LEMMA ReplicaStepInv ==
  ASSUME WorldInv, NEW p \in Schedulers, ReplicaStep(p)
  PROVE  WorldInv'
BY CampaignInv, TermBeginsInv, GrantHandedBackInv, RenewInv, DispatchPassInv DEF ReplicaStep

-----------------------------------------------------------------------------
(***************************************************************************)
(* The store.                                                               *)
(***************************************************************************)
LEMMA WorldSame ==
  ASSUME WorldInv, UNCHANGED <<storeVars, arm, procVars>>
  PROVE  WorldInv'
BY StoreSame, ProcSame, MeasuresSame, SortedSame DEF WorldInv, World, storeVars, procVars

\* The nodes keep their cells, and the replicas that are online run.
LEMMA NodesInv ==
  ASSUME WorldInv, UNCHANGED <<db, arm, proc>>, MeasuresTyped',
         master' \in Nodes, alive' \subseteq Nodes, online' \subseteq alive' \ {master'},
         link' \in {"up", "cut"}
  PROVE  WorldInv'
<1>1. StoreTyped'
  BY DEF WorldInv, World, StoreTyped, Nodes
<1> QED
  BY <1>1, ProcSame, MeasuresSame, SortedSame DEF WorldInv, World, procVars

LEMMA ReplicateInv ==
  ASSUME WorldInv, NEW i \in online, Replicate(i), UNCHANGED <<arm, procVars>>
  PROVE  WorldInv'
<1>1. db' = [db EXCEPT ![i] = Current] /\ UNCHANGED <<master, alive, online, link>>
  BY DEF Replicate
<1>2. Current \in Cell /\ CellSorted(Current)
  BY CurrentTyped, SameRecordSorted DEF WorldInv, World
<1>3. StoreTyped' /\ LogsSorted'
  BY <1>1, <1>2 DEF WorldInv, World, StoreTyped, LogsSorted, Nodes
<1> QED
  BY <1>3, ProcSame, MeasuresSame DEF WorldInv, World, procVars

LEMMA StoreStepInv ==
  ASSUME WorldInv, UNCHANGED <<arm, proc>>, MeasuresTyped',
         NoticeDown \/ CutReplication \/ SentinelRepairs \/ KillMaster \/ Promote
  PROVE  WorldInv'
<1>1. UNCHANGED db
  BY DEF NoticeDown, CutReplication, SentinelRepairs, KillMaster, Promote
<1>2. /\ master' \in Nodes /\ alive' \subseteq Nodes /\ online' \subseteq alive' \ {master'}
      /\ link' \in {"up", "cut"}
  BY DEF NoticeDown, CutReplication, SentinelRepairs, KillMaster, Crashed, Promote,
         WorldInv, World, StoreTyped
<1> QED
  BY <1>1, <1>2, NodesInv

\* Sentinel and replication: the steps outside the harness.
LEMMA ReplicationInv ==
  ASSUME WorldInv, Replication \/ Repair
  PROVE  WorldInv' /\ UNCHANGED <<arm, procVars, harnessVars>>
<1>1. UNCHANGED <<arm, procVars, harnessVars>>
  BY DEF Replication, Repair
<1>2. CASE NoticeDown \/ SentinelRepairs
  BY <1>1, <1>2, StoreStepInv, MeasuresSame DEF WorldInv, World, procVars
<1>3. ASSUME NEW i \in online, Replicate(i) PROVE WorldInv'
  BY <1>1, <1>3, ReplicateInv
<1> QED
  BY <1>1, <1>2, <1>3 DEF Replication, Repair

-----------------------------------------------------------------------------
(***************************************************************************)
(* The harness.                                                             *)
(***************************************************************************)
TrialInv == WorldInv /\ HarnessTyped /\ StepTyped

HarnessInv == HarnessTyped' /\ StepTyped'

\* A step that says where the harness goes.
LEMMA HarnessMoves ==
  ASSUME TrialInv, UNCHANGED <<arm, submit, workers, watch>>,
         timer' \in Nat, outcome' \in Outcomes, victim' \in Schedulers \cup {"nobody"},
         LeaderTrial => step' \in LeaderSteps,
         StoreTrial => step' \in StoreSteps,
         Bench => step' \in BenchSteps,
         step' \in {"paused", "cut", "healed"} => victim' \in Schedulers
  PROVE  HarnessInv
<1>1. HarnessTyped'
  BY DEF TrialInv, HarnessTyped
<1>2. StepTyped'
  BY DEF StepTyped, LeaderTrial, StoreTrial, Bench
<1> QED
  BY <1>1, <1>2 DEF HarnessInv

LEMMA HarnessSame ==
  ASSUME TrialInv, UNCHANGED <<arm, step, timer, victim, submit, workers, watch, outcome>>
  PROVE  HarnessInv
<1>1. HarnessTyped'
  BY DEF TrialInv, HarnessTyped
<1>2. StepTyped'
  BY DEF TrialInv, StepTyped, LeaderTrial, StoreTrial, Bench
<1> QED
  BY <1>1, <1>2 DEF HarnessInv

LEMMA ArmKinds ==
  ASSUME TrialInv
  PROVE  /\ StoreTrial => ~Bench /\ ~LeaderTrial /\ arm.fault \in {"crash", "stall"}
         /\ Bench => ~StoreTrial /\ ~LeaderTrial /\ arm.fault = "none"
         /\ ~StoreTrial => arm.fault \notin {"crash", "stall"}
         /\ StoreTrial \/ Bench \/ LeaderTrial
         /\ arm.renew \in Nat /\ arm.cut \in Nat
BY ArmFacts DEF TrialInv, WorldInv, World, StoreTyped, ArmTyped

\* The steps of the harness that only it sees.
QuietStep ==
  \/ LeaderSeen \/ StoreLeaderSeen \/ GaugesRead \/ Settled \/ CutConfirmed \/ WindowEnds
  \/ ReadPromoted \/ ReelectionSeen
  \/ SubmitReturns \/ StoreSubmitReturns \/ DrainReturns \/ Verdict \/ StoreVerdict
  \/ LoadSubmitted \/ CompletionSeen \/ CollectResults \/ Finish

LEMMA QuietStepFrame ==
  ASSUME QuietStep
  PROVE  UNCHANGED <<storeVars, arm, procVars, victim, submit, workers, watch, defers>>
BY DEF QuietStep, LeaderSeen, StoreLeaderSeen, GaugesRead, Settled, CutConfirmed, WindowEnds,
       ReadPromoted, ReelectionSeen, SubmitReturns, StoreSubmitReturns, DrainReturns, Verdict,
       StoreVerdict, LoadSubmitted, CompletionSeen, CollectResults, Finish

\* Where they go.
LEMMA QuietStepMoves ==
  ASSUME TrialInv, QuietStep
  PROVE  /\ timer' \in Nat
         /\ outcome' = outcome \/ step' = "defer"
         /\ outcome' \in Outcomes
         /\ \/ step' = "defer" /\ step # "ended" /\ step # "defer"
            \/ step = "elect" /\ step' = "gauges" /\ LeaderTrial
            \/ step = "elect" /\ step' = "load" /\ StoreTrial
            \/ step = "gauges" /\ step' = "load"
            \/ step = "settle" /\ step' = "submit"
            \/ step = "cutting" /\ step' = "churn"
            \/ step = "window" /\ step' = "crash"
            \/ step = "promoted" /\ step' = "submit"
            \/ step = "reelect" /\ step' = "verdict"
            \/ step = "submit" /\ step' = "drain" /\ submit.state # "running"
            \/ step = "drain" /\ step' = "churn2" /\ StoreTrial
            \/ step = "drain" /\ step' = "verdict" /\ LeaderTrial
            \/ step = "drain" /\ step' = "stop" /\ Bench
            \/ step = "defer" /\ step' = "ended" /\ defers = <<>>
<1> USE DEF At, Goto, Check, Return, Outcomes
<1>1. outcome \in Outcomes /\ IdleLimit \in Nat
  BY DurationsNat DEF TrialInv, HarnessTyped
<1>2. CASE LeaderSeen \/ StoreLeaderSeen \/ GaugesRead \/ Settled \/ CutConfirmed \/ WindowEnds
  BY <1>1, <1>2 DEF LeaderSeen, StoreLeaderSeen, GaugesRead, Settled, CutConfirmed, WindowEnds
<1>3. CASE ReadPromoted \/ ReelectionSeen \/ SubmitReturns \/ StoreSubmitReturns
  BY <1>1, <1>3 DEF ReadPromoted, ReelectionSeen, SubmitReturns, StoreSubmitReturns
<1>4. CASE DrainReturns
  BY <1>1, <1>4, ArmKinds DEF DrainReturns
<1>5. CASE Verdict \/ StoreVerdict \/ LoadSubmitted \/ CompletionSeen \/ CollectResults \/ Finish
  BY <1>1, <1>5 DEF Verdict, StoreVerdict, LoadSubmitted, CompletionSeen, CollectResults, Finish
<1> QED
  BY <1>2, <1>3, <1>4, <1>5 DEF QuietStep

LEMMA QuietStepInv ==
  ASSUME TrialInv, QuietStep
  PROVE  WorldInv' /\ HarnessInv
<1>1. WorldInv'
  BY QuietStepFrame, WorldSame DEF TrialInv
<1>2. /\ LeaderTrial => step' \in LeaderSteps
      /\ StoreTrial => step' \in StoreSteps
      /\ Bench => step' \in BenchSteps
      /\ step' \notin {"paused", "cut", "healed"}
  BY QuietStepMoves, ArmKinds DEF TrialInv, StepTyped, LeaderSteps, StoreSteps, BenchSteps
<1>3. HarnessInv
  BY <1>2, QuietStepFrame, QuietStepMoves, HarnessMoves DEF TrialInv, HarnessTyped
<1> QED
  BY <1>1, <1>3

\* The producer and the workers start, or the components stop.
LEMMA LoadInv ==
  ASSUME TrialInv, LoadStarts \/ ComponentsReady \/ ComponentsStop
  PROVE  /\ WorldInv' /\ HarnessInv
         /\ UNCHANGED <<storeVars, arm, procVars, victim, watch, outcome, defers>>
         /\ \/ step \in {"elect", "load"} /\ step' \in {"before", "submit"}
               /\ (StoreTrial => step' = "before")
            \/ step = "stop" /\ step' = "collect" /\ ~workers' /\ submit' = submit
<1> USE DEF At, Goto
<1>1. UNCHANGED <<storeVars, arm, procVars, victim, watch, outcome, defers>>
  BY DEF LoadStarts, ComponentsReady, ComponentsStop
<1>2. WorldInv'
  BY <1>1, WorldSame DEF TrialInv
<1>3. \/ step = "load" /\ step' \in {"before", "submit"} /\ (StoreTrial => step' = "before")
      \/ step = "elect" /\ step' = "submit" /\ Bench
      \/ step = "stop" /\ step' = "collect" /\ ~workers' /\ submit' = submit
  BY ArmKinds DEF LoadStarts, ComponentsReady, ComponentsStop
<1>4. timer' \in Nat
  <2>1. CASE LoadStarts
    <3>1. Jitter \subseteq Nat /\ FaultAfter \in Nat
      BY ArmKinds, DurationsNat DEF Jitter
    <3>2. PICK n \in Jitter : timer' = 0 \/ timer' = FaultAfter + n
      BY <2>1 DEF LoadStarts
    <3> QED
      BY <3>1, <3>2
  <2>2. CASE ComponentsReady \/ ComponentsStop
    BY <2>2 DEF ComponentsReady, ComponentsStop
  <2> QED
    BY <2>1, <2>2
<1>5. /\ workers' \in BOOLEAN
      /\ submit' \in [state : {"idle", "running", "done", "failed"}, left : Nat]
  BY DEF LoadStarts, ComponentsReady, ComponentsStop, TrialInv, HarnessTyped
<1>6. HarnessTyped'
  BY <1>1, <1>4, <1>5 DEF TrialInv, HarnessTyped
<1>7. StepTyped'
  BY <1>1, <1>3, ArmKinds DEF TrialInv, StepTyped, LeaderSteps, StoreSteps, BenchSteps,
                              LeaderTrial, StoreTrial, Bench
<1> QED
  BY <1>1, <1>2, <1>3, <1>6, <1>7, ArmKinds DEF HarnessInv

LEMMA WatchPollInv ==
  ASSUME TrialInv, WatchPoll
  PROVE  /\ WorldInv' /\ HarnessInv
         /\ UNCHANGED <<storeVars, arm, procVars, step, timer, victim, submit, workers, outcome, defers>>
<1>1. /\ Current.holder \notin {NoGrant, watch.last} /\ watch' = Observe(Current.holder)
      /\ UNCHANGED <<storeVars, arm, procVars, step, timer, victim, submit, workers, outcome, defers>>
  BY DEF WatchPoll
<1>2. WorldInv'
  BY <1>1, WorldSame DEF TrialInv
<1>3. Current.holder \in Grant /\ Current.holder.epoch \in 1 .. MaxEpoch
  BY <1>1, CurrentTyped DEF TrialInv, WorldInv, World, Grant, NoGrant
<1>4. watch' \in [last : Grant, seen : SUBSET (1 .. MaxEpoch), reused : BOOLEAN]
  BY <1>1, <1>3 DEF Observe, TrialInv, HarnessTyped
<1>5. HarnessTyped'
  BY <1>1, <1>4 DEF TrialInv, HarnessTyped
<1>6. StepTyped'
  BY <1>1 DEF TrialInv, StepTyped, LeaderTrial, StoreTrial, Bench
<1> QED
  BY <1>1, <1>2, <1>5, <1>6 DEF HarnessInv

\* A process is hit, continued, or cut off, and keeps its epoch or dies.
LEMMA HitRecord ==
  ASSUME ProcTyped, NEW p \in Schedulers, NEW r,
         r \in {Killed(p), CutPath(p), HealPath(p), [proc[p] EXCEPT !.stopped = TRUE],
                [proc[p] EXCEPT !.stopped = FALSE]}
  PROVE  /\ r \in ProcRecord /\ Coherent(r)
         /\ \/ r.phase = proc[p].phase /\ r.epoch = proc[p].epoch
            \/ r.phase = "dead"
<1>1. proc[p] \in ProcRecord /\ Coherent(proc[p])
  BY ProcOf
<1>2. CASE r = Killed(p)
  BY <1>2, KilledRecord
<1>3. CASE r # Killed(p)
  BY <1>1, <1>3 DEF ProcRecord, Coherent, CutPath, HealPath
<1> QED
  BY <1>2, <1>3

LEMMA HitInv ==
  ASSUME WorldInv, NEW p \in Schedulers, NEW r,
         r \in {Killed(p), CutPath(p), HealPath(p), [proc[p] EXCEPT !.stopped = TRUE],
                [proc[p] EXCEPT !.stopped = FALSE]},
         Put(p, r), UNCHANGED db \/ WriteCell(Released(p)),
         outage' \in {outage, Open},
         UNCHANGED <<master, alive, online, link, arm, led, backlog, gap, data>>
  PROVE  WorldInv'
<1>1. ProcTyped'
  BY HitRecord, ProcPut DEF WorldInv, World
<1>2. StoreTyped' /\ LogsSorted'
  BY LeaseCallInv
<1>3. MeasuresTyped'
  BY DEF WorldInv, World, MeasuresTyped
<1> QED
  BY <1>1, <1>2, <1>3 DEF WorldInv, World

LEMMA SignalLeaderInv ==
  ASSUME TrialInv, SignalLeader
  PROVE  /\ WorldInv' /\ HarnessInv
         /\ LeaderTrial /\ step = "before" /\ UNCHANGED <<arm, submit, workers, defers, data>>
         /\ \/ step' = "defer" /\ outcome' = "nobody"
            \/ step' \in {"paused", "submit"} /\ outcome' = outcome
         /\ \A p \in Schedulers : proc'[p].phase \in {proc[p].phase, "dead"}
<1> DEFINE p == LeaseOwner
<1> USE DEF At, Goto, Return
<1>1. /\ step = "before" /\ arm.fault \in {"kill", "term", "stop"}
      /\ UNCHANGED <<master, alive, online, link, arm, led, backlog, gap, data, submit,
                     workers, watch, defers>>
  BY DEF SignalLeader
<1>2. LeaderTrial
  BY <1>1, ArmKinds
<1>3. CASE ~LeaderFound
  <2>1. /\ step' = "defer" /\ timer' = 0 /\ outcome' = "nobody"
        /\ UNCHANGED <<db, proc, outage, victim>>
    BY <1>3 DEF SignalLeader
  <2>2. WorldInv'
    BY <1>1, <2>1, WorldSame DEF TrialInv, storeVars, procVars
  <2>3. HarnessInv
    BY <1>1, <1>2, <2>1, HarnessMoves, ArmKinds DEF Outcomes, LeaderSteps, TrialInv, HarnessTyped
  <2> QED
    BY <1>1, <1>2, <2>1, <2>2, <2>3
<1>4. CASE LeaderFound
  <2>1. p \in Schedulers
    BY <1>4, OwnerTyped DEF TrialInv, WorldInv, World
  <2>2. /\ victim' = p /\ outage' = Open /\ outcome' = outcome
        /\ \/ Put(p, Killed(p)) /\ step' = "submit" /\ timer' = 0
           \/ Put(p, [proc[p] EXCEPT !.stopped = TRUE]) /\ step' = "paused" /\ timer' = arm.cut
        /\ UNCHANGED db \/ WriteCell(Released(p))
    BY <1>1, <1>4 DEF SignalLeader
  <2> HIDE DEF p
  <2>3. WorldInv'
    BY <1>1, <2>1, <2>2, HitInv DEF TrialInv
  <2>4. HarnessInv
    BY <1>1, <1>2, <2>1, <2>2, HarnessMoves, ArmKinds DEF LeaderSteps, TrialInv, HarnessTyped
  <2>5. \A q \in Schedulers : proc'[q].phase \in {proc[q].phase, "dead"}
    <3>1. PICK r : /\ Put(p, r) /\ r \in {Killed(p), [proc[p] EXCEPT !.stopped = TRUE]}
      BY <2>2
    <3>2. r.phase \in {proc[p].phase, "dead"}
      BY <2>1, <3>1, HitRecord DEF TrialInv, WorldInv, World
    <3> QED
      BY <2>1, <3>1, <3>2 DEF Put, TrialInv, WorldInv, World, ProcTyped
  <2> QED
    BY <1>1, <1>2, <2>2, <2>3, <2>4, <2>5
<1> QED
  BY <1>3, <1>4

\* The other faults of the leader.
LEMMA LeaderFaultInv ==
  ASSUME TrialInv, CutLeader \/ Resume \/ Heal \/ FlapAgain
  PROVE  /\ WorldInv' /\ HarnessInv
         /\ LeaderTrial /\ UNCHANGED <<arm, submit, workers, defers, data>>
         /\ step \in {"before", "paused", "cut", "healed"}
         /\ \/ step' = "defer" /\ outcome' = "unsuperseded"
            \/ step' \in {"cut", "healed", "settle"} /\ outcome' = outcome
         /\ \A p \in Schedulers : proc'[p].phase \in {proc[p].phase, "dead"}
<1> USE DEF At, Goto, Check, Return
<1>1. /\ step \in {"before", "paused", "cut", "healed"}
      /\ step = "before" => arm.fault \in {"cut", "flap"}
      /\ UNCHANGED <<storeVars, arm, led, backlog, gap, data, submit, workers, watch, defers>>
      /\ outage' \in {outage, Open}
  BY DEF CutLeader, Resume, Heal, FlapAgain
<1>2. LeaderTrial
  BY <1>1, ArmKinds DEF TrialInv, StepTyped, StoreSteps, BenchSteps
<1>3. /\ timer' \in Nat
      /\ \/ step' = "defer" /\ outcome' = "unsuperseded"
         \/ step' \in {"cut", "healed", "settle"} /\ outcome' = outcome
  BY DurationsNat, ArmKinds DEF CutLeader, Resume, Heal, FlapAgain
<1>4. /\ victim' \in Schedulers
      /\ \/ UNCHANGED <<proc, outage>>
         \/ Put(victim', CutPath(victim')) \/ Put(victim', HealPath(victim'))
         \/ Put(victim', [proc[victim'] EXCEPT !.stopped = FALSE])
  <2>1. CASE CutLeader
    BY <2>1, OwnerTyped DEF CutLeader, TrialInv, WorldInv, World
  <2>2. CASE Resume \/ Heal \/ FlapAgain
    <3>1. victim \in Schedulers
      BY <2>2 DEF Resume, Heal, FlapAgain, TrialInv, StepTyped
    <3> QED
      BY <2>2, <3>1 DEF Resume, Heal, FlapAgain
  <2> QED
    BY <2>1, <2>2
<1>5. HarnessInv
  BY <1>1, <1>2, <1>3, <1>4, HarnessMoves, ArmKinds DEF LeaderSteps, Outcomes, TrialInv, HarnessTyped
<1>6. CASE UNCHANGED <<proc, outage>>
  <2>1. WorldInv'
    BY <1>1, <1>6, WorldSame DEF TrialInv, procVars
  <2> QED
    BY <1>1, <1>2, <1>3, <1>5, <1>6, <2>1
<1>7. ASSUME NEW r, Put(victim', r),
             r \in {CutPath(victim'), HealPath(victim'), [proc[victim'] EXCEPT !.stopped = FALSE]}
      PROVE  WorldInv' /\ \A p \in Schedulers : proc'[p].phase \in {proc[p].phase, "dead"}
  <2>1. WorldInv'
    BY <1>1, <1>4, <1>7, HitInv DEF TrialInv, storeVars
  <2>2. r.phase \in {proc[victim'].phase, "dead"}
    BY <1>4, <1>7, HitRecord DEF TrialInv, WorldInv, World
  <2> QED
    BY <1>4, <1>7, <2>1, <2>2 DEF Put, TrialInv, WorldInv, World, ProcTyped
<1> QED
  BY <1>1, <1>2, <1>3, <1>4, <1>5, <1>6, <1>7

\* The holder of the lease dies, or there is none.
LEMMA ChurnInv ==
  ASSUME TrialInv, ChurnLeader \/ ChurnAgain
  PROVE  /\ WorldInv' /\ HarnessInv
         /\ StoreTrial /\ UNCHANGED <<storeVars, arm, led, submit, workers, defers, data>>
         /\ \/ step = "churn" /\ step' = "window" /\ outcome' = outcome
            \/ step = "churn" /\ step' = "defer"
            \/ step = "churn2" /\ step' \in {"reelect", "verdict"} /\ outcome' = outcome
         /\ \/ UNCHANGED proc
            \/ \E p \in Schedulers : Put(p, Killed(p))
<1> USE DEF At, Goto, Return, KillHolder
<1>1. /\ UNCHANGED <<storeVars, arm, led, backlog, gap, outage, data, victim, submit, workers,
                     watch, defers>>
      /\ step \in {"churn", "churn2"}
  BY DEF ChurnLeader, ChurnAgain
<1>2. StoreTrial
  BY <1>1, ArmKinds DEF TrialInv, StepTyped, LeaderSteps, BenchSteps
<1>3. /\ timer' \in Nat
      /\ \/ step = "churn" /\ step' = "window" /\ outcome' = outcome
         \/ step = "churn" /\ step' = "defer" /\ outcome' = "nobody"
         \/ step = "churn2" /\ step' \in {"reelect", "verdict"} /\ outcome' = outcome
      /\ UNCHANGED proc \/ (LeaderFound /\ Put(LeaseOwner, Killed(LeaseOwner)))
  BY DurationsNat DEF ChurnLeader, ChurnAgain
<1>4. HarnessInv
  BY <1>1, <1>2, <1>3, HarnessMoves, ArmKinds DEF StoreSteps, Outcomes, TrialInv, HarnessTyped
<1>5. CASE UNCHANGED proc
  <2>1. WorldInv'
    BY <1>1, <1>5, WorldSame DEF TrialInv, procVars
  <2> QED
    BY <1>1, <1>2, <1>3, <1>4, <1>5, <2>1
<1>6. CASE LeaderFound /\ Put(LeaseOwner, Killed(LeaseOwner))
  <2>1. LeaseOwner \in Schedulers
    BY <1>6, OwnerTyped DEF TrialInv, WorldInv, World
  <2>2. WorldInv'
    BY <1>1, <1>6, <2>1, HitInv DEF TrialInv, storeVars
  <2> QED
    BY <1>1, <1>2, <1>3, <1>4, <1>6, <2>1, <2>2
<1> QED
  BY <1>3, <1>5, <1>6

\* Epochs above the counter of the promoted node count anew.
Forgets == led' = [e \in 1 .. MaxEpoch |-> IF e <= db[master'].counter THEN led[e] ELSE 0]

\* What a store trial does to Redis.
LEMMA StoreFaultInv ==
  ASSUME TrialInv, StoreFault \/ MasterDies \/ Failover
  PROVE  /\ WorldInv' /\ HarnessInv
         /\ StoreTrial /\ UNCHANGED <<db, arm, proc, data, submit, workers, outcome, defers>>
         /\ \/ /\ step = "before" /\ step' \in {"cutting", "churn"}
               /\ UNCHANGED <<master, alive, led>>
            \/ /\ step = "crash" /\ step' = "failover" /\ KillMaster /\ timer' = DownAfter
               /\ UNCHANGED led
            \/ step = "failover" /\ timer = 0 /\ step' = "promoted" /\ Promote /\ Forgets
<1> USE DEF At, Goto
<1>1. /\ UNCHANGED <<db, arm, proc, backlog, gap, outage, data, victim, submit, workers, watch, outcome,
                     defers>>
      /\ timer' \in Nat
      /\ \/ /\ step = "before" /\ step' \in {"cutting", "churn"}
            /\ UNCHANGED <<master, alive, led>> /\ StoreTrial
         \/ /\ step = "crash" /\ step' = "failover" /\ KillMaster /\ timer' = DownAfter
            /\ UNCHANGED led
         \/ step = "failover" /\ timer = 0 /\ step' = "promoted" /\ Promote /\ Forgets
  BY DurationsNat DEF StoreFault, MasterDies, Failover, CutReplication, KillMaster, Promote, Forgets,
                      storeVars, procVars
<1>2. StoreTrial
  BY <1>1, ArmKinds DEF TrialInv, StepTyped, LeaderSteps, BenchSteps
<1>3. HarnessInv
  BY <1>1, <1>2, HarnessMoves, ArmKinds DEF StoreSteps, TrialInv, HarnessTyped
<1>4. UNCHANGED storeVars \/ CutReplication \/ KillMaster \/ Promote
  BY DEF StoreFault, MasterDies, Failover
<1>5. MeasuresTyped'
  BY <1>1 DEF TrialInv, WorldInv, World, MeasuresTyped, Forgets
<1>6. WorldInv'
  BY <1>1, <1>4, <1>5, StoreStepInv, StoreSame, ProcSame, SortedSame DEF TrialInv, WorldInv, World, storeVars
<1> QED
  BY <1>1, <1>2, <1>3, <1>6

LEMMA TasksExecutedInv ==
  ASSUME TrialInv, TasksExecuted
  PROVE  WorldInv' /\ HarnessInv
<1>1. /\ UNCHANGED <<storeVars, arm, proc, led, gap, outage, data, harnessVars>>
      /\ backlog' = FALSE
  BY DEF TasksExecuted
<1>2. HarnessInv
  BY <1>1, HarnessSame DEF harnessVars
<1>3. MeasuresTyped'
  BY <1>1 DEF TrialInv, WorldInv, World, MeasuresTyped
<1> QED
  BY <1>1, <1>2, <1>3, StoreSame, ProcSame, SortedSame DEF TrialInv, WorldInv, World, storeVars

LEMMA SchedulerInv ==
  ASSUME TrialInv, Scheduler
  PROVE  /\ WorldInv' /\ HarnessInv
         /\ Running /\ UNCHANGED harnessVars /\ \E p \in Schedulers : ReplicaStep(p)
<1>1. Running /\ UNCHANGED harnessVars /\ \E p \in Schedulers : ReplicaStep(p)
  BY DEF Scheduler, Replica, Running
<1>2. WorldInv'
  BY <1>1, ReplicaStepInv DEF TrialInv
<1>3. UNCHANGED arm
  BY <1>1 DEF ReplicaStep, Campaign, TermBegins, GrantHandedBack, Renew, DispatchPass
<1> QED
  BY <1>1, <1>2, <1>3, HarnessSame DEF harnessVars

-----------------------------------------------------------------------------
(***************************************************************************)
(* Time, the trial's limit, and the deferred calls.                         *)
(***************************************************************************)
LEMMA DownNat ==
  ASSUME NEW n \in Nat
  PROVE  Down(n) \in Nat /\ Down(n) <= n /\ (n > 0 => Down(n) < n)
BY DEF Down

LEMMA AgedCell ==
  ASSUME NEW c \in Cell
  PROVE  Aged(c) \in Cell /\ Aged(c).log = c.log /\ Aged(c).fence = c.fence /\ Aged(c).counter = c.counter
<1>1. c.left \in Nat /\ (IF c.left > 0 THEN c.left - 1 ELSE 0) \in Nat
  BY DEF Cell
<1> QED
  BY <1>1, NoGrantTyped DEF Aged, Cell

TickRecord(p) == [proc[p] EXCEPT !.timer = Down(@), !.due = proc[p].phase = "leading"]

LEMMA TickRecordTyped ==
  ASSUME ProcTyped, NEW p \in Schedulers
  PROVE  /\ TickRecord(p) \in ProcRecord /\ Coherent(TickRecord(p))
         /\ TickRecord(p).phase = proc[p].phase /\ TickRecord(p).epoch = proc[p].epoch
         /\ TickRecord(p).stopped = proc[p].stopped
<1>1. proc[p] \in ProcRecord /\ Coherent(proc[p])
  BY ProcOf
<1>2. Down(proc[p].timer) \in Nat
  BY <1>1, DownNat DEF ProcRecord
<1>3. /\ TickRecord(p) \in ProcRecord
      /\ TickRecord(p).phase = proc[p].phase /\ TickRecord(p).epoch = proc[p].epoch
      /\ TickRecord(p).stopped = proc[p].stopped
  BY <1>1, <1>2 DEF TickRecord, ProcRecord
<1> QED
  BY <1>3, OtherFields

LEMMA TickInv ==
  ASSUME TrialInv, Tick
  PROVE  /\ WorldInv' /\ HarnessInv
         /\ Running /\ timer' = Down(timer)
         /\ UNCHANGED <<master, alive, online, arm, led, step, workers, outcome, defers>>
         /\ db' = [i \in Nodes |-> Aged(db[i])]
         /\ proc' = [p \in Schedulers |-> TickRecord(p)]
         /\ \A p \in Schedulers : ~Due(p)
         /\ submit'.state # submit.state => submit.state = "running"
         /\ submit'.state = "idle" => submit.state = "idle"
<1>1. /\ Running /\ timer' = Down(timer)
      /\ UNCHANGED <<master, alive, online, link, arm, led, outage, step, victim, workers, watch,
                     outcome, defers>>
      /\ db' = [i \in DOMAIN db |-> Aged(db[i])]
      /\ proc' = [p \in Schedulers |-> TickRecord(p)]
      /\ \A p \in Schedulers : ~Due(p)
  BY DEF Tick, Running, TickRecord, Quiet
<1>2. db \in [Nodes -> Cell] /\ DOMAIN db = Nodes /\ Nodes' = Nodes
  BY <1>1 DEF TrialInv, WorldInv, World, StoreTyped, Nodes
<1>3. /\ db' \in [Nodes -> Cell]
      /\ \A i \in Nodes : db'[i].log = db[i].log /\ db'[i].fence = db[i].fence
  BY <1>1, <1>2, AgedCell
<1>4. StoreTyped'
  BY <1>1, <1>2, <1>3 DEF TrialInv, WorldInv, World, StoreTyped
<1>5. LogsSorted'
  BY <1>2, <1>3 DEF TrialInv, WorldInv, LogsSorted, CellSorted
<1>6. ProcTyped'
  BY <1>1, TickRecordTyped DEF TrialInv, WorldInv, World, ProcTyped
<1>7. MeasuresTyped'
  <2>0. gap' = gap \/ (gap < MaxGap /\ gap' = gap + 1)
    BY DEF Tick
  <2>1. gap' \in 0 .. MaxGap
    BY <2>0, DurationsNat DEF TrialInv, WorldInv, World, MeasuresTyped
  <2>2. backlog' \in BOOLEAN /\ data' \in BOOLEAN
    BY DEF Tick
  <2> QED
    BY <1>1, <2>1, <2>2 DEF TrialInv, WorldInv, World, MeasuresTyped
<1>8. /\ submit' \in [state : {"idle", "running", "done", "failed"}, left : Nat]
      /\ submit'.state # submit.state => submit.state = "running"
      /\ submit'.state = "idle" => submit.state = "idle"
  <2>1. submit \in [state : {"idle", "running", "done", "failed"}, left : Nat]
    BY DEF TrialInv, HarnessTyped
  <2>2. \/ submit' = submit
        \/ submit.state = "running" /\ submit' = [submit EXCEPT !.state = "failed"]
        \/ submit.state = "running" /\ submit.left > 0 /\ submit' = [submit EXCEPT !.left = @ - 1]
        \/ submit.state = "running" /\ submit' = [submit EXCEPT !.state = "done"]
    <3>1. /\ submit' = CASE ~Submitting -> submit
                         [] Submitting /\ ~Accepted -> [submit EXCEPT !.state = "failed"]
                         [] Accepted /\ submit.left > 0 -> [submit EXCEPT !.left = @ - 1]
                         [] Accepted /\ submit.left = 0 -> [submit EXCEPT !.state = "done"]
          /\ submit.left \in Nat /\ (Accepted => Submitting)
      BY <2>1 DEF Tick, Accepted
    <3>2. CASE ~Submitting
      BY <3>1, <3>2
    <3>3. CASE Submitting /\ ~Accepted
      BY <3>1, <3>3 DEF Submitting
    <3>4. CASE Accepted /\ submit.left > 0
      BY <3>1, <3>4 DEF Submitting
    <3>5. CASE Accepted /\ submit.left = 0
      BY <3>1, <3>5 DEF Submitting
    <3> QED
      BY <3>1, <3>2, <3>3, <3>4, <3>5
  <2> QED
    BY <2>1, <2>2
<1>9. HarnessTyped'
  BY <1>1, <1>8, DownNat DEF TrialInv, HarnessTyped
<1>10. StepTyped'
  BY <1>1 DEF TrialInv, StepTyped, LeaderTrial, StoreTrial, Bench
<1> QED
  BY <1>1, <1>2, <1>4, <1>5, <1>6, <1>7, <1>8, <1>9, <1>10 DEF WorldInv, World, HarnessInv

LEMMA StoppedTyped ==
  ASSUME HarnessTyped
  PROVE  /\ Stopped(submit) \in [state : {"idle", "running", "done", "failed"}, left : Nat]
         /\ Stopped(submit).state \in {"done", "failed"}
BY DEF HarnessTyped, Stopped

LEMMA EveryoneInv ==
  ASSUME ProcTyped, Everyone(Killed) \/ Everyone(Continued)
  PROVE  /\ ProcTyped'
         /\ \A p \in Schedulers : proc'[p].phase \in {proc[p].phase, "dead"}
         /\ Everyone(Killed) => \A p \in Schedulers : proc'[p].phase = "dead"
<1>1. CASE Everyone(Killed)
  BY <1>1, KilledRecord DEF Everyone, ProcTyped
<1>2. CASE Everyone(Continued)
  <2>1. proc' = [p \in Schedulers |-> Continued(p)]
    BY <1>2 DEF Everyone
  <2>2. ASSUME NEW p \in Schedulers
        PROVE  Continued(p) \in ProcRecord /\ Coherent(Continued(p)) /\ Continued(p).phase = proc[p].phase
    BY ProcOf DEF Continued, ProcRecord, Coherent
  <2>3. ASSUME Everyone(Killed) PROVE \A p \in Schedulers : proc'[p].phase = "dead"
    BY <2>3, KilledRecord DEF Everyone
  <2> QED
    BY <2>1, <2>2, <2>3 DEF ProcTyped
<1> QED
  BY <1>1, <1>2

LEMMA CtxExpiresInv ==
  ASSUME TrialInv, CtxExpires
  PROVE  /\ WorldInv' /\ HarnessInv
         /\ Running /\ step' = "defer" /\ outcome' = "timeout"
         /\ UNCHANGED <<db, arm, led, workers, defers>>
         /\ submit'.state \in {"done", "failed"}
         /\ \A p \in Schedulers : proc'[p].phase = "dead"
<1>1. /\ Running /\ step' = "defer" /\ timer' = 0 /\ outcome' = "timeout"
      /\ Everyone(Killed) /\ submit' = Stopped(submit)
      /\ (alive' = {} /\ online' = {}) \/ UNCHANGED <<alive, online>>
      /\ UNCHANGED <<db, master, link, arm, led, backlog, gap, outage, data, victim, workers,
                     watch, defers>>
  BY DEF CtxExpires, Running, Return, StopCluster
<1>2. ProcTyped' /\ \A p \in Schedulers : proc'[p].phase = "dead"
  BY <1>1, EveryoneInv DEF TrialInv, WorldInv, World
<1>3. StoreTyped'
  BY <1>1 DEF TrialInv, WorldInv, World, StoreTyped, Nodes
<1>4. WorldInv'
  BY <1>1, <1>2, <1>3, SortedSame, MeasuresSame DEF TrialInv, WorldInv, World
<1>5. HarnessTyped' /\ submit'.state \in {"done", "failed"}
  BY <1>1, StoppedTyped DEF TrialInv, HarnessTyped, Outcomes
<1>6. StepTyped'
  BY <1>1 DEF StepTyped, LeaderTrial, StoreTrial, Bench, LeaderSteps, StoreSteps, BenchSteps
<1> QED
  BY <1>1, <1>2, <1>4, <1>5, <1>6 DEF HarnessInv

LEMMA RunDeferredInv ==
  ASSUME TrialInv, RunDeferred
  PROVE  WorldInv' /\ HarnessInv
<1>1. /\ step = "defer" /\ step' = step
      /\ Everyone(Killed) \/ Everyone(Continued) \/ UNCHANGED proc
      /\ (alive' = {} /\ online' = {}) \/ UNCHANGED <<alive, online>>
      /\ submit' \in {submit, Stopped(submit)}
      /\ workers' \in BOOLEAN /\ data' \in BOOLEAN
      /\ UNCHANGED <<db, master, link, arm, led, backlog, gap, outage, timer, victim, watch, outcome>>
  BY DEF RunDeferred, StopCluster, DataAfter
<1>2. ProcTyped'
  BY <1>1, EveryoneInv, ProcSame DEF TrialInv, WorldInv, World
<1>3. StoreTyped'
  BY <1>1 DEF TrialInv, WorldInv, World, StoreTyped, Nodes
<1>4. MeasuresTyped'
  BY <1>1 DEF TrialInv, WorldInv, World, MeasuresTyped
<1>5. WorldInv'
  BY <1>1, <1>2, <1>3, <1>4, SortedSame DEF TrialInv, WorldInv, World
<1>6. HarnessTyped'
  BY <1>1, StoppedTyped DEF TrialInv, HarnessTyped
<1>7. StepTyped'
  BY <1>1 DEF TrialInv, StepTyped, LeaderTrial, StoreTrial, Bench
<1> QED
  BY <1>5, <1>6, <1>7 DEF HarnessInv

-----------------------------------------------------------------------------
(***************************************************************************)
(* The invariant of all trials.                                             *)
(***************************************************************************)
LEMMA StartedTyped ==
  ASSUME NEW a, NEW o \in Offsets, NEW p \in Schedulers
  PROVE  /\ Started(a, o)[p] \in ProcRecord /\ Coherent(Started(a, o)[p])
         /\ ~Started(a, o)[p].stopped /\ Started(a, o)[p].phase \in {"standby", "dead"}
         /\ p \notin Members(a) => Started(a, o)[p].phase = "dead"
<1>1. o[p] \in Nat /\ 0 \in Nat /\ 0 \in 0 .. MaxEpoch
  BY DurationsNat DEF Offsets
<1> QED
  BY <1>1 DEF Started, Process, ProcRecord, Coherent, Phases

LEMMA TrialInvInit ==
  ASSUME Init
  PROVE  TrialInv
<1>1. arm \in Arms
  BY DEF Init, Arms
<1>2. arm.nodes \in Nat
  BY <1>1, ArmFacts
<1>3. EmptyCell \in Cell /\ CellSorted(EmptyCell)
  BY NoGrantTyped, DurationsNat DEF EmptyCell, Cell, CellSorted
<1>4. StoreTyped /\ LogsSorted
  BY <1>1, <1>2, <1>3 DEF Init, StoreInit, ReplicasOnline, StoreTyped, LogsSorted, Nodes
<1>5. ProcTyped
  <2>1. PICK o \in Offsets : proc = Started(arm, o)
    BY DEF Init
  <2>2. DOMAIN proc = Schedulers /\ proc = [p \in Schedulers |-> proc[p]]
    BY <2>1 DEF Started
  <2> QED
    BY <2>1, <2>2, StartedTyped DEF ProcTyped
<1>6. MeasuresTyped
  <2>1. led \in [1 .. MaxEpoch -> Nat]
    BY DEF Init
  <2>2. gap \in 0 .. MaxGap /\ outage = NoFault /\ backlog = FALSE /\ data = TRUE
    BY DurationsNat DEF Init
  <2> QED
    BY <2>1, <2>2 DEF MeasuresTyped
<1>7. HarnessTyped
  BY NoGrantTyped, DurationsNat DEF Init, HarnessTyped, SteadySpecs, NewWatch, Outcomes
<1>8. StepTyped
  BY DEF Init, StepTyped, LeaderSteps, StoreSteps, BenchSteps
<1> QED
  BY <1>4, <1>5, <1>6, <1>7, <1>8 DEF TrialInv, WorldInv, World

LEMMA TrialInvNext ==
  ASSUME TrialInv, [Next]_vars
  PROVE  TrialInv'
<1>1. CASE QuietStep
  BY <1>1, QuietStepInv DEF TrialInv, HarnessInv
<1>2. CASE LoadStarts \/ ComponentsReady \/ ComponentsStop
  BY <1>2, LoadInv DEF TrialInv, HarnessInv
<1>3. CASE WatchPoll \/ TasksExecuted
  BY <1>3, WatchPollInv, TasksExecutedInv DEF TrialInv, HarnessInv
<1>4. CASE SignalLeader \/ CutLeader \/ Resume \/ Heal \/ FlapAgain
  BY <1>4, SignalLeaderInv, LeaderFaultInv DEF TrialInv, HarnessInv
<1>5. CASE ChurnLeader \/ ChurnAgain \/ StoreFault \/ MasterDies \/ Failover
  BY <1>5, ChurnInv, StoreFaultInv DEF TrialInv, HarnessInv
<1>6. CASE Scheduler \/ Tick \/ CtxExpires \/ RunDeferred
  BY <1>6, SchedulerInv, TickInv, CtxExpiresInv, RunDeferredInv DEF TrialInv, HarnessInv
<1>7. CASE Replication \/ Repair
  <2>1. WorldInv' /\ UNCHANGED <<arm, procVars, harnessVars>>
    BY <1>7, ReplicationInv DEF TrialInv
  <2> QED
    BY <2>1, HarnessSame DEF TrialInv, HarnessInv, harnessVars
<1>8. CASE UNCHANGED vars
  <2>1. UNCHANGED <<storeVars, arm, procVars, harnessVars>>
    BY <1>8 DEF vars
  <2> QED
    BY <2>1, WorldSame, HarnessSame DEF TrialInv, HarnessInv, harnessVars
<1> QED
  BY <1>1, <1>2, <1>3, <1>4, <1>5, <1>6, <1>7, <1>8 DEF Next, Harness, QuietStep

LEMMA TrialInvariant == Spec => []TrialInv
<1>1. Init => TrialInv
  BY TrialInvInit
<1>2. TrialInv /\ [Next]_vars => TrialInv'
  BY TrialInvNext
<1> QED
  BY <1>1, <1>2, PTL DEF Spec

LEMMA TrialInvImpliesTypes ==
  ASSUME TrialInv
  PROVE  TypeOK
<1>1. StoreTypeOK
  <2>1. DOMAIN db = Nodes /\ master \in Nodes /\ alive \subseteq Nodes /\ online \subseteq alive
        /\ link \in {"up", "cut"}
    BY DEF TrialInv, WorldInv, World, StoreTyped
  <2>2. ASSUME NEW i \in Nodes
        PROVE  /\ db[i].holder \in Grant /\ db[i].counter \in 0 .. MaxEpoch
               /\ db[i].fence \in 0 .. MaxEpoch
               /\ \A k \in DOMAIN db[i].log : db[i].log[k] \in 1 .. MaxEpoch
    <3>1. db[i] \in Cell
      BY DEF TrialInv, WorldInv, World, StoreTyped
    <3>2. db[i].log \in Seq(1 .. MaxEpoch)
      BY <3>1 DEF Cell
    <3> QED
      BY <3>1, <3>2, EntryOf DEF Cell
  <2> QED
    BY <2>1, <2>2 DEF StoreTypeOK
<1>2. ASSUME NEW p \in Schedulers
      PROVE  /\ proc[p].phase \in Phases
             /\ proc[p].epoch \in 0 .. MaxEpoch
             /\ proc[p].phase \in {"granted", "leading"} <=> proc[p].epoch # 0
             /\ proc[p].path \in {"up", "cut"}
  BY ProcOf DEF TrialInv, WorldInv, World, ProcRecord, Coherent
<1> QED
  BY <1>1, <1>2 DEF TypeOK, TrialInv, WorldInv, World, MeasuresTyped, HarnessTyped, Outcomes

\* Every trial keeps its types, whatever its arm, and exactly the processes
\* with a grant have an epoch: every way out of a term goes through forget.
THEOREM TrialTypeCorrect == Spec => []TypeOK
<1>1. TrialInv => TypeOK
  BY TrialInvImpliesTypes
<1> QED
  BY <1>1, TrialInvariant, PTL

-----------------------------------------------------------------------------
(***************************************************************************)
(* The order of the record.                                                 *)
(***************************************************************************)
LEMMA NoInversions ==
  ASSUME TrialInv
  PROVE  Inversions = 0
<1> DEFINE inverted == {i \in DOMAIN Current.log : \E j \in 1 .. i - 1 : Current.log[j] > Current.log[i]}
<1>1. Current.log \in Seq(1 .. MaxEpoch) /\ CellSorted(Current)
  BY CurrentTyped, SameRecordSorted DEF TrialInv, WorldInv, World
<1>2. ASSUME NEW i \in DOMAIN Current.log, NEW j \in 1 .. i - 1 PROVE ~(Current.log[j] > Current.log[i])
  <2>1. DOMAIN Current.log = 1 .. Len(Current.log) /\ Len(Current.log) \in Nat
    BY <1>1
  <2>2. j \in DOMAIN Current.log /\ j <= i
    BY <2>1
  <2>3. Current.log[j] <= Current.log[i]
    BY <1>1, <2>2 DEF CellSorted
  <2>4. Current.log[j] \in 1 .. MaxEpoch /\ Current.log[i] \in 1 .. MaxEpoch
    BY <1>1, <2>2, EntryOf
  <2> QED
    BY <2>3, <2>4
<1>3. inverted = {}
  BY <1>2
<1>4. Inversions = Cardinality(inverted)
  BY DEF Inversions, EpochInversions, DispatchRecord
<1> QED
  BY <1>3, <1>4, FS_EmptySet

LEMMA OutcomeNotInverted ==
  ASSUME TrialInv, outcome # "inverted", [Next]_vars
  PROVE  outcome' # "inverted"
<1> USE DEF Check, Return, Goto
<1>1. CASE Verdict
  BY <1>1, NoInversions DEF Verdict
<1>2. CASE GaugesRead \/ Settled \/ CutConfirmed \/ WindowEnds \/ SubmitReturns \/ StoreVerdict
           \/ CollectResults
  BY <1>2 DEF GaugesRead, Settled, CutConfirmed, WindowEnds, SubmitReturns, StoreVerdict, CollectResults
<1>3. CASE SignalLeader \/ CutLeader \/ Resume \/ Heal \/ FlapAgain
  BY <1>3, SignalLeaderInv, LeaderFaultInv
<1>4. CASE ChurnLeader \/ ChurnAgain
  BY <1>4 DEF ChurnLeader, ChurnAgain, KillHolder
<1>5. CASE CtxExpires
  BY <1>5, CtxExpiresInv
<1>6. CASE LeaderSeen \/ StoreLeaderSeen \/ LoadStarts \/ ReadPromoted \/ ReelectionSeen
           \/ WatchPoll \/ StoreSubmitReturns \/ DrainReturns \/ ComponentsReady \/ LoadSubmitted
           \/ CompletionSeen \/ ComponentsStop \/ TasksExecuted \/ StoreFault \/ MasterDies \/ Failover
  BY <1>6 DEF LeaderSeen, StoreLeaderSeen, LoadStarts, ReadPromoted, ReelectionSeen, WatchPoll,
       StoreSubmitReturns, DrainReturns, ComponentsReady, LoadSubmitted, CompletionSeen,
       ComponentsStop, TasksExecuted, StoreFault, MasterDies, Failover, harnessVars
<1>7. CASE Scheduler \/ Replication \/ Repair \/ Tick \/ RunDeferred \/ Finish \/ UNCHANGED vars
  BY <1>7 DEF Scheduler, Replication, Repair, Tick, RunDeferred, Finish, vars, harnessVars
<1> QED
  BY <1>1, <1>2, <1>3, <1>4, <1>5, <1>6, <1>7 DEF Next, Harness

\* The execution stream that runTrial reads back never shows an epoch lower
\* than one written before it, and no trial fails for that reason: the fence
\* refuses a superseded leader on every node that a client can be sent to,
\* after any pause, cut or failover.  The runs check this of the leader trials
\* only, as part of OneWriterAfterReturn.
THEOREM RecordNeverInverted == Spec => [](Inversions = 0 /\ outcome # "inverted")
<1>1. Init => outcome # "inverted"
  BY DEF Init
<1>2. TrialInv /\ outcome # "inverted" /\ [Next]_vars => (outcome # "inverted")'
  BY OutcomeNotInverted
<1>3. TrialInv => Inversions = 0
  BY NoInversions
<1> QED
  BY <1>1, <1>2, <1>3, TrialInvariant, PTL DEF Spec

-----------------------------------------------------------------------------
(***************************************************************************)
(* Cleaning up.                                                             *)
(***************************************************************************)
LEMMA FullDefers ==
  ASSUME TrialInv, DefersLeft, Running
  PROVE  /\ LeaderTrial => Len(defers) = 5
         /\ StoreTrial => Len(defers) = 4
         /\ Bench => Len(defers) = 2
         /\ defers # <<>>
<1>1. Len(Deferred) = 5 /\ Len(StoreDeferred) = 4 /\ Len(BenchDeferred) = 2
  BY DEF Deferred, StoreDeferred, BenchDeferred
<1>2. Deferred # <<>> /\ StoreDeferred # <<>> /\ BenchDeferred # <<>>
  BY DEF Deferred, StoreDeferred, BenchDeferred
<1> QED
  BY <1>1, <1>2, ArmKinds DEF DefersLeft

\* A step of a trial that has not returned yet.
LEMMA CleanupMoves ==
  ASSUME TrialInv, CleanupInv, Running, UNCHANGED <<arm, defers>>, step' # "ended",
         step' # "defer" => outcome' = outcome,
         \A p \in Schedulers : proc[p].phase = "dead" => proc'[p].phase = "dead",
         ProducerBounded'
  PROVE  CleanupInv'
<1>1. LeaderTrial' = LeaderTrial /\ StoreTrial' = StoreTrial /\ Bench' = Bench
  BY DEF LeaderTrial, StoreTrial, Bench
<1>2. ResultLast'
  BY DEF CleanupInv, ResultLast, Running
<1>3. BenchAlone'
  BY <1>1 DEF CleanupInv, BenchAlone
<1>4. DefersLeft'
  BY <1>1 DEF CleanupInv, DefersLeft, Running
<1>5. Cleaned'
  <2>1. /\ LeaderTrial => Len(defers') = 5
        /\ StoreTrial => Len(defers') = 4
        /\ Bench => Len(defers') = 2
        /\ defers' # <<>>
    BY FullDefers DEF CleanupInv
  <2>2. /\ ~Bench => ~(Len(defers') <= 2) /\ ~(Len(defers') <= 3)
        /\ LeaderTrial \/ StoreTrial \/ Bench => ~(Len(defers') <= 1)
    <3> DEFINE n == Len(defers')
    <3>1. n \in {2, 4, 5} /\ (~Bench => n \in {4, 5})
      BY <2>1, ArmKinds
    <3> HIDE DEF n
    <3>2. ~(n <= 1) /\ (~Bench => ~(n <= 2) /\ ~(n <= 3))
      BY <3>1
    <3> QED
      BY <3>2 DEF n
  <2> QED
    BY <1>1, <2>1, <2>2, ArmKinds DEF Cleaned
<1> QED
  BY <1>2, <1>3, <1>4, <1>5 DEF CleanupInv

\* The producer and the workers are left alone and the trial goes on.
LEMMA CleanupContinues ==
  ASSUME TrialInv, CleanupInv, Running, UNCHANGED <<arm, defers, submit, workers, outcome>>,
         step' \notin {"defer", "ended", "elect", "gauges", "load", "drain", "verdict", "stop", "collect"}
         \/ step' = step,
         \A p \in Schedulers : proc[p].phase = "dead" => proc'[p].phase = "dead"
  PROVE  CleanupInv'
<1>1. StoreTrial' = StoreTrial /\ Bench' = Bench /\ Running'
  BY DEF StoreTrial, Bench, Running
<1>2. ProducerBounded'
  BY <1>1 DEF CleanupInv, ProducerBounded, Running
<1> QED
  BY <1>1, <1>2, CleanupMoves DEF Running

\* When a harness step returns, the producer has ended or the error is early.
LEMMA QuietReturns ==
  ASSUME TrialInv, CleanupInv, QuietStep, step' = "defer"
  PROVE  /\ StoreTrial \/ EarlyError' \/ submit.state # "running"
         /\ Bench => step = "collect"
<1> USE DEF At, Goto, Check, Return
<1>1. LeaderTrial' = LeaderTrial
  BY QuietStepFrame DEF LeaderTrial, StoreTrial, Bench
<1>2. CASE GaugesRead
  BY <1>2, ArmKinds DEF GaugesRead, CleanupInv, ProducerBounded, TrialInv, StepTyped, BenchSteps
<1>3. CASE Settled
  BY <1>1, <1>3, ArmKinds DEF Settled, EarlyError, TrialInv, StepTyped, BenchSteps, StoreSteps
<1>4. CASE CutConfirmed \/ WindowEnds
  BY <1>4, ArmKinds DEF CutConfirmed, WindowEnds, TrialInv, StepTyped, BenchSteps, LeaderSteps
<1>5. CASE SubmitReturns \/ Verdict \/ StoreVerdict
  BY <1>5, ArmKinds DEF SubmitReturns, Verdict, StoreVerdict, CleanupInv, ProducerBounded
<1>6. CASE CollectResults
  BY <1>6 DEF CollectResults, CleanupInv, ProducerBounded
<1>7. CASE LeaderSeen \/ StoreLeaderSeen \/ ReadPromoted \/ ReelectionSeen \/ StoreSubmitReturns
           \/ DrainReturns \/ LoadSubmitted \/ CompletionSeen \/ Finish
  BY <1>7 DEF LeaderSeen, StoreLeaderSeen, ReadPromoted, ReelectionSeen, StoreSubmitReturns,
              DrainReturns, LoadSubmitted, CompletionSeen, Finish
<1> QED
  BY <1>2, <1>3, <1>4, <1>5, <1>6, <1>7 DEF QuietStep

LEMMA QuietStepCleanup ==
  ASSUME TrialInv, CleanupInv, QuietStep, ~Finish
  PROVE  CleanupInv'
<1>1. /\ UNCHANGED <<storeVars, arm, procVars, victim, submit, workers, watch, defers>>
      /\ StoreTrial' = StoreTrial /\ Bench' = Bench /\ LeaderTrial' = LeaderTrial
  BY QuietStepFrame DEF StoreTrial, Bench, LeaderTrial
<1>2. Running /\ step' # "ended"
  BY QuietStepMoves DEF QuietStep, LeaderSeen, StoreLeaderSeen, GaugesRead, Settled, CutConfirmed,
       WindowEnds, ReadPromoted, ReelectionSeen, SubmitReturns, StoreSubmitReturns, DrainReturns,
       Verdict, StoreVerdict, LoadSubmitted, CompletionSeen, CollectResults, At, Running, Goto,
       Check, Return
<1>3. ProducerBounded'
  <2>1. CASE step' = "defer"
    BY <1>1, <2>1, QuietReturns DEF ProducerBounded
  <2>2. CASE step' # "defer"
    <3>1. Running'
      BY <1>2, <2>2 DEF Running
    <3> QED
      <4>1. ~StoreTrial => step # "reelect"
        BY ArmKinds DEF TrialInv, StepTyped, LeaderSteps, BenchSteps
      <4> QED
        BY <1>1, <2>2, <3>1, <4>1, QuietStepMoves DEF CleanupInv, ProducerBounded
  <2> QED
    BY <2>1, <2>2
<1>4. step' # "defer" => outcome' = outcome
  BY QuietStepMoves
<1> QED
  BY <1>1, <1>2, <1>3, <1>4, CleanupMoves DEF procVars

LEMMA LoadCleanup ==
  ASSUME TrialInv, CleanupInv, LoadStarts \/ ComponentsReady \/ ComponentsStop
  PROVE  CleanupInv'
<1>1. /\ UNCHANGED <<storeVars, arm, procVars, victim, watch, outcome, defers>>
      /\ StoreTrial' = StoreTrial /\ Bench' = Bench
      /\ \/ step \in {"elect", "load"} /\ step' \in {"before", "submit"}
         \/ step = "stop" /\ step' = "collect" /\ ~workers' /\ submit' = submit
  BY LoadInv DEF StoreTrial, Bench
<1>2. Running /\ Running' /\ step' \notin {"defer", "ended"}
  BY <1>1 DEF Running
<1>3. ProducerBounded'
  BY <1>1, <1>2 DEF CleanupInv, ProducerBounded
<1> QED
  BY <1>1, <1>2, <1>3, CleanupMoves DEF procVars

LEMMA LeaderFaultCleanup ==
  ASSUME TrialInv, CleanupInv, SignalLeader \/ CutLeader \/ Resume \/ Heal \/ FlapAgain
  PROVE  CleanupInv'
<1>1. /\ LeaderTrial /\ UNCHANGED <<arm, submit, workers, defers>>
      /\ step \in {"before", "paused", "cut", "healed"}
      /\ \/ step' = "defer" /\ outcome' \in {"nobody", "unsuperseded"}
         \/ step' \in {"paused", "submit", "cut", "healed", "settle"} /\ outcome' = outcome
      /\ \A p \in Schedulers : proc'[p].phase \in {proc[p].phase, "dead"}
  BY SignalLeaderInv, LeaderFaultInv
<1>2. LeaderTrial' = LeaderTrial /\ ~Bench' /\ Running
  BY <1>1 DEF LeaderTrial, StoreTrial, Bench, Running
<1>3. CASE step' # "defer"
  BY <1>1, <1>2, <1>3, CleanupContinues
<1>4. CASE step' = "defer"
  <2>1. ProducerBounded'
    BY <1>1, <1>2, <1>4 DEF ProducerBounded, EarlyError
  <2> QED
    BY <1>1, <1>2, <1>4, <2>1, CleanupMoves
<1> QED
  BY <1>3, <1>4

LEMMA StoreTrialCleanup ==
  ASSUME TrialInv, CleanupInv,
         ChurnLeader \/ ChurnAgain \/ StoreFault \/ MasterDies \/ Failover
  PROVE  CleanupInv'
<1>1. /\ StoreTrial /\ UNCHANGED <<arm, submit, workers, defers>>
      /\ step \in {"before", "churn", "churn2", "crash", "failover"}
      /\ step' \in {"cutting", "churn", "window", "failover", "promoted", "reelect", "verdict", "defer"}
      /\ step' # "defer" => outcome' = outcome
  BY ChurnInv, StoreFaultInv
<1>2. StoreTrial' /\ ~Bench' /\ Running
  BY <1>1, ArmKinds DEF StoreTrial, Bench, Running
<1>3. \A p \in Schedulers : proc[p].phase = "dead" => proc'[p].phase = "dead"
  <2>1. CASE UNCHANGED proc
    BY <2>1
  <2>2. ASSUME NEW p \in Schedulers, Put(p, Killed(p))
        PROVE  \A q \in Schedulers : proc[q].phase = "dead" => proc'[q].phase = "dead"
    BY <2>2, KilledRecord DEF Put, TrialInv, WorldInv, World, ProcTyped
  <2> QED
    BY <2>1, <2>2, ChurnInv, StoreFaultInv DEF procVars
<1>4. ProducerBounded'
  BY <1>1, <1>2 DEF ProducerBounded
<1> QED
  BY <1>1, <1>2, <1>3, <1>4, CleanupMoves

\* What is left tells which call is next.
LEMMA LeaderCalls ==
  ASSUME NEW d \in LeaderDefers, d # <<>>
  PROVE  /\ Tail(d) \in LeaderDefers /\ Len(Tail(d)) = Len(d) - 1 /\ Len(d) \in 1 .. 5
         /\ Tail(d) = <<>> => Len(d) = 1
         /\ Len(d) = 4 => Head(d) = "workers"
         /\ Len(d) = 3 => Head(d) = "schedulers"
         /\ Len(d) = 2 => Head(d) = "reset"
         /\ Len(d) = 1 => Head(d) = "cancel"
<1>1. CASE d = <<"continue", "workers", "schedulers", "reset", "cancel">>
  BY <1>1 DEF LeaderDefers, Deferred
<1>2. CASE d = <<"workers", "schedulers", "reset", "cancel">>
  BY <1>2 DEF LeaderDefers, Deferred
<1>3. CASE d = <<"schedulers", "reset", "cancel">>
  BY <1>3 DEF LeaderDefers, Deferred
<1>4. CASE d = <<"reset", "cancel">>
  BY <1>4 DEF LeaderDefers, Deferred
<1>5. CASE d = <<"cancel">>
  BY <1>5 DEF LeaderDefers, Deferred
<1> QED
  BY <1>1, <1>2, <1>3, <1>4, <1>5 DEF LeaderDefers, Deferred

LEMMA StoreCalls ==
  ASSUME NEW d \in StoreDefers, d # <<>>
  PROVE  /\ Tail(d) \in StoreDefers /\ Len(Tail(d)) = Len(d) - 1 /\ Len(d) \in 1 .. 4
         /\ Tail(d) = <<>> => Len(d) = 1
         /\ Len(d) = 4 => Head(d) = "workers"
         /\ Len(d) = 3 => Head(d) = "schedulers"
         /\ Len(d) = 2 => Head(d) = "cluster"
         /\ Len(d) = 1 => Head(d) = "cancel"
<1>1. CASE d = <<"workers", "schedulers", "cluster", "cancel">>
  BY <1>1 DEF StoreDefers, StoreDeferred
<1>2. CASE d = <<"schedulers", "cluster", "cancel">>
  BY <1>2 DEF StoreDefers, StoreDeferred
<1>3. CASE d = <<"cluster", "cancel">>
  BY <1>3 DEF StoreDefers, StoreDeferred
<1>4. CASE d = <<"cancel">>
  BY <1>4 DEF StoreDefers, StoreDeferred
<1> QED
  BY <1>1, <1>2, <1>3, <1>4 DEF StoreDefers, StoreDeferred

LEMMA BenchCalls ==
  ASSUME NEW d \in BenchDefers, d # <<>>
  PROVE  /\ Tail(d) \in BenchDefers /\ Len(Tail(d)) = Len(d) - 1 /\ Len(d) \in 1 .. 2
         /\ Tail(d) = <<>> => Len(d) = 1
         /\ Len(d) = 2 => Head(d) = "components"
         /\ Len(d) = 1 => Head(d) = "reset"
<1>1. CASE d = <<"components", "reset">>
  BY <1>1 DEF BenchDefers, BenchDeferred
<1>2. CASE d = <<"reset">>
  BY <1>2 DEF BenchDefers, BenchDeferred
<1> QED
  BY <1>1, <1>2 DEF BenchDefers, BenchDeferred

\* Nobody is left who writes.
LEMMA NobodyWrites ==
  ASSUME ~workers, AllDead, submit.state # "running" \/ alive = {}
  PROVE  ~StillWriting
BY DEF AllDead, StillWriting, Accepted, Submitting, Runs, Writable, Reachable

LEMMA DeferredCall ==
  ASSUME TrialInv, CleanupInv, RunDeferred
  PROVE  LET call == Head(defers)
         IN  /\ step = "defer" /\ step' = step /\ defers # <<>> /\ defers' = Tail(defers)
             /\ workers' = (workers /\ call \notin {"workers", "components"})
             /\ data' = DataAfter(call)
             /\ call = "cluster" => alive' = {}
             /\ call # "cluster" => alive' = alive
             /\ submit' = IF call = "cancel" THEN Stopped(submit) ELSE submit
             /\ call = "schedulers" => AllDead'
             /\ AllDead => AllDead'
             /\ UNCHANGED <<arm, outcome>>
<1> DEFINE call == Head(defers)
<1>1. /\ step = "defer" /\ step' = step /\ defers # <<>> /\ defers' = Tail(defers)
      /\ workers' = (workers /\ call \notin {"workers", "components"})
      /\ data' = DataAfter(call)
      /\ call = "cluster" => alive' = {}
      /\ call # "cluster" => alive' = alive
      /\ submit' = IF call = "cancel" THEN Stopped(submit) ELSE submit
      /\ UNCHANGED <<arm, outcome>>
  BY DEF RunDeferred, StopCluster
<1>2. /\ call = "schedulers" => Everyone(Killed)
      /\ Everyone(Killed) \/ Everyone(Continued) \/ UNCHANGED proc
  BY DEF RunDeferred
<1>3. (call = "schedulers" => AllDead') /\ (AllDead => AllDead')
  BY <1>2, EveryoneInv DEF AllDead, TrialInv, WorldInv, World
<1> QED
  BY <1>1, <1>3

LEMMA RunDeferredCleanup ==
  ASSUME TrialInv, CleanupInv, RunDeferred
  PROVE  CleanupInv'
<1> DEFINE call == Head(defers)
           n == Len(defers)
<1>1. /\ step = "defer" /\ step' = step /\ defers # <<>> /\ defers' = Tail(defers)
      /\ workers' = (workers /\ call \notin {"workers", "components"})
      /\ data' = DataAfter(call)
      /\ call = "cluster" => alive' = {}
      /\ call # "cluster" => alive' = alive
      /\ submit' = IF call = "cancel" THEN Stopped(submit) ELSE submit
      /\ call = "schedulers" => AllDead'
      /\ AllDead => AllDead'
      /\ UNCHANGED <<arm, outcome>>
  BY DeferredCall
<1>2. /\ LeaderTrial' = LeaderTrial /\ StoreTrial' = StoreTrial /\ Bench' = Bench
      /\ EarlyError' = EarlyError /\ ~Running /\ ~Running'
  BY <1>1 DEF LeaderTrial, StoreTrial, Bench, EarlyError, Running
<1>3. /\ submit'.state = "running" => submit.state = "running"
      /\ call = "cancel" => submit'.state # "running"
  BY <1>1, StoppedTyped DEF TrialInv
<1>4. ProducerBounded'
  BY <1>1, <1>2, <1>3 DEF CleanupInv, ProducerBounded
<1>5. ResultLast'
  BY <1>2 DEF ResultLast
<1>6. BenchAlone'
  BY <1>1, <1>2 DEF CleanupInv, BenchAlone, AllDead
<1>7. DefersLeft'
  BY <1>1, <1>2, LeaderCalls, StoreCalls, BenchCalls, ArmKinds DEF CleanupInv, DefersLeft
<1>8. Cleaned /\ ProducerBounded /\ BenchAlone /\ DefersLeft
  BY <1>2 DEF CleanupInv
<1>9. CASE LeaderTrial
  <2>1. /\ Len(defers') = n - 1 /\ n \in 1 .. 5 /\ (defers' = <<>> => n = 1)
        /\ n = 4 => call = "workers"
        /\ n = 3 => call = "schedulers"
        /\ n = 2 => call = "reset"
        /\ n = 1 => call = "cancel"
    BY <1>1, <1>8, <1>9, LeaderCalls DEF DefersLeft
  <2>2. ~Bench /\ ~StoreTrial
    BY <1>9 DEF LeaderTrial
  <2> HIDE DEF call, n
  <2>3. n <= 4 => ~workers'
    <3>1. CASE n = 4
      BY <1>1, <2>1, <3>1
    <3>2. CASE n <= 3
      BY <1>1, <1>8, <2>1, <2>2, <3>2 DEF Cleaned, n
    <3> QED
      BY <2>1, <3>1, <3>2
  <2>4. n <= 3 => AllDead'
    <3>1. CASE n = 3
      BY <1>1, <2>1, <3>1
    <3>2. CASE n <= 2
      BY <1>1, <1>8, <2>1, <2>2, <3>2 DEF Cleaned, n
    <3> QED
      BY <2>1, <3>1, <3>2
  <2>5. ~EarlyError /\ n <= 2 => ~data'
    <3> SUFFICES ASSUME ~EarlyError, n <= 2 PROVE ~data'
      OBVIOUS
    <3>1. ~StillWriting
      BY <1>2, <1>8, <2>1, <2>2, NobodyWrites DEF Cleaned, ProducerBounded, n
    <3>2. CASE n = 2
      BY <1>1, <2>1, <3>1, <3>2 DEF DataAfter
    <3>3. CASE n = 1
      <4>1. ~data
        BY <1>8, <1>9, <2>1, <3>3 DEF Cleaned, n
      <4> QED
        BY <1>1, <2>1, <3>1, <3>3, <4>1 DEF DataAfter
    <3> QED
      BY <2>1, <3>2, <3>3
  <2>6. n = 1 => submit'.state # "running"
    BY <1>3, <2>1
  <2>7. Cleaned'
    BY <1>2, <1>9, <2>1, <2>2, <2>3, <2>4, <2>5, <2>6 DEF Cleaned
  <2> QED
    BY <1>4, <1>5, <1>6, <1>7, <2>7 DEF CleanupInv
<1>10. CASE StoreTrial
  <2>1. /\ Len(defers') = n - 1 /\ n \in 1 .. 4 /\ (defers' = <<>> => n = 1)
        /\ n = 4 => call = "workers"
        /\ n = 3 => call = "schedulers"
        /\ n = 2 => call = "cluster"
        /\ n = 1 => call = "cancel"
    BY <1>1, <1>8, <1>10, StoreCalls DEF DefersLeft
  <2>2. ~Bench /\ ~LeaderTrial
    BY <1>10, ArmKinds
  <2> HIDE DEF call, n
  <2>3. ~workers'
    <3>1. CASE n = 4
      BY <1>1, <2>1, <3>1
    <3>2. CASE n <= 3
      BY <1>1, <1>8, <2>1, <2>2, <3>2 DEF Cleaned, n
    <3> QED
      BY <2>1, <3>1, <3>2
  <2>4. n <= 3 => AllDead'
    <3>1. CASE n = 3
      BY <1>1, <2>1, <3>1
    <3>2. CASE n <= 2
      BY <1>1, <1>8, <2>1, <2>2, <3>2 DEF Cleaned, n
    <3> QED
      BY <2>1, <3>1, <3>2
  <2>5. n <= 2 => ~data' /\ alive' = {}
    <3>1. CASE n = 2
      BY <1>1, <2>1, <3>1 DEF DataAfter
    <3>2. CASE n = 1
      <4>1. ~data /\ alive = {} /\ ~workers /\ AllDead
        BY <1>8, <1>10, <2>2, <3>2 DEF Cleaned, n
      <4> QED
        BY <1>1, <2>1, <3>2, <4>1, NobodyWrites DEF DataAfter
    <3> QED
      BY <2>1, <3>1, <3>2
  <2>6. n = 1 => submit'.state # "running"
    BY <1>3, <2>1
  <2>7. Cleaned'
    BY <1>2, <1>10, <2>1, <2>2, <2>3, <2>4, <2>5, <2>6 DEF Cleaned
  <2> QED
    BY <1>4, <1>5, <1>6, <1>7, <2>7 DEF CleanupInv
<1>11. CASE Bench
  <2>1. /\ Len(defers') = n - 1 /\ n \in 1 .. 2 /\ (defers' = <<>> => n = 1)
        /\ n = 2 => call = "components"
        /\ n = 1 => call = "reset"
    BY <1>1, <1>8, <1>11, BenchCalls DEF DefersLeft
  <2>2. ~StoreTrial /\ ~LeaderTrial
    BY <1>11, ArmKinds
  <2> HIDE DEF call, n
  <2>3. ~workers'
    <3>1. CASE n = 2
      BY <1>1, <2>1, <3>1
    <3>2. CASE n <= 1
      BY <1>1, <1>8, <1>11, <2>1, <3>2 DEF Cleaned, n
    <3> QED
      BY <2>1, <3>1, <3>2
  <2>4. n = 1 => ~data'
    <3> SUFFICES ASSUME n = 1 PROVE ~data'
      OBVIOUS
    <3>1. ~workers /\ AllDead /\ submit.state # "running"
      BY <1>2, <1>8, <1>11, <2>2 DEF Cleaned, ProducerBounded, BenchAlone, AllDead, EarlyError, n
    <3> QED
      BY <1>1, <2>1, <3>1, NobodyWrites DEF DataAfter
  <2>5. Cleaned'
    BY <1>2, <1>11, <2>1, <2>2, <2>3, <2>4 DEF Cleaned
  <2> QED
    BY <1>4, <1>5, <1>6, <1>7, <2>5 DEF CleanupInv
<1> QED
  BY <1>9, <1>10, <1>11, ArmKinds

\* Steps that leave the harness where it is.
LEMMA ElsewhereCleanup ==
  ASSUME TrialInv, CleanupInv,
         WatchPoll \/ TasksExecuted \/ Scheduler \/ Replication \/ Repair
  PROVE  CleanupInv'
<1>1. CASE WatchPoll
  <2>1. /\ UNCHANGED <<storeVars, arm, procVars, step, submit, workers, outcome, defers>>
        /\ Running
    BY <1>1, WatchPollInv DEF WatchPoll, Running
  <2> QED
    BY <2>1, CleanupContinues DEF procVars
<1>2. CASE TasksExecuted \/ Replication \/ Repair
  <2>1. UNCHANGED <<arm, proc, harnessVars>> /\ Running
    BY <1>2 DEF TasksExecuted, Replication, Repair, Running, procVars
  <2> QED
    BY <2>1, CleanupContinues DEF harnessVars
<1>3. CASE Scheduler
  <2>1. PICK p \in Schedulers : ReplicaStep(p)
    BY <1>3, SchedulerInv
  <2>2. /\ Running /\ UNCHANGED harnessVars /\ UNCHANGED arm
        /\ proc[p].phase # "dead" /\ \E r : Put(p, r)
    BY <1>3, <2>1, SchedulerInv DEF ReplicaStep, Campaign, TermBegins, GrantHandedBack, Renew,
                                    DispatchPass, Runs
  <2>3. \A q \in Schedulers : proc[q].phase = "dead" => proc'[q].phase = "dead"
    BY <2>2 DEF Put, TrialInv, WorldInv, World, ProcTyped
  <2> QED
    BY <2>2, <2>3, CleanupContinues DEF harnessVars
<1> QED
  BY <1>1, <1>2, <1>3

LEMMA TickCleanup ==
  ASSUME TrialInv, CleanupInv, Tick
  PROVE  CleanupInv'
<1>1. /\ Running /\ UNCHANGED <<arm, step, workers, outcome, defers>>
      /\ \A p \in Schedulers : proc'[p].phase = proc[p].phase
      /\ submit'.state # submit.state => submit.state = "running"
      /\ StoreTrial' = StoreTrial /\ Bench' = Bench
  BY TickInv, TickRecordTyped DEF StoreTrial, Bench, TrialInv, WorldInv, World
<1>2. Running' /\ step' \notin {"defer", "ended"}
  BY <1>1 DEF Running
<1>3. ProducerBounded'
  BY <1>1, <1>2 DEF CleanupInv, ProducerBounded
<1> QED
  BY <1>1, <1>2, <1>3, CleanupMoves

LEMMA CtxExpiresCleanup ==
  ASSUME TrialInv, CleanupInv, CtxExpires
  PROVE  CleanupInv'
<1>1. /\ Running /\ step' = "defer" /\ outcome' = "timeout" /\ UNCHANGED <<arm, defers>>
      /\ submit'.state \in {"done", "failed"}
      /\ \A p \in Schedulers : proc'[p].phase = "dead"
  BY CtxExpiresInv
<1>2. ProducerBounded'
  BY <1>1 DEF ProducerBounded
<1> QED
  BY <1>1, <1>2, CleanupMoves

LEMMA FinishCleanup ==
  ASSUME TrialInv, CleanupInv, Finish
  PROVE  CleanupInv'
<1>1. /\ step = "defer" /\ step' = "ended" /\ defers = <<>>
      /\ UNCHANGED <<storeVars, arm, procVars, submit, workers, outcome, defers>>
  BY DEF Finish, Goto
<1>2. /\ LeaderTrial' = LeaderTrial /\ StoreTrial' = StoreTrial /\ Bench' = Bench
      /\ EarlyError' = EarlyError /\ ~Running /\ ~Running'
  BY <1>1 DEF LeaderTrial, StoreTrial, Bench, EarlyError, Running
<1>3. ProducerBounded' /\ ResultLast' /\ BenchAlone'
  BY <1>1, <1>2 DEF CleanupInv, ProducerBounded, ResultLast, BenchAlone, procVars
<1>4. DefersLeft'
  BY <1>1, <1>2 DEF CleanupInv, DefersLeft
<1>5. Cleaned'
  BY <1>1, <1>2 DEF CleanupInv, Cleaned, AllDead, procVars, storeVars
<1> QED
  BY <1>3, <1>4, <1>5 DEF CleanupInv

LEMMA CleanupInit ==
  ASSUME Init
  PROVE  CleanupInv
<1>1. TrialInv
  BY TrialInvInit
<1>2. step = "elect" /\ submit.state = "idle" /\ outcome = "running" /\ Running
  BY DEF Init, SteadySpecs, Running
<1>3. BenchAlone
  <2> SUFFICES ASSUME Bench PROVE \A p \in Schedulers : proc[p].phase = "dead"
    BY DEF BenchAlone
  <2>1. arm.count = 0
    BY BenchArmFacts DEF Bench
  <2>2. {} \in SUBSET Schedulers /\ Cardinality({}) = 0
    BY FS_EmptySet
  <2>3. Members(arm) \in SUBSET Schedulers /\ Cardinality(Members(arm)) = 0
    BY <2>1, <2>2 DEF Members
  <2>4. IsFiniteSet(Members(arm))
    BY <2>3, FS_Subset, StoreAssumption
  <2>5. Members(arm) = {}
    BY <2>3, <2>4, FS_EmptySet
  <2>6. PICK o \in Offsets : proc = Started(arm, o)
    BY DEF Init
  <2> QED
    BY <2>5, <2>6, StartedTyped
<1>4. DefersLeft
  <2>1. defers = CASE StoreTrial -> StoreDeferred [] Bench -> BenchDeferred [] LeaderTrial -> Deferred
    BY DEF Init
  <2>2. /\ StoreTrial => defers = StoreDeferred
        /\ Bench => defers = BenchDeferred
        /\ LeaderTrial => defers = Deferred
    <3>1. CASE StoreTrial
      BY <1>1, <2>1, <3>1, ArmKinds
    <3>2. CASE Bench
      BY <1>1, <2>1, <3>2, ArmKinds
    <3>3. CASE LeaderTrial
      BY <1>1, <2>1, <3>3, ArmKinds
    <3> QED
      BY <1>1, <3>1, <3>2, <3>3, ArmKinds
  <2> QED
    BY <1>2, <2>2 DEF DefersLeft, LeaderDefers, StoreDefers, BenchDefers
<1> QED
  BY <1>2, <1>3, <1>4 DEF CleanupInv, ProducerBounded, ResultLast

LEMMA CleanupNext ==
  ASSUME TrialInv, CleanupInv, [Next]_vars
  PROVE  CleanupInv'
<1>1. CASE QuietStep
  BY <1>1, QuietStepCleanup, FinishCleanup
<1>2. CASE LoadStarts \/ ComponentsReady \/ ComponentsStop
  BY <1>2, LoadCleanup
<1>3. CASE WatchPoll \/ TasksExecuted \/ Scheduler \/ Replication \/ Repair
  BY <1>3, ElsewhereCleanup
<1>4. CASE SignalLeader \/ CutLeader \/ Resume \/ Heal \/ FlapAgain
  BY <1>4, LeaderFaultCleanup
<1>5. CASE ChurnLeader \/ ChurnAgain \/ StoreFault \/ MasterDies \/ Failover
  BY <1>5, StoreTrialCleanup
<1>6. CASE Tick \/ CtxExpires \/ RunDeferred
  BY <1>6, TickCleanup, CtxExpiresCleanup, RunDeferredCleanup
<1>7. CASE UNCHANGED vars
  BY <1>7 DEF vars, storeVars, procVars, harnessVars, CleanupInv, ProducerBounded, ResultLast,
              BenchAlone, DefersLeft, Cleaned, AllDead, Running, EarlyError,
              LeaderTrial, StoreTrial, Bench
<1> QED
  BY <1>1, <1>2, <1>3, <1>4, <1>5, <1>6, <1>7 DEF Next, Harness, QuietStep

LEMMA CleanupInvariant == Spec => [](TrialInv /\ CleanupInv)
<1>1. Init => CleanupInv
  BY CleanupInit
<1>2. TrialInv /\ CleanupInv /\ [Next]_vars => CleanupInv'
  BY CleanupNext
<1> QED
  BY <1>1, <1>2, TrialInvariant, PTL DEF Spec

\* When a trial has ended, by its verdict, by any error after the producer's
\* end, by its time limit, or before the load started, the namespace is empty
\* and nothing runs that could fill it.  What is left out are the three errors
\* that runTrial of a leader trial can return while its producer still submits:
\* cancel is deferred first and runs last, after Reset.  That no such error is
\* returned is a matter of the timers (NothingIsLeft in TrialTiming_proofs).
THEOREM TrialsLeaveNothing == Spec => [](~EarlyError => TrialLeavesNothing)
<1>1. TrialInv /\ CleanupInv => (~EarlyError => TrialLeavesNothing)
  <2> SUFFICES ASSUME TrialInv, CleanupInv, ~EarlyError, step = "ended"
               PROVE  ~data /\ ~workers /\ ~Submitting /\ \A p \in Schedulers : proc[p].phase = "dead"
    BY DEF TrialLeavesNothing
  <2>1. defers = <<>> /\ ~Running /\ Len(defers) = 0 /\ Cleaned
    BY DEF CleanupInv, DefersLeft, Running
  <2>2. CASE Bench
    BY <2>1, <2>2, ArmKinds DEF CleanupInv, Cleaned, ProducerBounded, BenchAlone, Submitting
  <2>3. CASE StoreTrial
    BY <2>1, <2>3, ArmKinds DEF Cleaned, AllDead, Submitting
  <2>4. CASE LeaderTrial
    BY <2>1, <2>4, ArmKinds DEF Cleaned, AllDead, Submitting
  <2> QED
    BY <2>2, <2>3, <2>4, ArmKinds
<1> QED
  BY <1>1, CleanupInvariant, PTL

-----------------------------------------------------------------------------
(***************************************************************************)
(* Epochs and the terms they identify.                                      *)
(***************************************************************************)
\* Where a step leaves a store trial relative to its failover.
SameSide ==
  /\ step' \in Before => step \in Before
  /\ step' = "failover" => step = "failover"
  /\ step' \in After => step \in After
  /\ Running' => Running

LEMMA SideOf ==
  ASSUME TrialInv, StoreTrial, Running
  PROVE  step \in Before \cup {"failover"} \cup After
BY DEF TrialInv, StepTyped, StoreSteps, Running, Before, After

LEMMA OneFailoverSame ==
  ASSUME OneFailover, UNCHANGED <<arm, master, alive>>, SameSide,
         StoreTrial => \A p \in Schedulers : proc'[p].stopped => proc[p].stopped
  PROVE  OneFailover'
<1>1. StoreTrial' = StoreTrial
  BY DEF StoreTrial
<1> QED
  BY <1>1 DEF OneFailover, SameSide

LEMMA CountersNat ==
  ASSUME TrialInv
  PROVE  /\ \A i \in Nodes : db[i].counter \in Nat
         /\ master \in Nodes /\ Current.counter \in Nat
         /\ \A p \in Schedulers : proc[p].epoch \in Nat
         /\ \A p \in Schedulers : Granted(p) => proc[p].epoch \in 1 .. MaxEpoch
         /\ \A e \in 1 .. MaxEpoch : led[e] \in Nat
<1>1. \A i \in Nodes : db[i].counter \in Nat
  BY DEF TrialInv, WorldInv, World, StoreTyped, Cell
<1>2. master \in Nodes /\ Current.counter \in Nat
  BY <1>1 DEF TrialInv, WorldInv, World, StoreTyped, Current
<1>3. \A p \in Schedulers : proc[p].epoch \in Nat
  BY ProcOf DEF TrialInv, WorldInv, World
<1>4. \A p \in Schedulers : Granted(p) => proc[p].epoch \in 1 .. MaxEpoch
  BY ProcOf DEF TrialInv, WorldInv, World, Granted
<1>5. \A e \in 1 .. MaxEpoch : led[e] \in Nat
  BY DEF TrialInv, WorldInv, World, MeasuresTyped
<1> QED
  BY <1>1, <1>2, <1>3, <1>4, <1>5

\* Nobody gains a grant or a term, the counter stays, and the clock of a
\* failover does not start.
LEMMA TokensSame ==
  ASSUME TrialInv, TokensSafe, UNCHANGED led, Running' => Running,
         Current'.counter = Current.counter,
         \A p \in Schedulers : Granted(p)' => Granted(p) /\ proc'[p].epoch = proc[p].epoch,
         step' = "failover" /\ timer' < DownAfter =>
           \/ step = "failover" /\ timer < DownAfter
           \/ \A p \in Schedulers : ~Granted(p)
  PROVE  TokensSafe'
<1>1. \A e : Led(e)' <=> Led(e)
  BY DEF Led
<1>2. ASSUME Running'
      PROVE  /\ \A p \in Schedulers : Granted(p)' => ~Led(proc'[p].epoch) /\ proc'[p].epoch <= Current'.counter
             /\ \A p, q \in Schedulers : Granted(p)' /\ Granted(q)' /\ p # q => proc'[p].epoch # proc'[q].epoch
             /\ \A e \in 1 .. MaxEpoch : Led(e) => e <= Current'.counter
  BY <1>2 DEF TokensSafe
<1>3. step' = "failover" /\ timer' < DownAfter => \A p \in Schedulers : ~Granted(p)'
  BY DEF TokensSafe
<1> QED
  BY <1>1, <1>2, <1>3 DEF TokensSafe, Led, Granted, Running

\* The node that gives out the next epoch knows every one in use.
LEMMA WinTokens ==
  ASSUME TrialInv, OneFailover, TokensSafe, NEW p \in Schedulers,
         NEW epoch, epoch = Current.counter + 1, epoch \in 1 .. MaxEpoch, Reachable, Running,
         WriteCell([Current EXCEPT !.counter = epoch, !.left = arm.ttl,
                                   !.holder = [owner |-> p, epoch |-> epoch]]),
         Put(p, [proc[p] EXCEPT !.phase = "granted", !.epoch = epoch, !.timer = WaitTimeout]),
         UNCHANGED <<master, alive, arm, led, harnessVars>>
  PROVE  TokensSafe'
<1>1. UNCHANGED <<step, timer>> /\ Running' = Running
  BY DEF harnessVars, Running
<1>2. step # "failover"
  BY ArmKinds DEF OneFailover, Reachable, TrialInv, StepTyped, LeaderSteps, BenchSteps
<1>3. /\ proc'[p].phase = "granted" /\ proc'[p].epoch = epoch
      /\ \A q \in Schedulers \ {p} : proc'[q] = proc[q]
  <2>1. LET r == [proc[p] EXCEPT !.phase = "granted", !.epoch = epoch, !.timer = WaitTimeout]
        IN  r.phase = "granted" /\ r.epoch = epoch
    BY GrantedRecord DEF TrialInv, WorldInv, World
  <2> QED
    BY <2>1 DEF Put, TrialInv, WorldInv, World, ProcTyped
<1>4. Current'.counter = epoch
  <2>1. LET c == [Current EXCEPT !.counter = epoch, !.left = arm.ttl,
                                 !.holder = [owner |-> p, epoch |-> epoch]]
        IN  c.counter = epoch
    BY WonCell DEF TrialInv, WorldInv, World
  <2> QED
    BY <2>1, CountersNat DEF WriteCell, Current, TrialInv, WorldInv, World, StoreTyped
<1>5. /\ \A e \in 1 .. MaxEpoch : Led(e) => e < epoch
      /\ \A q \in Schedulers : Granted(q) => proc[q].epoch < epoch
      /\ \A e : Led(e)' <=> Led(e)
  BY CountersNat DEF TokensSafe, Led
<1>6. ASSUME NEW q \in Schedulers, Granted(q)'
      PROVE  /\ q = p => proc'[q].epoch = epoch
             /\ q # p => Granted(q) /\ proc'[q].epoch = proc[q].epoch /\ proc[q].epoch < epoch
  BY <1>3, <1>5, <1>6 DEF Granted
<1>7. ASSUME NEW q \in Schedulers, Granted(q)'
      PROVE  ~Led(proc'[q].epoch) /\ proc'[q].epoch <= epoch
  BY <1>5, <1>6, <1>7, CountersNat DEF TokensSafe
<1>8. ASSUME NEW q \in Schedulers, NEW r \in Schedulers, Granted(q)', Granted(r)', q # r
      PROVE  proc'[q].epoch # proc'[r].epoch
  BY <1>6, <1>8, CountersNat DEF TokensSafe
<1>9. \A e \in 1 .. MaxEpoch : led'[e] <= 1 /\ (Led(e) => e <= epoch)
  BY <1>5 DEF TokensSafe
<1> QED
  BY <1>1, <1>2, <1>4, <1>5, <1>7, <1>8, <1>9 DEF TokensSafe, Led, Granted

\* A term begins on an epoch that has identified none.
LEMMA BeginTokens ==
  ASSUME TrialInv, TokensSafe, Running, NEW p \in Schedulers, TermBegins(p), UNCHANGED harnessVars
  PROVE  TokensSafe'
<1> DEFINE epoch == proc[p].epoch
<1>1. /\ Granted(p)
      /\ Put(p, [proc[p] EXCEPT !.phase = "leading", !.timer = arm.renew, !.due = TRUE])
      /\ led' = [led EXCEPT ![epoch] = @ + 1]
      /\ UNCHANGED <<storeVars, arm>>
  BY DEF TermBegins, Granted
<1>2. UNCHANGED <<step, timer>> /\ Running' = Running /\ Current' = Current
  BY <1>1 DEF harnessVars, storeVars, Running, Current
<1>3. epoch \in 1 .. MaxEpoch /\ led[epoch] = 0 /\ epoch <= Current.counter
  BY <1>1, CountersNat DEF TokensSafe, Led
<1>4. \A q \in Schedulers : Granted(q)' => q # p /\ Granted(q) /\ proc'[q] = proc[q]
  <2>1. arm.renew \in Nat
    BY ArmKinds
  <2>2. LET r == [proc[p] EXCEPT !.phase = "leading", !.timer = arm.renew, !.due = TRUE]
        IN  r.phase = "leading"
    BY <1>1, <2>1, LeadingRecord DEF TrialInv, WorldInv, World, Granted
  <2> QED
    BY <1>1, <2>2 DEF Put, Granted, TrialInv, WorldInv, World, ProcTyped
<1>5. /\ led'[epoch] = 1
      /\ \A e \in 1 .. MaxEpoch : e # epoch => led'[e] = led[e]
  BY <1>1, <1>3 DEF TrialInv, WorldInv, World, MeasuresTyped
<1>6. \A e \in 1 .. MaxEpoch : led'[e] <= 1 /\ (Led(e)' => Led(e) \/ e = epoch)
  BY <1>5 DEF TokensSafe, Led
<1>7. ASSUME NEW q \in Schedulers, Granted(q)'
      PROVE  ~Led(proc[q].epoch)' /\ proc'[q].epoch <= Current'.counter
  <2>1. proc'[q].epoch = proc[q].epoch /\ proc[q].epoch # epoch /\ proc[q].epoch \in 1 .. MaxEpoch
    BY <1>1, <1>4, <1>7, CountersNat DEF TokensSafe
  <2>2. ~Led(proc[q].epoch) /\ proc[q].epoch <= Current.counter
    BY <1>4, <1>7 DEF TokensSafe
  <2> QED
    BY <1>2, <1>5, <2>1, <2>2 DEF Led
<1>8. \A q, r \in Schedulers : Granted(q)' /\ Granted(r)' /\ q # r => proc'[q].epoch # proc'[r].epoch
  BY <1>4 DEF TokensSafe
<1>9. \A e \in 1 .. MaxEpoch : Led(e)' => e <= Current'.counter
  BY <1>2, <1>3, <1>6 DEF TokensSafe
<1>10. step' = "failover" /\ timer' < DownAfter => \A q \in Schedulers : ~Granted(q)'
  BY <1>2, <1>4 DEF TokensSafe
<1> QED
  BY <1>6, <1>7, <1>8, <1>9, <1>10 DEF TokensSafe, Led, Granted, Running

\* A step of p is a step of p only, and stops nobody.
LEMMA ReplicaStepFrame ==
  ASSUME TrialInv, NEW p \in Schedulers, ReplicaStep(p)
  PROVE  /\ UNCHANGED <<master, alive, arm>>
         /\ \A q \in Schedulers : proc'[q].stopped => proc[q].stopped
         /\ \A q \in Schedulers \ {p} : proc'[q] = proc[q]
         /\ \E r : Put(p, r) /\ proc'[p] = r
<1>1. proc[p] \in ProcRecord /\ DOMAIN proc = Schedulers
  BY ProcOf DEF TrialInv, WorldInv, World, ProcTyped
<1>2. UNCHANGED <<master, alive, arm>>
  BY DEF ReplicaStep, Campaign, TermBegins, GrantHandedBack, Renew, DispatchPass, storeVars
<1>3. PICK r : Put(p, r) /\ r.stopped = proc[p].stopped
  <2>1. Standby(p).stopped = proc[p].stopped
    BY <1>1 DEF Standby, ProcRecord
  <2>2. CASE Campaign(p)
    <3>1. \A e, t : [proc[p] EXCEPT !.phase = "granted", !.epoch = e, !.timer = t].stopped = proc[p].stopped
      BY <1>1 DEF ProcRecord
    <3>2. \/ Put(p, Standby(p))
          \/ Put(p, [proc[p] EXCEPT !.phase = "granted", !.epoch = Current.counter + 1, !.timer = WaitTimeout])
      BY <2>2 DEF Campaign, NextEpoch
    <3> QED
      BY <2>1, <3>1, <3>2
  <2>3. CASE TermBegins(p)
    <3>1. \A t : [proc[p] EXCEPT !.phase = "leading", !.timer = t, !.due = TRUE].stopped = proc[p].stopped
      BY <1>1 DEF ProcRecord
    <3> QED
      BY <2>3, <3>1 DEF TermBegins
  <2>4. CASE GrantHandedBack(p)
    BY <2>1, <2>4 DEF GrantHandedBack
  <2>5. CASE Renew(p)
    BY <1>1, <2>1, <2>5 DEF Renew, ProcRecord
  <2>6. CASE DispatchPass(p)
    BY <1>1, <2>1, <2>6 DEF DispatchPass, ProcRecord
  <2> QED
    BY <2>2, <2>3, <2>4, <2>5, <2>6 DEF ReplicaStep
<1> QED
  BY <1>1, <1>2, <1>3 DEF Put

\* Calls that write neither the counter nor a grant.
LEMMA CounterKept ==
  ASSUME TrialInv, NEW c, c.counter = Current.counter, WriteCell(c)
  PROVE  \A i \in Nodes : db'[i].counter = db[i].counter
BY DEF WriteCell, Current, TrialInv, WorldInv, World, StoreTyped

LEMMA OtherCalls ==
  ASSUME TrialInv, NEW p \in Schedulers, GrantHandedBack(p) \/ Renew(p) \/ DispatchPass(p)
  PROVE  /\ \A i \in Nodes : db'[i].counter = db[i].counter
         /\ proc'[p].phase # "granted"
         /\ UNCHANGED led
<1>1. proc[p] \in ProcRecord /\ DOMAIN proc = Schedulers /\ World /\ StoreTyped /\ ProcTyped
  BY ProcOf DEF TrialInv, WorldInv, World, ProcTyped
<1>2. Standby(p).phase = "standby"
  BY <1>1 DEF Standby, ProcRecord
<1>3. Released(p).counter = Current.counter
  BY <1>1, ReleasedCell
<1>4. CASE GrantHandedBack(p)
  <2>1. proc'[p].phase # "granted"
    BY <1>1, <1>2, <1>4 DEF GrantHandedBack, Put
  <2> QED
    BY <1>3, <1>4, <2>1, CounterKept DEF GrantHandedBack
<1>5. CASE Renew(p)
  <2>1. /\ proc[p].phase = "leading" /\ UNCHANGED led
        /\ Put(p, Standby(p)) \/ Put(p, [proc[p] EXCEPT !.timer = arm.renew])
        /\ UNCHANGED db \/ WriteCell([Current EXCEPT !.left = arm.ttl])
    BY <1>5 DEF Renew
  <2>2. proc'[p].phase # "granted"
    BY <1>1, <1>2, <2>1 DEF Put, ProcRecord
  <2>3. \A i \in Nodes : db'[i].counter = db[i].counter
    BY <1>1, <2>1, RenewedCell, CounterKept
  <2> QED
    BY <2>1, <2>2, <2>3
<1>6. CASE DispatchPass(p)
  <2>1. /\ proc[p].phase = "leading" /\ UNCHANGED led
        /\ Put(p, Standby(p)) \/ Put(p, [proc[p] EXCEPT !.due = FALSE])
        /\ \/ UNCHANGED db \/ WriteCell(Released(p))
           \/ WriteCell([Current EXCEPT !.fence = proc[p].epoch,
                                        !.log = IF backlog THEN Stamp(@, proc[p].epoch) ELSE @])
    BY <1>6 DEF DispatchPass
  <2>2. proc'[p].phase # "granted"
    BY <1>1, <1>2, <2>1 DEF Put, ProcRecord
  <2>3. [Current EXCEPT !.fence = proc[p].epoch,
                        !.log = IF backlog THEN Stamp(@, proc[p].epoch) ELSE @].counter = Current.counter
    BY <1>1, CurrentTyped DEF Cell
  <2>4. \A i \in Nodes : db'[i].counter = db[i].counter
    BY <1>3, <2>1, <2>3, CounterKept
  <2> QED
    BY <2>1, <2>2, <2>4
<1> QED
  BY <1>4, <1>5, <1>6

LEMMA SchedulerTokens ==
  ASSUME TrialInv, OneFailover, TokensSafe, Scheduler
  PROVE  TokensSafe'
<1>1. PICK p \in Schedulers : ReplicaStep(p)
  BY SchedulerInv
<1>2. Running /\ UNCHANGED harnessVars
  BY SchedulerInv
<1>3. /\ UNCHANGED <<master, alive, arm>>
      /\ \A q \in Schedulers \ {p} : proc'[q] = proc[q]
      /\ SameSide /\ UNCHANGED <<step, timer>>
  BY <1>1, <1>2, ReplicaStepFrame DEF SameSide, harnessVars, Running, Before, After
<1>4. ASSUME UNCHANGED led, \A i \in Nodes : db'[i].counter = db[i].counter,
             proc'[p].phase # "granted"
      PROVE  TokensSafe'
  <2>1. \A q \in Schedulers : Granted(q)' => Granted(q) /\ proc'[q].epoch = proc[q].epoch
    BY <1>3, <1>4 DEF Granted
  <2>2. Current'.counter = Current.counter
    BY <1>3, <1>4, CountersNat DEF Current
  <2> QED
    BY <1>3, <1>4, <2>1, <2>2, TokensSame DEF SameSide
<1>5. CASE Campaign(p)
  <2> DEFINE epoch == Current.counter + 1
  <2>1. UNCHANGED led
    BY <1>5 DEF Campaign
  <2>2. CASE /\ Reachable /\ epoch <= MaxEpoch
             /\ WriteCell([Current EXCEPT !.counter = epoch, !.left = arm.ttl,
                                          !.holder = [owner |-> p, epoch |-> epoch]])
             /\ Put(p, [proc[p] EXCEPT !.phase = "granted", !.epoch = epoch, !.timer = WaitTimeout])
    <3>1. epoch \in 1 .. MaxEpoch
      BY <2>2, CountersNat, DurationsNat
    <3> QED
      BY <1>2, <1>3, <2>1, <2>2, <3>1, WinTokens
  <2>3. CASE Put(p, Standby(p)) /\ UNCHANGED db
    <3>1. proc'[p].phase # "granted"
      BY <2>3, ProcOf DEF Put, Standby, ProcRecord, TrialInv, WorldInv, World, ProcTyped
    <3> QED
      BY <1>4, <2>1, <2>3, <3>1
  <2> QED
    BY <1>5, <2>2, <2>3 DEF Campaign, NextEpoch, Reaches
<1>6. CASE TermBegins(p)
  BY <1>2, <1>6, BeginTokens
<1>7. CASE GrantHandedBack(p) \/ Renew(p) \/ DispatchPass(p)
  BY <1>4, <1>7, OtherCalls
<1> QED
  BY <1>1, <1>5, <1>6, <1>7 DEF ReplicaStep

\* Only a store trial has a failover.
LEMMA NoFailover ==
  ASSUME ~StoreTrial, UNCHANGED arm
  PROVE  OneFailover'
BY DEF OneFailover, StoreTrial

LEMMA HarnessTokens ==
  ASSUME TrialInv, OneFailover, TokensSafe,
         QuietStep \/ LoadStarts \/ ComponentsReady \/ ComponentsStop \/ WatchPoll \/ TasksExecuted
  PROVE  OneFailover' /\ TokensSafe'
<1>1. UNCHANGED <<storeVars, arm, proc, led>>
  BY QuietStepFrame, LoadInv, WatchPollInv DEF procVars, TasksExecuted
<1>2. /\ StoreTrial => SameSide
      /\ Running' => Running
      /\ step' = "failover" => step = "failover" /\ timer' = timer
  <2>1. CASE QuietStep
    BY <2>1, QuietStepMoves, ArmKinds
       DEF SameSide, Before, After, Running, TrialInv, StepTyped, StoreSteps
  <2>2. CASE LoadStarts \/ ComponentsReady \/ ComponentsStop
    BY <2>2, LoadInv DEF SameSide, Before, After, Running, TrialInv, StepTyped, StoreSteps
  <2>3. CASE WatchPoll \/ TasksExecuted
    BY <2>3, WatchPollInv DEF TasksExecuted, harnessVars, SameSide, Before, After, Running
  <2> QED
    BY <2>1, <2>2, <2>3
<1>3. OneFailover'
  BY <1>1, <1>2, OneFailoverSame, NoFailover DEF storeVars
<1>4. Current' = Current /\ \A p : Granted(p)' <=> Granted(p)
  BY <1>1 DEF storeVars, Current, Granted
<1>5. TokensSafe'
  BY <1>1, <1>2, <1>4, TokensSame
<1> QED
  BY <1>3, <1>5

\* The signal or the cut of the arm: the victim is killed, stopped, continued
\* or cut off, and one told to terminate releases the lease.
LEMMA LeaderFaultTokens ==
  ASSUME TrialInv, TokensSafe, SignalLeader \/ CutLeader \/ Resume \/ Heal \/ FlapAgain
  PROVE  OneFailover' /\ TokensSafe'
<1>1. LeaderTrial /\ UNCHANGED arm
  BY SignalLeaderInv, LeaderFaultInv
<1>2. OneFailover'
  BY <1>1, NoFailover, ArmKinds
<1>3. /\ UNCHANGED <<led, master>>
      /\ UNCHANGED db \/ (WriteCell(Released(LeaseOwner)) /\ LeaderFound)
  BY DEF SignalLeader, CutLeader, Resume, Heal, FlapAgain, storeVars
<1>4. Running /\ step' # "failover"
  BY SignalLeaderInv, LeaderFaultInv DEF Running
<1>5. Current'.counter = Current.counter
  <2>1. CASE UNCHANGED db
    BY <1>3, <2>1 DEF Current
  <2>2. CASE WriteCell(Released(LeaseOwner)) /\ LeaderFound
    <3>1. LeaseOwner \in Schedulers
      BY <2>2, CurrentTyped DEF LeaderFound, LeaseOwner, TrialInv, WorldInv, World, Cell, Grant
    <3>2. Released(LeaseOwner).counter = Current.counter
      BY <3>1, ReleasedCell DEF TrialInv, WorldInv, World
    <3> QED
      BY <1>3, <2>2, <3>2, CounterKept, CountersNat DEF Current
  <2> QED
    BY <1>3, <2>1, <2>2
<1>6. ASSUME NEW q \in Schedulers, Granted(q)' PROVE Granted(q) /\ proc'[q].epoch = proc[q].epoch
  <2>1. \/ UNCHANGED proc
        \/ \E p, r : /\ Put(p, r)
                     /\ r \in {Killed(p), CutPath(p), HealPath(p), [proc[p] EXCEPT !.stopped = TRUE],
                               [proc[p] EXCEPT !.stopped = FALSE]}
    BY DEF SignalLeader, CutLeader, Resume, Heal, FlapAgain
  <2>2. CASE UNCHANGED proc
    BY <1>6, <2>2 DEF Granted
  <2>3. ASSUME NEW p, NEW r, Put(p, r),
               r \in {Killed(p), CutPath(p), HealPath(p), [proc[p] EXCEPT !.stopped = TRUE],
                      [proc[p] EXCEPT !.stopped = FALSE]}
        PROVE  Granted(q) /\ proc'[q].epoch = proc[q].epoch
    <3>1. proc'[q] = IF q = p THEN r ELSE proc[q]
      BY <2>3 DEF Put, TrialInv, WorldInv, World, ProcTyped
    <3>2. q = p => \/ r.phase = proc[p].phase /\ r.epoch = proc[p].epoch
                   \/ r.phase = "dead"
      BY <2>3, HitRecord DEF TrialInv, WorldInv, World
    <3> QED
      BY <1>6, <3>1, <3>2 DEF Granted
  <2> QED
    BY <2>1, <2>2, <2>3
<1>7. TokensSafe'
  BY <1>3, <1>4, <1>5, <1>6, TokensSame
<1> QED
  BY <1>2, <1>7

LEMMA ChurnTokens ==
  ASSUME TrialInv, OneFailover, TokensSafe, ChurnLeader \/ ChurnAgain
  PROVE  OneFailover' /\ TokensSafe'
<1>1. /\ UNCHANGED <<storeVars, arm, led>>
      /\ \/ step = "churn" /\ step' \in {"window", "defer"}
         \/ step = "churn2" /\ step' \in {"reelect", "verdict"}
      /\ UNCHANGED proc \/ \E p \in Schedulers : Put(p, Killed(p))
  BY ChurnInv
<1>2. SameSide /\ step' # "failover"
  BY <1>1 DEF SameSide, Before, After, Running
<1>3. ASSUME NEW q \in Schedulers
      PROVE  /\ proc'[q].stopped => proc[q].stopped
             /\ Granted(q)' => Granted(q) /\ proc'[q].epoch = proc[q].epoch
  <2>1. CASE UNCHANGED proc
    BY <2>1 DEF Granted
  <2>2. ASSUME NEW p \in Schedulers, Put(p, Killed(p))
        PROVE  /\ proc'[q].stopped => proc[q].stopped
               /\ Granted(q)' => Granted(q) /\ proc'[q].epoch = proc[q].epoch
    <3>1. Killed(p).phase = "dead" /\ Killed(p).stopped = proc[p].stopped
      BY ProcOf DEF Killed, ProcRecord, TrialInv, WorldInv, World
    <3> QED
      BY <2>2, <3>1 DEF Put, Granted, TrialInv, WorldInv, World, ProcTyped
  <2> QED
    BY <1>1, <2>1, <2>2
<1>4. OneFailover'
  BY <1>1, <1>2, <1>3, OneFailoverSame DEF storeVars
<1>5. Current' = Current
  BY <1>1 DEF storeVars, Current
<1>6. TokensSafe'
  BY <1>1, <1>2, <1>3, <1>5, TokensSame DEF SameSide
<1> QED
  BY <1>4, <1>6

\* The master dies, and a replica is promoted after every wait on the dead
\* master has returned: nobody holds a grant that the new master does not know.
LEMMA StoreFaultTokens ==
  ASSUME TrialInv, OneFailover, TokensSafe, StoreFault \/ MasterDies \/ Failover
  PROVE  OneFailover' /\ TokensSafe'
<1>1. /\ StoreTrial /\ UNCHANGED <<db, arm, proc>>
      /\ \/ /\ step = "before" /\ step' \in {"cutting", "churn"}
            /\ UNCHANGED <<master, alive, led>>
         \/ /\ step = "crash" /\ step' = "failover" /\ KillMaster /\ timer' = DownAfter
            /\ UNCHANGED led
         \/ step = "failover" /\ timer = 0 /\ step' = "promoted" /\ Promote /\ Forgets
  BY StoreFaultInv
<1>2. StoreTrial' /\ \A p : Granted(p)' <=> Granted(p)
  BY <1>1 DEF StoreTrial, Granted
<1>3. CASE step = "before" /\ step' \in {"cutting", "churn"} /\ UNCHANGED <<master, alive, led>>
  <2>1. SameSide /\ step' # "failover" /\ Current' = Current
    BY <1>1, <1>3 DEF SameSide, Before, After, Running, Current
  <2>2. OneFailover'
    BY <1>1, <1>3, <2>1, OneFailoverSame
  <2>3. TokensSafe'
    BY <1>1, <1>2, <1>3, <2>1, TokensSame DEF SameSide
  <2> QED
    BY <2>2, <2>3
<1>4. CASE step = "crash" /\ step' = "failover" /\ KillMaster /\ timer' = DownAfter /\ UNCHANGED led
  <2>1. master = 1 /\ alive = 1 .. 3 /\ master' = 1 /\ alive' = {2, 3}
    BY <1>1, <1>4 DEF OneFailover, Before, KillMaster, Crashed
  <2>2. OneFailover'
    BY <1>1, <1>2, <1>4, <2>1 DEF OneFailover, Before, After
  <2>3. ~(timer' < DownAfter) /\ Current' = Current /\ Running
    BY <1>1, <1>4, <2>1, DurationsNat DEF Current, Running
  <2>4. TokensSafe'
    BY <1>1, <1>2, <1>4, <2>3, TokensSame
  <2> QED
    BY <2>2, <2>4
<1>5. CASE step = "failover" /\ timer = 0 /\ step' = "promoted" /\ Promote /\ Forgets
  <2>1. alive = {2, 3}
    BY <1>1, <1>5 DEF OneFailover
  <2>2. master' \in {2, 3} /\ alive' = {2, 3}
    BY <1>5, <2>1 DEF Promote
  <2>3. OneFailover'
    BY <1>1, <1>2, <1>5, <2>2 DEF OneFailover, Before, After
  <2>4. \A p \in Schedulers : ~Granted(p)'
    BY <1>2, <1>5, DurationsNat DEF TokensSafe
  <2>5. Current' = db[master']
    BY <1>1 DEF Current
  <2>6. ASSUME NEW e \in 1 .. MaxEpoch
        PROVE  led'[e] <= 1 /\ (Led(e)' => e <= Current'.counter)
    <3>1. led'[e] = IF e <= Current'.counter THEN led[e] ELSE 0
      BY <1>5, <2>5 DEF Forgets
    <3> QED
      BY <3>1 DEF TokensSafe, Led
  <2>7. TokensSafe'
    BY <1>5, <2>4, <2>6 DEF TokensSafe, Led, Granted
  <2> QED
    BY <2>3, <2>7
<1> QED
  BY <1>1, <1>3, <1>4, <1>5

LEMMA ReplicationTokens ==
  ASSUME TrialInv, OneFailover, TokensSafe, Replication \/ Repair
  PROVE  OneFailover' /\ TokensSafe'
<1>1. /\ UNCHANGED <<arm, proc, led, step, timer>> /\ SameSide
      /\ UNCHANGED <<master, alive>>
      /\ UNCHANGED db \/ \E i \in online : db' = [db EXCEPT ![i] = Current]
  BY DEF Replication, Repair, procVars, harnessVars, SameSide, Before, After, Running, NoticeDown,
         Replicate, SentinelRepairs
<1>2. OneFailover'
  BY <1>1, OneFailoverSame
<1>3. Current' = Current
  <2>1. ASSUME NEW i \in online PROVE i # master
    BY DEF TrialInv, WorldInv, World, StoreTyped
  <2> QED
    BY <1>1, <2>1, CountersNat DEF Current, TrialInv, WorldInv, World, StoreTyped
<1>4. TokensSafe'
  BY <1>1, <1>3, TokensSame DEF SameSide, Granted
<1> QED
  BY <1>2, <1>4

\* Time passes only when every wait on a broken connection has returned.
LEMMA TickTokens ==
  ASSUME TrialInv, OneFailover, TokensSafe, Tick
  PROVE  OneFailover' /\ TokensSafe'
<1>1. /\ Running /\ UNCHANGED <<master, alive, arm, led, step>>
      /\ db' = [i \in Nodes |-> Aged(db[i])]
      /\ proc' = [p \in Schedulers |-> TickRecord(p)]
      /\ \A p \in Schedulers : ~Due(p)
  BY TickInv
<1>2. SameSide
  BY <1>1 DEF SameSide, Before, After, Running
<1>3. \A p \in Schedulers : /\ proc'[p].stopped = proc[p].stopped
                            /\ proc'[p].phase = proc[p].phase /\ proc'[p].epoch = proc[p].epoch
  BY <1>1, TickRecordTyped DEF TrialInv, WorldInv, World
<1>4. Current'.counter = Current.counter
  <2>1. \A i \in Nodes : db'[i].counter = db[i].counter
    BY <1>1, AgedCell DEF TrialInv, WorldInv, World, StoreTyped
  <2> QED
    BY <1>1, <2>1, CountersNat DEF Current
<1>5. OneFailover'
  BY <1>1, <1>2, <1>3, OneFailoverSame
<1>6. ASSUME step = "failover", NEW p \in Schedulers PROVE ~Granted(p)
  <2>1. StoreTrial
    BY <1>6, ArmKinds DEF TrialInv, StepTyped, LeaderSteps, BenchSteps
  <2> QED
    BY <1>1, <1>6, <2>1 DEF OneFailover, Due, Runs, Reaches, Reachable, Granted
<1>7. TokensSafe'
  BY <1>1, <1>3, <1>4, <1>6, TokensSame DEF Granted
<1> QED
  BY <1>5, <1>7

LEMMA CleanupTokens ==
  ASSUME TrialInv, OneFailover, TokensSafe, CtxExpires \/ RunDeferred
  PROVE  OneFailover' /\ TokensSafe'
<1>1. /\ UNCHANGED <<arm, led>> /\ step' = "defer"
      /\ Everyone(Killed) \/ Everyone(Continued) \/ UNCHANGED proc
  BY DEF CtxExpires, RunDeferred, Return
<1>2. step' \notin Before /\ step' # "failover" /\ step' \notin After /\ ~Running'
  BY <1>1 DEF Before, After, Running
<1>3. StoreTrial' = StoreTrial
  BY <1>1 DEF StoreTrial
<1>4. ASSUME NEW p \in Schedulers PROVE proc'[p].stopped => proc[p].stopped
  <2>1. Killed(p).stopped = proc[p].stopped /\ Continued(p).stopped = FALSE
    BY ProcOf DEF Killed, Continued, ProcRecord, TrialInv, WorldInv, World
  <2> QED
    BY <1>1, <2>1 DEF Everyone
<1>5. OneFailover'
  BY <1>2, <1>3, <1>4 DEF OneFailover
<1>6. TokensSafe'
  BY <1>1, <1>2 DEF TokensSafe
<1> QED
  BY <1>5, <1>6

LEMMA TokenInvInit ==
  ASSUME Init
  PROVE  TokenInv
<1>1. TrialInv
  BY TrialInvInit
<1>2. PICK o \in Offsets : proc = Started(arm, o)
  BY DEF Init
<1>3. \A p \in Schedulers : ~proc[p].stopped /\ ~Granted(p)
  BY <1>2, StartedTyped DEF Granted
<1>4. step = "elect" /\ step \in Before /\ step \notin After /\ step # "failover" /\ Running
  BY DEF Init, Before, After, Running
<1>5. OneFailover
  <2> SUFFICES ASSUME StoreTrial PROVE master = 1 /\ alive = 1 .. 3
    BY <1>3, <1>4 DEF OneFailover
  <2>1. arm.nodes = 2
    BY StoreArmFacts DEF StoreTrial
  <2> QED
    BY <2>1 DEF Init, StoreInit, ReplicasOnline
<1>6. \A e \in 1 .. MaxEpoch : led[e] = 0
  BY DEF Init
<1>7. TokensSafe
  BY <1>3, <1>4, <1>6 DEF TokensSafe, Led
<1> QED
  BY <1>5, <1>7 DEF TokenInv

LEMMA TokenInvNext ==
  ASSUME TrialInv, TokenInv, [Next]_vars
  PROVE  TokenInv'
<1>1. OneFailover /\ TokensSafe
  BY DEF TokenInv
<1>2. CASE QuietStep \/ LoadStarts \/ ComponentsReady \/ ComponentsStop \/ WatchPoll \/ TasksExecuted
  BY <1>1, <1>2, HarnessTokens DEF TokenInv
<1>3. CASE SignalLeader \/ CutLeader \/ Resume \/ Heal \/ FlapAgain
  BY <1>1, <1>3, LeaderFaultTokens DEF TokenInv
<1>4. CASE ChurnLeader \/ ChurnAgain \/ StoreFault \/ MasterDies \/ Failover
  BY <1>1, <1>4, ChurnTokens, StoreFaultTokens DEF TokenInv
<1>5. CASE Scheduler
  <2>1. PICK p \in Schedulers : ReplicaStep(p)
    BY <1>5, SchedulerInv
  <2>2. SameSide
    BY <1>5, SchedulerInv DEF harnessVars, SameSide, Before, After, Running
  <2>3. OneFailover'
    BY <1>1, <2>1, <2>2, ReplicaStepFrame, OneFailoverSame
  <2> QED
    BY <1>1, <1>5, <2>3, SchedulerTokens DEF TokenInv
<1>6. CASE Replication \/ Repair \/ Tick \/ CtxExpires \/ RunDeferred
  BY <1>1, <1>6, ReplicationTokens, TickTokens, CleanupTokens DEF TokenInv
<1>7. CASE UNCHANGED vars
  BY <1>1, <1>7 DEF TokenInv, OneFailover, TokensSafe, Running, Granted, Led, Nodes, Current,
                    StoreTrial, vars, storeVars, procVars, harnessVars
<1> QED
  BY <1>2, <1>3, <1>4, <1>5, <1>6, <1>7 DEF Next, Harness, QuietStep

\* An epoch that the store knows identifies one term, for any number of
\* schedulers, any timers, and whoever is killed, stopped or cut off: only the
\* promotion of a replica that never had the epoch frees it.
THEOREM TokensNameOneTerm == Spec => []TokenNamesOneTerm
<1>1. Init => TokenInv
  BY TokenInvInit
<1>2. TrialInv /\ TokenInv /\ [Next]_vars => TokenInv'
  BY TokenInvNext
<1>3. TokenInv => TokenNamesOneTerm
  BY DEF TokenInv, TokensSafe, TokenNamesOneTerm
<1> QED
  BY <1>1, <1>2, <1>3, TrialInvariant, PTL DEF Spec
=============================================================================
