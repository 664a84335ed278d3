------------------------- MODULE TrialTiming_proofs -------------------------
(***************************************************************************)
(* What the leader trials of module FaultTrial measure, proved for every    *)
(* lease, retry, pause, cut and wait that are Timely and Measured: how many *)
(* terms one fault costs, that a leader that returns is not counted as a    *)
(* second one, how long the outage is, and that the trial ends clean.       *)
(*                                                                          *)
(* A trial is in one of five situations.  Before the fault nobody has held  *)
(* the lease or the first leader does (NoTermYet, FirstTerm).  After it the *)
(* victim still holds it, nobody does, or a successor (Held, Vacant, Taken).*)
(* Each step keeps the situation or goes on to the next one, and the timers *)
(* decide how soon.                                                         *)
(***************************************************************************)
EXTENDS FaultTrial_proofs

Others(p) == Schedulers \ {p}

GrantOf(p, e) == [owner |-> p, epoch |-> e]

LEMMA GrantsDiffer ==
  /\ \A p, q, e, f : GrantOf(p, e) = GrantOf(q, f) <=> p = q /\ e = f
  /\ \A p, e : e # 0 => GrantOf(p, e) # NoGrant
  /\ \A p, e : GrantOf(p, e).owner = p /\ GrantOf(p, e).epoch = e
<1>1. \A p, e : GrantOf(p, e).owner = p /\ GrantOf(p, e).epoch = e
  BY DEF GrantOf
<1>2. \A p, q, e, f : GrantOf(p, e) = GrantOf(q, f) <=> p = q /\ e = f
  <2>1. ASSUME NEW p, NEW q, NEW e, NEW f, GrantOf(p, e) = GrantOf(q, f) PROVE p = q /\ e = f
    BY <1>1, <2>1
  <2> QED
    BY <2>1
<1>3. NoGrant.epoch = 0
  BY DEF NoGrant
<1> QED
  BY <1>1, <1>2, <1>3

-----------------------------------------------------------------------------
(***************************************************************************)
(* The arms of the leader trials.                                           *)
(***************************************************************************)
LeaderFaults == {"none", "term", "kill", "stop", "cut", "flap"}

\* Faults that the victim survives.
Survived == {"stop", "cut", "flap"}

LEMMA LeaderArmTimes ==
  ASSUME NEW a \in FailoverArms \cup PartitionArms
  PROVE  /\ a.ttl = TTL /\ a.renew = RenewInterval /\ a.wait = 0 /\ a.min = 0
         /\ a.fault \in LeaderFaults /\ a.count \in {1, 2}
         /\ a.fault \in Survived => a.count = 2
         /\ a.fault = "stop" => a.cut = PauseFor
         /\ a.fault = "cut" /\ a.failover => a.cut = 2 * TTL
         /\ a.fault = "cut" /\ ~a.failover => a.cut = TTL \div 2
<1> USE DurationsNat DEF LeaderArm, LeaderFaults, Survived
<1>1. /\ a.ttl = TTL /\ a.renew = RenewInterval /\ a.wait = 0 /\ a.min = 0
      /\ a.count \in {1, 2}
  BY DEF FailoverArms, PartitionArms
<1>2. CASE a \in FailoverArms
  <2>1. /\ a.fault \in LeaderFaults /\ a.fault # "cut" /\ a.fault # "flap"
        /\ a.fault = "stop" => a.count = 2 /\ a.cut = PauseFor
    BY <1>2 DEF FailoverArms
  <2> QED
    BY <1>1, <2>1
<1>3. CASE a \in PartitionArms
  <2>1. /\ a.fault \in {"cut", "flap"} /\ a.count = 2
        /\ a.fault = "cut" /\ a.failover => a.cut = 2 * TTL
        /\ a.fault = "cut" /\ ~a.failover => a.cut = TTL \div 2
    BY <1>3 DEF PartitionArms
  <2> QED
    BY <1>1, <2>1
<1> QED
  BY <1>2, <1>3

\* What holds in every leader trial.
LEMMA LeaderWorld ==
  ASSUME TrialInv, LeaderTrial
  PROVE  /\ arm \in FailoverArms \cup PartitionArms
         /\ arm.ttl = TTL /\ arm.renew = RenewInterval /\ arm.wait = 0 /\ arm.min = 0
         /\ TTL \in Nat /\ RenewInterval \in Nat /\ RenewInterval < TTL /\ Retry \in Nat /\ MaxEpoch \in Nat
         /\ master \in DOMAIN db /\ Current \in Cell
         /\ Reachable => Writable(arm.min)
<1>1. arm \in FailoverArms \cup PartitionArms
  BY DEF TrialInv, WorldInv, World, StoreTyped, Arms, LeaderTrial, StoreTrial, Bench
<1>2. /\ arm.ttl = TTL /\ arm.renew = RenewInterval /\ arm.wait = 0 /\ arm.min = 0
      /\ arm.nodes = 0
  BY <1>1, LeaderArmTimes, LeaderArmFacts
<1>3. TTL \in Nat /\ RenewInterval \in Nat /\ RenewInterval < TTL /\ Retry \in Nat /\ MaxEpoch \in Nat
  BY DurationsNat, TrialAssumption
<1>4. master \in DOMAIN db /\ Current \in Cell
  BY CurrentTyped DEF TrialInv, WorldInv, World, StoreTyped
<1>5. ASSUME Reachable PROVE Writable(arm.min)
  <2>1. online = {}
    BY <1>2 DEF TrialInv, WorldInv, World, StoreTyped, Nodes
  <2>2. Cardinality(online) = 0
    BY <2>1, FS_EmptySet
  <2> QED
    BY <1>2, <1>5, <2>2 DEF Writable
<1> QED
  BY <1>1, <1>2, <1>3, <1>4, <1>5

LEMMA ProcFields ==
  ASSUME TrialInv, NEW p \in Schedulers
  PROVE  /\ proc[p].phase \in {"standby", "granted", "leading", "dead"}
         /\ proc[p].epoch \in 0 .. MaxEpoch /\ proc[p].timer \in Nat
         /\ proc[p].due \in BOOLEAN /\ proc[p].stopped \in BOOLEAN /\ proc[p].path \in {"up", "cut"}
         /\ proc[p].phase \in {"granted", "leading"} <=> proc[p].epoch # 0
         /\ DOMAIN proc = Schedulers
<1>1. proc[p] \in ProcRecord /\ Coherent(proc[p]) /\ DOMAIN proc = Schedulers
  BY ProcOf DEF TrialInv, WorldInv, World, ProcTyped
<1> QED
  BY <1>1 DEF ProcRecord, Phases, Coherent

LEMMA LeaseFields ==
  ASSUME TrialInv
  PROVE  /\ Current.holder \in Grant /\ Current.left \in Nat
         /\ Current.counter \in 0 .. MaxEpoch /\ Current.fence \in 0 .. MaxEpoch
BY CurrentTyped DEF TrialInv, WorldInv, World

-----------------------------------------------------------------------------
(***************************************************************************)
(* The steps of a process, field by field.                                  *)
(***************************************************************************)
\* Everybody but p is where it was, and p is stopped or cut off as before.
Moves(p) ==
  /\ \A q \in Others(p) : proc'[q] = proc[q]
  /\ proc'[p].stopped = proc[p].stopped /\ proc'[p].path = proc[p].path

LeaseKept ==
  Current'.holder = Current.holder /\ Current'.left = Current.left /\ Current'.counter = Current.counter

MeasureKept == UNCHANGED <<backlog, gap, outage>>

StandsDown(p) ==
  /\ proc'[p].phase = "standby" /\ proc'[p].epoch = 0 /\ proc'[p].timer = Retry
  /\ LeaseKept /\ Current'.fence = Current.fence /\ MeasureKept

Wins(p) ==
  /\ proc[p].phase = "standby" /\ proc[p].timer = 0 /\ proc[p].path = "up"
  /\ Current.holder = NoGrant /\ Current.counter < MaxEpoch
  /\ proc'[p].phase = "granted" /\ proc'[p].epoch = Current.counter + 1
  /\ Current'.holder = GrantOf(p, Current.counter + 1) /\ Current'.left = TTL
  /\ Current'.counter = Current.counter + 1 /\ Current'.fence = Current.fence /\ MeasureKept

Retries(p) ==
  /\ proc[p].phase = "standby" /\ proc[p].timer = 0
  /\ proc[p].path = "up" /\ Current.holder = NoGrant => Current.counter >= MaxEpoch
  /\ StandsDown(p)

Begins(p) ==
  /\ proc[p].phase = "granted"
  /\ proc'[p].phase = "leading" /\ proc'[p].epoch = proc[p].epoch
  /\ proc'[p].timer = RenewInterval /\ proc'[p].due
  /\ LeaseKept /\ Current'.fence = Current.fence /\ MeasureKept

\* The rest are steps of a term.
Goes(p) == proc[p].phase = "leading" /\ proc'[p].phase = "leading" /\ proc'[p].epoch = proc[p].epoch

Extends(p) ==
  /\ Goes(p) /\ proc[p].timer = 0 /\ proc[p].path = "up"
  /\ Current.holder = GrantOf(p, proc[p].epoch)
  /\ proc'[p].timer = RenewInterval /\ proc'[p].due = proc[p].due
  /\ Current'.holder = Current.holder /\ Current'.left = TTL /\ Current'.counter = Current.counter
  /\ Current'.fence = Current.fence /\ MeasureKept

Misses(p) ==
  /\ Goes(p) /\ proc[p].timer = 0 /\ proc[p].path = "cut"
  /\ proc'[p].timer = RenewInterval /\ proc'[p].due = proc[p].due
  /\ LeaseKept /\ Current'.fence = Current.fence /\ MeasureKept

Loses(p) ==
  /\ proc[p].phase = "leading" /\ proc[p].timer = 0 /\ proc[p].path = "up"
  /\ Current.holder # GrantOf(p, proc[p].epoch)
  /\ StandsDown(p)

Passes(p) ==
  /\ Goes(p) /\ proc[p].path = "up" /\ proc[p].due /\ Current.fence <= proc[p].epoch
  /\ proc'[p].timer = proc[p].timer /\ ~proc'[p].due
  /\ LeaseKept /\ Current'.fence = proc[p].epoch
  /\ backlog' = FALSE
  /\ gap' = IF backlog THEN 0 ELSE gap
  /\ outage' = IF backlog /\ outage = Open THEN gap ELSE outage

Fails(p) ==
  /\ Goes(p) /\ proc[p].path = "cut" /\ proc[p].due
  /\ proc'[p].timer = proc[p].timer /\ ~proc'[p].due
  /\ LeaseKept /\ Current'.fence = Current.fence /\ MeasureKept

\* Refused by the fence; a grant it still had would be released.
Fenced(p) ==
  /\ proc[p].phase = "leading" /\ proc[p].path = "up" /\ Current.fence > proc[p].epoch
  /\ Current.holder # GrantOf(p, proc[p].epoch) => StandsDown(p)

ProcessStep(p) ==
  /\ Moves(p) /\ Runs(p)
  /\ \/ Wins(p) \/ Retries(p) \/ Begins(p)
     \/ Extends(p) \/ Misses(p) \/ Loses(p) \/ Passes(p) \/ Fails(p) \/ Fenced(p)

\* What a call leaves in Redis.
LEMMA CellFields ==
  ASSUME TrialInv, NEW c, WriteCell(c), UNCHANGED master
  PROVE  Current' = c
BY DEF WriteCell, Current, TrialInv, WorldInv, World, StoreTyped

LEMMA CellKept ==
  ASSUME UNCHANGED <<db, master>>
  PROVE  LeaseKept /\ Current'.fence = Current.fence
BY DEF LeaseKept, Current

LEMMA PutFields ==
  ASSUME TrialInv, NEW p \in Schedulers, NEW r, Put(p, r),
         r.stopped = proc[p].stopped, r.path = proc[p].path
  PROVE  Moves(p) /\ proc'[p] = r
BY ProcFields DEF Put, Moves, Others

LEMMA StandbyFields ==
  ASSUME TrialInv, NEW p \in Schedulers, Put(p, Standby(p))
  PROVE  /\ Moves(p)
         /\ proc'[p].phase = "standby" /\ proc'[p].epoch = 0 /\ proc'[p].timer = Retry
<1>1. proc[p] \in ProcRecord
  BY ProcOf DEF TrialInv, WorldInv, World
<1>2. /\ Standby(p).phase = "standby" /\ Standby(p).epoch = 0 /\ Standby(p).timer = Retry
      /\ Standby(p).stopped = proc[p].stopped /\ Standby(p).path = proc[p].path
  BY <1>1 DEF Standby, ProcRecord
<1> QED
  BY <1>2, PutFields

LEMMA CampaignFields ==
  ASSUME TrialInv, LeaderTrial, Reachable, NEW p \in Schedulers, Campaign(p)
  PROVE  ProcessStep(p)
<1> DEFINE epoch == Current.counter + 1
           wins == Reaches(p) /\ Writable(arm.min) /\ Current.holder = NoGrant /\ epoch <= MaxEpoch
           c == [Current EXCEPT !.counter = epoch, !.left = arm.ttl,
                                !.holder = [owner |-> p, epoch |-> epoch]]
           r == [proc[p] EXCEPT !.phase = "granted", !.epoch = epoch, !.timer = WaitTimeout]
<1>1. /\ Runs(p) /\ proc[p].phase = "standby" /\ proc[p].timer = 0
      /\ UNCHANGED <<master, backlog, gap, outage>>
  BY DEF Campaign
<1>2. Current.counter \in Nat /\ (wins <=> proc[p].path = "up" /\ Current.holder = NoGrant /\ Current.counter < MaxEpoch)
  BY LeaderWorld, LeaseFields DEF Reaches
<1>3. CASE wins /\ WriteCell(c) /\ Put(p, r)
  <2>1. proc[p] \in ProcRecord
    BY ProcOf DEF TrialInv, WorldInv, World
  <2>2. /\ r.phase = "granted" /\ r.epoch = epoch
        /\ r.stopped = proc[p].stopped /\ r.path = proc[p].path
    BY <2>1 DEF ProcRecord
  <2>3. /\ c.counter = epoch /\ c.left = TTL /\ c.holder = GrantOf(p, epoch) /\ c.fence = Current.fence
    BY LeaderWorld DEF Cell, GrantOf
  <2>4. Put(p, r) /\ WriteCell(c) /\ wins
    BY <1>3
  <2> HIDE DEF r, c, epoch
  <2>5. Moves(p) /\ proc'[p] = r
    BY <2>2, <2>4, PutFields
  <2>6. Current' = c
    BY <1>1, <2>4, CellFields
  <2>7. Wins(p)
    BY <1>1, <1>2, <2>2, <2>3, <2>4, <2>5, <2>6 DEF Wins, MeasureKept, epoch
  <2> QED
    BY <1>1, <2>5, <2>7 DEF ProcessStep
<1>4. CASE ~wins /\ Put(p, Standby(p)) /\ UNCHANGED db
  <2>1. Moves(p) /\ StandsDown(p)
    BY <1>1, <1>4, StandbyFields, CellKept DEF StandsDown, MeasureKept
  <2>2. Retries(p)
    BY <1>1, <1>2, <1>4, <2>1, LeaderWorld DEF Retries
  <2> QED
    BY <1>1, <2>1, <2>2 DEF ProcessStep
<1> QED
  BY <1>3, <1>4 DEF Campaign, NextEpoch

LEMMA TermBeginsFields ==
  ASSUME TrialInv, LeaderTrial, NEW p \in Schedulers, TermBegins(p)
  PROVE  ProcessStep(p)
<1> DEFINE r == [proc[p] EXCEPT !.phase = "leading", !.timer = arm.renew, !.due = TRUE]
<1>1. /\ Runs(p) /\ proc[p].phase = "granted" /\ Put(p, r)
      /\ UNCHANGED <<storeVars, backlog, gap, outage>>
  BY DEF TermBegins
<1>2. /\ r.phase = "leading" /\ r.epoch = proc[p].epoch /\ r.timer = RenewInterval /\ r.due
      /\ r.stopped = proc[p].stopped /\ r.path = proc[p].path
  <2>1. proc[p] \in ProcRecord
    BY ProcOf DEF TrialInv, WorldInv, World
  <2> QED
    BY <2>1, LeaderWorld DEF ProcRecord
<1> HIDE DEF r
<1>3. Moves(p) /\ proc'[p] = r
  BY <1>1, <1>2, PutFields
<1>4. Begins(p)
  BY <1>1, <1>2, <1>3, CellKept DEF Begins, MeasureKept, storeVars
<1> QED
  BY <1>1, <1>3, <1>4 DEF ProcessStep

LEMMA HoldsGrant ==
  ASSUME NEW p
  PROVE  Holds(p) <=> Current.holder = GrantOf(p, proc[p].epoch)
BY DEF Holds, GrantOf

LEMMA RenewFields ==
  ASSUME TrialInv, LeaderTrial, Reachable, NEW p \in Schedulers, Renew(p)
  PROVE  ProcessStep(p)
<1> DEFINE r == [proc[p] EXCEPT !.timer = arm.renew]
           c == [Current EXCEPT !.left = arm.ttl]
<1>1. /\ Runs(p) /\ proc[p].phase = "leading" /\ proc[p].timer = 0
      /\ UNCHANGED <<master, backlog, gap, outage>>
  BY DEF Renew
<1>2. /\ r.phase = "leading" /\ r.epoch = proc[p].epoch /\ r.timer = RenewInterval
      /\ r.due = proc[p].due /\ r.stopped = proc[p].stopped /\ r.path = proc[p].path
  <2>1. proc[p] \in ProcRecord
    BY ProcOf DEF TrialInv, WorldInv, World
  <2> QED
    BY <1>1, <2>1, LeaderWorld DEF ProcRecord
<1>3. c.left = TTL /\ c.holder = Current.holder /\ c.counter = Current.counter /\ c.fence = Current.fence
  BY LeaderWorld DEF Cell
<1>4. /\ Reaches(p) /\ Writable(arm.min) <=> proc[p].path = "up"
      /\ proc[p].path \in {"up", "cut"}
  BY LeaderWorld, ProcFields DEF Reaches
<1>5. CASE proc[p].path = "up" /\ Holds(p)
  <2>1. WriteCell(c) /\ Put(p, r)
    BY <1>4, <1>5 DEF Renew
  <2> HIDE DEF r, c
  <2>2. Moves(p) /\ proc'[p] = r /\ Current' = c
    BY <1>1, <1>2, <2>1, PutFields, CellFields
  <2>3. Extends(p)
    BY <1>1, <1>2, <1>3, <1>5, <2>2, HoldsGrant DEF Extends, Goes, MeasureKept
  <2> QED
    BY <1>1, <2>2, <2>3 DEF ProcessStep
<1>6. CASE proc[p].path = "up" /\ ~Holds(p)
  <2>1. Put(p, Standby(p)) /\ UNCHANGED db
    BY <1>4, <1>6 DEF Renew
  <2>2. Moves(p) /\ StandsDown(p)
    BY <1>1, <2>1, StandbyFields, CellKept DEF StandsDown, MeasureKept
  <2> QED
    BY <1>1, <1>6, <2>2, HoldsGrant DEF Loses, ProcessStep
<1>7. CASE proc[p].path = "cut"
  <2>1. Put(p, r) /\ UNCHANGED db
    BY <1>4, <1>7 DEF Renew
  <2> HIDE DEF r
  <2>2. Moves(p) /\ proc'[p] = r
    BY <1>2, <2>1, PutFields
  <2>3. Misses(p)
    BY <1>1, <1>2, <1>7, <2>1, <2>2, CellKept DEF Misses, Goes, MeasureKept
  <2> QED
    BY <1>1, <2>2, <2>3 DEF ProcessStep
<1> QED
  BY <1>4, <1>5, <1>6, <1>7

LEMMA DispatchFields ==
  ASSUME TrialInv, LeaderTrial, Reachable, NEW p \in Schedulers, DispatchPass(p)
  PROVE  ProcessStep(p)
<1> DEFINE r == [proc[p] EXCEPT !.due = FALSE]
           c == [Current EXCEPT !.fence = proc[p].epoch,
                                !.log = IF backlog THEN Stamp(@, proc[p].epoch) ELSE @]
<1>1. /\ Runs(p) /\ proc[p].phase = "leading" /\ proc[p].due
      /\ UNCHANGED master
  BY DEF DispatchPass
<1>2. /\ r.phase = "leading" /\ r.epoch = proc[p].epoch /\ r.timer = proc[p].timer
      /\ ~r.due /\ r.stopped = proc[p].stopped /\ r.path = proc[p].path
  <2>1. proc[p] \in ProcRecord
    BY ProcOf DEF TrialInv, WorldInv, World
  <2> QED
    BY <1>1, <2>1 DEF ProcRecord
<1>3. /\ c.left = Current.left /\ c.holder = Current.holder /\ c.counter = Current.counter
      /\ c.fence = proc[p].epoch
  BY LeaderWorld DEF Cell
<1>4. /\ Reaches(p) /\ Writable(arm.min) <=> proc[p].path = "up"
      /\ proc[p].path \in {"up", "cut"}
  BY LeaderWorld, ProcFields DEF Reaches
<1>5. /\ Current.fence \in Int /\ proc[p].epoch \in Int
      /\ Refused(p) <=> proc[p].epoch < Current.fence
  BY LeaseFields, ProcFields DEF Refused
<1>6. CASE /\ Reaches(p) /\ Writable(arm.min) /\ ~Refused(p) /\ WriteCell(c) /\ Put(p, r)
           /\ backlog' = FALSE /\ gap' = IF backlog THEN 0 ELSE gap
           /\ outage' = IF backlog THEN OutageAround ELSE outage
  <2>1. WriteCell(c) /\ Put(p, r)
    BY <1>6
  <2>2. outage' = IF backlog /\ outage = Open THEN gap ELSE outage
    BY <1>6 DEF OutageAround
  <2> HIDE DEF r, c
  <2>3. Moves(p) /\ proc'[p] = r /\ Current' = c
    BY <1>1, <1>2, <2>1, PutFields, CellFields
  <2>4. Passes(p)
    BY <1>1, <1>2, <1>3, <1>4, <1>5, <1>6, <2>2, <2>3 DEF Passes, Goes, LeaseKept
  <2> QED
    BY <1>1, <2>3, <2>4 DEF ProcessStep
<1>7. CASE /\ Reaches(p) /\ Writable(arm.min) /\ Refused(p) /\ WriteCell(Released(p))
           /\ Put(p, Standby(p)) /\ UNCHANGED <<backlog, gap, outage>>
  <2>1. Moves(p) /\ proc'[p].phase = "standby" /\ proc'[p].epoch = 0 /\ proc'[p].timer = Retry
    BY <1>7, StandbyFields
  <2>2. ASSUME Current.holder # GrantOf(p, proc[p].epoch) PROVE StandsDown(p)
    <3>1. Current' = Current
      BY <1>1, <1>7, <2>2, HoldsGrant, CellFields DEF Released
    <3> QED
      BY <1>7, <2>1, <3>1 DEF StandsDown, MeasureKept, LeaseKept
  <2>3. Fenced(p)
    BY <1>1, <1>4, <1>5, <1>7, <2>2 DEF Fenced
  <2> QED
    BY <1>1, <2>1, <2>3 DEF ProcessStep
<1>8. CASE ~(Reaches(p) /\ Writable(arm.min)) /\ Put(p, r) /\ UNCHANGED <<db, backlog, gap, outage>>
  <2>1. Put(p, r) /\ UNCHANGED <<db, backlog, gap, outage>> /\ proc[p].path = "cut"
    BY <1>4, <1>8
  <2> HIDE DEF r
  <2>2. Moves(p) /\ proc'[p] = r
    BY <1>2, <2>1, PutFields
  <2>3. Fails(p)
    BY <1>1, <1>2, <2>1, <2>2, CellKept DEF Fails, Goes, MeasureKept
  <2> QED
    BY <1>1, <2>2, <2>3 DEF ProcessStep
<1> QED
  BY <1>6, <1>7, <1>8 DEF DispatchPass

\* A step of the scheduler processes in a leader trial.
LEMMA SchedulerFields ==
  ASSUME TrialInv, LeaderTrial, Reachable, Scheduler
  PROVE  /\ \E p \in Schedulers : ProcessStep(p)
         /\ UNCHANGED <<arm, master, alive, harnessVars>>
<1>1. PICK p \in Schedulers : ReplicaStep(p)
  BY SchedulerInv
<1>2. UNCHANGED <<arm, master, alive, harnessVars>>
  BY <1>1, SchedulerInv, ReplicaStepFrame
<1>3. ~GrantHandedBack(p)
  BY LeaderWorld DEF GrantHandedBack
<1>4. ProcessStep(p)
  BY <1>1, <1>3, CampaignFields, TermBeginsFields, RenewFields, DispatchFields DEF ReplicaStep
<1> QED
  BY <1>2, <1>4

-----------------------------------------------------------------------------
(***************************************************************************)
(* The passing of a unit of time, field by field.                           *)
(***************************************************************************)
\* Everybody who runs is asleep or between renewals.
AllWait ==
  \A p \in Schedulers : ~proc[p].stopped =>
    /\ proc[p].phase \in {"standby", "leading"} => proc[p].timer > 0
    /\ proc[p].phase = "leading" => ~proc[p].due
    /\ proc[p].phase # "granted"

AllAge ==
  \A p \in Schedulers :
    /\ proc'[p].phase = proc[p].phase /\ proc'[p].epoch = proc[p].epoch
    /\ proc'[p].stopped = proc[p].stopped /\ proc'[p].path = proc[p].path
    /\ proc'[p].timer = Down(proc[p].timer)
    /\ proc'[p].due <=> proc[p].phase = "leading"

LeaseAges ==
  /\ Current'.left = Down(Current.left)
  /\ Current'.holder = IF Current.left <= 1 THEN NoGrant ELSE Current.holder
  /\ Current'.counter = Current.counter /\ Current'.fence = Current.fence

LEMMA TickFields ==
  ASSUME TrialInv, LeaderTrial, Tick
  PROVE  /\ AllWait /\ AllAge /\ LeaseAges
         /\ Running /\ timer' = Down(timer)
         /\ UNCHANGED <<arm, master, alive, outage, step, victim, row, outcome>>
<1>1. /\ Running /\ timer' = Down(timer)
      /\ UNCHANGED <<arm, master, alive, step, outcome>>
      /\ db' = [i \in Nodes |-> Aged(db[i])]
      /\ proc' = [p \in Schedulers |-> TickRecord(p)]
      /\ \A p \in Schedulers : ~Due(p)
  BY TickInv
<1>2. UNCHANGED <<outage, victim, row>>
  BY DEF Tick
<1>3. AllWait
  <2>1. ASSUME NEW p \in Schedulers, ~proc[p].stopped
        PROVE  /\ proc[p].phase \in {"standby", "leading"} => proc[p].timer > 0
               /\ proc[p].phase = "leading" => ~proc[p].due
               /\ proc[p].phase # "granted"
    <3>1. ~Due(p) /\ arm.wait = 0 /\ proc[p].timer \in Nat
      BY <1>1, LeaderWorld, ProcFields
    <3> QED
      BY <2>1, <3>1 DEF Due, Runs
  <2> QED
    BY <2>1 DEF AllWait
<1>4. AllAge
  <2>1. ASSUME NEW p \in Schedulers
        PROVE  /\ TickRecord(p).phase = proc[p].phase /\ TickRecord(p).epoch = proc[p].epoch
               /\ TickRecord(p).stopped = proc[p].stopped /\ TickRecord(p).path = proc[p].path
               /\ TickRecord(p).timer = Down(proc[p].timer)
               /\ TickRecord(p).due <=> proc[p].phase = "leading"
    <3>1. proc[p] \in ProcRecord
      BY ProcOf DEF TrialInv, WorldInv, World
    <3> QED
      BY <3>1 DEF TickRecord, ProcRecord
  <2> QED
    BY <1>1, <2>1 DEF AllAge
<1>5. LeaseAges
  <2>1. master \in Nodes /\ Current \in Cell
    BY CurrentTyped DEF TrialInv, WorldInv, World, StoreTyped
  <2>2. Current' = Aged(Current)
    BY <1>1, <2>1 DEF Current
  <2>3. /\ Aged(Current).left = Down(Current.left)
        /\ Aged(Current).holder = IF Current.left <= 1 THEN NoGrant ELSE Current.holder
        /\ Aged(Current).counter = Current.counter /\ Aged(Current).fence = Current.fence
    BY <2>1 DEF Aged, Cell, Down
  <2> QED
    BY <2>2, <2>3 DEF LeaseAges
<1> QED
  BY <1>1, <1>2, <1>3, <1>4, <1>5

-----------------------------------------------------------------------------
(***************************************************************************)
(* What holds throughout a leader trial, whatever its fault.                *)
(***************************************************************************)
\* Nobody but the victim is ever stopped or cut off or sleeps longer than the
\* retry interval.
Calm ==
  \A p \in Others(victim) :
    /\ ~proc[p].stopped /\ proc[p].path = "up"
    /\ proc[p].phase = "standby" => proc[p].timer <= Retry

\* The counter is the newest epoch that anybody knows.
Newest ==
  /\ Current.fence <= Current.counter
  /\ Current.holder # NoGrant => Current.holder.epoch = Current.counter
  /\ \A p \in Schedulers : proc[p].epoch <= Current.counter

Common == Reachable /\ Calm /\ Newest

\* The setting of the lemmas below.
Trial == TrialInv /\ LeaderTrial /\ Common

LEMMA TrialFields ==
  ASSUME Trial
  PROVE  /\ TTL \in Nat /\ RenewInterval \in Nat /\ RenewInterval < TTL /\ Retry \in Nat /\ MaxEpoch \in Nat
         /\ Current.holder \in Grant /\ Current.left \in Nat
         /\ Current.counter \in Nat /\ Current.fence \in Nat /\ Current.counter <= MaxEpoch
         /\ \A p \in Schedulers :
              /\ proc[p].phase \in {"standby", "granted", "leading", "dead"}
              /\ proc[p].epoch \in Nat /\ proc[p].timer \in Nat
              /\ proc[p].due \in BOOLEAN /\ proc[p].stopped \in BOOLEAN /\ proc[p].path \in {"up", "cut"}
              /\ proc[p].phase \in {"granted", "leading"} <=> proc[p].epoch # 0
         /\ timer \in Nat
<1>1. /\ TTL \in Nat /\ RenewInterval \in Nat /\ RenewInterval < TTL /\ Retry \in Nat /\ MaxEpoch \in Nat
  BY LeaderWorld DEF Trial
<1>2. /\ Current.holder \in Grant /\ Current.left \in Nat
      /\ Current.counter \in 0 .. MaxEpoch /\ Current.fence \in 0 .. MaxEpoch
  BY LeaseFields DEF Trial
<1>3. ASSUME NEW p \in Schedulers
      PROVE  /\ proc[p].phase \in {"standby", "granted", "leading", "dead"}
             /\ proc[p].epoch \in Nat /\ proc[p].timer \in Nat
             /\ proc[p].due \in BOOLEAN /\ proc[p].stopped \in BOOLEAN /\ proc[p].path \in {"up", "cut"}
             /\ proc[p].phase \in {"granted", "leading"} <=> proc[p].epoch # 0
  BY ProcFields DEF Trial
<1>4. timer \in Nat
  BY DEF Trial, TrialInv, HarnessTyped
<1> QED
  BY <1>1, <1>2, <1>3, <1>4

\* A pass that the fence refuses is one of a process that lost the lease.
Rejected(p) ==
  /\ proc[p].phase = "leading" /\ proc[p].path = "up" /\ Current.fence > proc[p].epoch
  /\ Current.holder # GrantOf(p, proc[p].epoch)
  /\ StandsDown(p)

LEMMA FencedLost ==
  ASSUME Trial, NEW p \in Schedulers, Fenced(p)
  PROVE  Rejected(p)
<1>1. Current.holder # GrantOf(p, proc[p].epoch)
  <2> SUFFICES ASSUME Current.holder = GrantOf(p, proc[p].epoch) PROVE FALSE
    OBVIOUS
  <2>1. proc[p].epoch # 0 /\ Current.fence > proc[p].epoch
    BY TrialFields DEF Fenced
  <2>2. Current.holder # NoGrant /\ Current.holder.epoch = proc[p].epoch
    BY <2>1, GrantsDiffer
  <2> QED
    BY <2>1, <2>2, TrialFields DEF Trial, Common, Newest
<1> QED
  BY <1>1 DEF Fenced, Rejected

\* What a step of p can be, and that Common survives it.
Acts(p) ==
  \/ Wins(p) \/ Retries(p) \/ Begins(p)
  \/ Extends(p) \/ Misses(p) \/ Loses(p) \/ Passes(p) \/ Fails(p) \/ Rejected(p)

LEMMA CommonStep ==
  ASSUME Trial, NEW p \in Schedulers, ProcessStep(p), UNCHANGED <<master, alive, victim>>
  PROVE  Common' /\ Acts(p) /\ Moves(p) /\ Runs(p)
<1>1. Acts(p) /\ Moves(p) /\ Runs(p)
  BY FencedLost DEF ProcessStep, Acts
<1>2. Reachable'
  BY DEF Trial, Common, Reachable
<1>3. Calm'
  <2>1. ASSUME NEW q \in Others(victim)
        PROVE  /\ ~proc'[q].stopped /\ proc'[q].path = "up"
               /\ proc'[q].phase = "standby" => proc'[q].timer <= Retry
    <3>1. CASE q = p
      <4>1. /\ proc'[p].stopped = proc[p].stopped /\ proc'[p].path = proc[p].path
            /\ ~proc[p].stopped /\ proc[p].path = "up"
        BY <1>1, <3>1 DEF Moves, Trial, Common, Calm
      <4>2. proc'[p].phase = "standby" => proc'[p].timer = Retry
        BY <1>1 DEF Acts, Wins, Retries, Begins, Extends, Misses, Loses, Passes, Fails, Rejected,
                    StandsDown, Goes
      <4> QED
        BY <3>1, <4>1, <4>2, TrialFields
    <3>2. CASE q # p
      BY <1>1, <3>2 DEF Moves, Others, Trial, Common, Calm
    <3> QED
      BY <3>1, <3>2
  <2> QED
    BY <2>1 DEF Calm
<1>4. Newest'
  <2> USE TrialFields
  <2>1. /\ Current.fence <= Current.counter
        /\ Current.holder # NoGrant => Current.holder.epoch = Current.counter
        /\ \A q \in Schedulers : proc[q].epoch <= Current.counter
    BY DEF Trial, Common, Newest
  <2>2. \A q \in Schedulers : q # p => proc'[q].epoch = proc[q].epoch
    BY <1>1 DEF Moves, Others
  <2>3. CASE Wins(p)
    <3>1. /\ Current'.counter = Current.counter + 1 /\ Current'.fence = Current.fence
          /\ Current'.holder.epoch = Current.counter + 1 /\ proc'[p].epoch = Current.counter + 1
      BY <2>3, GrantsDiffer DEF Wins
    <3> QED
      BY <2>1, <2>2, <3>1 DEF Newest
  <2>4. CASE Acts(p) /\ ~Wins(p)
    <3>1. /\ Current'.counter = Current.counter /\ Current'.holder = Current.holder
          /\ Current'.fence = Current.fence \/ Current'.fence = proc[p].epoch
          /\ proc'[p].epoch = proc[p].epoch \/ proc'[p].epoch = 0
      BY <2>4 DEF Acts, Retries, Begins, Extends, Misses, Loses, Passes, Fails, Rejected,
                  StandsDown, Goes, LeaseKept
    <3> QED
      BY <2>1, <2>2, <3>1 DEF Newest
  <2> QED
    BY <1>1, <2>3, <2>4
<1> QED
  BY <1>1, <1>2, <1>3, <1>4 DEF Common

LEMMA CommonTick ==
  ASSUME Trial, AllAge, LeaseAges, UNCHANGED <<master, alive, victim>>
  PROVE  Common'
<1>1. Reachable'
  BY DEF Trial, Common, Reachable
<1>2. Calm'
  <2>1. ASSUME NEW q \in Others(victim)
        PROVE  /\ ~proc'[q].stopped /\ proc'[q].path = "up"
               /\ proc'[q].phase = "standby" => proc'[q].timer <= Retry
    <3>1. q \in Schedulers /\ proc[q].timer \in Nat /\ Retry \in Nat
      BY TrialFields DEF Others
    <3> QED
      BY <3>1, DownNat DEF AllAge, Trial, Common, Calm
  <2> QED
    BY <2>1 DEF Calm
<1>3. Newest'
  <2>1. Current'.holder # NoGrant => Current'.holder = Current.holder
    BY DEF LeaseAges
  <2> QED
    BY <2>1 DEF Trial, Common, Newest, AllAge, LeaseAges
<1> QED
  BY <1>1, <1>2, <1>3 DEF Common

-----------------------------------------------------------------------------
(***************************************************************************)
(* The situations of a leader trial.                                        *)
(***************************************************************************)
Idle(p) == proc[p].phase \in {"standby", "dead"}

Asleep(p) == proc[p].phase = "standby"

\* h leads with epoch e and renews in time: the lease runs out a lease, less an
\* interval, after the next renewal.
Steady(h, e) ==
  /\ Current.holder = GrantOf(h, e) /\ Current.counter = e
  /\ proc[h].epoch = e
  /\ \/ proc[h].phase = "granted" /\ Current.left = TTL
     \/ /\ proc[h].phase = "leading" /\ proc[h].timer <= RenewInterval
        /\ Current.left + RenewInterval = proc[h].timer + TTL

NoTermYet ==
  /\ Current.counter = 0 /\ Current.holder = NoGrant
  /\ \A p \in Schedulers : Idle(p)

FirstTerm == \E h \in Schedulers : Steady(h, 1) /\ \A p \in Others(h) : Idle(p)

\* The victim's lease has not run out.
Held ==
  /\ Current.holder = GrantOf(victim, 1) /\ Current.counter = 1
  /\ Current.left \in 1 .. TTL
  /\ proc[victim].phase \in {"granted", "leading", "dead"}
  /\ proc[victim].phase # "dead" => proc[victim].epoch = 1
  /\ proc[victim].phase = "granted" /\ ~proc[victim].stopped => Current.left = TTL
  /\ proc[victim].phase = "leading" => proc[victim].timer <= RenewInterval
  /\ \A p \in Others(victim) : Idle(p)

\* It has, or was released, and nobody has the lease.  A victim that campaigns
\* again comes after a process that was waiting.
Vacant ==
  /\ Current.holder = NoGrant /\ Current.counter = 1
  /\ proc[victim].phase = "granted" => proc[victim].stopped
  /\ proc[victim].phase = "leading" => proc[victim].timer <= RenewInterval
  /\ \A p \in Others(victim) : Idle(p)
  /\ proc[victim].phase # "dead" => \A p \in Others(victim) : Asleep(p) => proc[p].timer < Retry
  /\ Asleep(victim) => \E o \in Others(victim) : Asleep(o) /\ proc[o].timer < proc[victim].timer

\* o leads, for good: nothing hits a second process.
TakenBy(o) ==
  /\ Steady(o, 2)
  /\ \A p \in Schedulers \ {o, victim} : Idle(p)
  /\ proc[victim].epoch <= 1
  /\ proc[victim].phase = "leading" => proc[victim].timer <= RenewInterval

Taken == \E o \in Others(victim) : TakenBy(o)

-----------------------------------------------------------------------------
(***************************************************************************)
(* A leader that nothing hits keeps its term.                               *)
(***************************************************************************)
LEMMA SteadyOther ==
  ASSUME NEW h \in Schedulers, NEW e, Steady(h, e), LeaseKept, proc'[h] = proc[h]
  PROVE  Steady(h, e)'
BY DEF Steady, LeaseKept

LEMMA SteadyStep ==
  ASSUME Trial, NEW h \in Schedulers, NEW e \in Nat \ {0}, Steady(h, e), h # victim, Acts(h)
  PROVE  /\ Begins(h) \/ Extends(h) \/ Passes(h)
         /\ Steady(h, e)'
         /\ proc'[h].epoch = e
<1> USE TrialFields
<1>1. /\ Current.holder = GrantOf(h, e) /\ Current.counter = e /\ proc[h].epoch = e
      /\ proc[h].phase \in {"granted", "leading"}
      /\ proc[h].path = "up" /\ Current.fence <= e
  BY DEF Steady, Trial, Common, Newest, Calm, Others
<1>2. Begins(h) \/ Extends(h) \/ Passes(h)
  BY <1>1 DEF Acts, Wins, Retries, Misses, Loses, Fails, Rejected, Goes
<1>3. CASE Begins(h)
  BY <1>1, <1>3 DEF Begins, Steady, LeaseKept
<1>4. CASE Extends(h)
  BY <1>1, <1>4 DEF Extends, Goes, Steady
<1>5. CASE Passes(h)
  BY <1>1, <1>5 DEF Passes, Goes, Steady, LeaseKept
<1> QED
  BY <1>2, <1>3, <1>4, <1>5

LEMMA SteadyTick ==
  ASSUME Trial, NEW h \in Schedulers, NEW e \in Nat \ {0}, Steady(h, e), h # victim,
         AllWait, AllAge, LeaseAges
  PROVE  /\ Steady(h, e)' /\ proc[h].phase = "leading" /\ ~proc[h].due
<1> USE TrialFields
<1>1. ~proc[h].stopped
  BY DEF Trial, Common, Calm, Others
<1>2. /\ proc[h].phase = "leading" /\ proc[h].timer > 0 /\ ~proc[h].due
      /\ Current.left + RenewInterval = proc[h].timer + TTL
      /\ proc[h].timer <= RenewInterval /\ Current.holder = GrantOf(h, e)
      /\ Current.counter = e /\ proc[h].epoch = e
  BY <1>1 DEF Steady, AllWait
<1>3. Current.left > 1 /\ Current'.left = Current.left - 1 /\ proc'[h].timer = proc[h].timer - 1
  BY <1>2 DEF AllAge, LeaseAges, Down
<1>4. Current'.holder = GrantOf(h, e) /\ Current'.counter = e /\ proc'[h].epoch = e /\ proc'[h].phase = "leading"
  BY <1>2, <1>3 DEF AllAge, LeaseAges
<1> QED
  BY <1>2, <1>3, <1>4 DEF Steady

-----------------------------------------------------------------------------
(***************************************************************************)
(* Steps of the processes, by situation.                                    *)
(***************************************************************************)
\* Who is idle can only campaign.
LEMMA IdleActs ==
  ASSUME NEW p, Idle(p), Acts(p)
  PROVE  Wins(p) \/ Retries(p)
BY DEF Idle, Acts, Begins, Extends, Misses, Loses, Passes, Fails, Rejected, Goes

LEMMA NoTermYetStep ==
  ASSUME Trial, victim \notin Schedulers, NoTermYet, NEW p \in Schedulers, Acts(p), Moves(p)
  PROVE  NoTermYet' \/ FirstTerm'
<1> USE TrialFields
<1>1. \A q \in Others(p) : Idle(q)'
  BY DEF NoTermYet, Moves, Idle, Others
<1>2. CASE Wins(p)
  <2>1. Steady(p, 1)'
    BY <1>2 DEF Wins, NoTermYet, Steady
  <2> QED
    BY <1>1, <2>1 DEF FirstTerm, Others
<1>3. CASE Retries(p)
  BY <1>1, <1>3 DEF Retries, StandsDown, NoTermYet, Idle, LeaseKept, Others
<1> QED
  BY <1>2, <1>3, IdleActs DEF NoTermYet

LEMMA FirstTermStep ==
  ASSUME Trial, victim \notin Schedulers, FirstTerm, NEW p \in Schedulers, Acts(p), Moves(p)
  PROVE  FirstTerm'
<1>1. PICK h \in Schedulers : Steady(h, 1) /\ \A q \in Others(h) : Idle(q)
  BY DEF FirstTerm
<1>2. CASE p = h
  <2>1. Steady(h, 1)'
    BY <1>1, <1>2, SteadyStep
  <2>2. \A q \in Others(h) : Idle(q)'
    BY <1>1, <1>2 DEF Moves, Idle
  <2> QED
    BY <2>1, <2>2 DEF FirstTerm, Others
<1>3. CASE p # h
  <2>1. Retries(p)
    BY <1>1, <1>3, IdleActs, GrantsDiffer DEF Others, Steady, Wins
  <2>2. Steady(h, 1)'
    BY <1>1, <1>3, <2>1, SteadyOther DEF Retries, StandsDown, Moves, Others
  <2>3. \A q \in Others(h) : Idle(q)'
    BY <1>1, <2>1 DEF Moves, Others, Idle, Retries, StandsDown
  <2> QED
    BY <2>2, <2>3 DEF FirstTerm, Others
<1> QED
  BY <1>2, <1>3

\* While the victim's lease lasts, the others are refused.
LEMMA HeldStep ==
  ASSUME Trial, victim \in Schedulers, Held, NEW p \in Schedulers, Acts(p), Moves(p), Runs(p),
         UNCHANGED victim
  PROVE  /\ Held'
         /\ p # victim => Retries(p)
         /\ p = victim => Begins(p) \/ Extends(p) \/ Misses(p) \/ Passes(p) \/ Fails(p)
<1> USE TrialFields
<1>1. CASE p # victim
  <2>1. Retries(p)
    BY <1>1, IdleActs, GrantsDiffer DEF Held, Others, Wins
  <2>2. proc'[victim] = proc[victim] /\ LeaseKept
    BY <1>1, <2>1 DEF Moves, Others, Retries, StandsDown
  <2>3. \A q \in Others(victim) : Idle(q)'
    BY <1>1, <2>1 DEF Held, Moves, Others, Idle, Retries, StandsDown
  <2> QED
    BY <1>1, <2>1, <2>2, <2>3 DEF Held, LeaseKept, Others
<1>2. CASE p = victim
  <2>1. \A q \in Others(victim) : Idle(q)'
    BY <1>2 DEF Held, Moves, Idle
  <2>2. /\ proc[p].phase \in {"granted", "leading"} /\ proc[p].epoch = 1
        /\ Current.holder = GrantOf(p, proc[p].epoch) /\ Current.counter = 1 /\ Current.fence <= 1
        /\ Current.left \in 1 .. TTL /\ TTL > 0
    BY <1>2 DEF Held, Runs, Trial, Common, Newest
  <2>3. Begins(p) \/ Extends(p) \/ Misses(p) \/ Passes(p) \/ Fails(p)
    BY <2>2 DEF Acts, Wins, Retries, Loses, Rejected
  <2>4. /\ proc'[p].phase = "leading" /\ proc'[p].epoch = 1 /\ proc'[p].timer <= RenewInterval
        /\ Current'.holder = Current.holder /\ Current'.counter = 1 /\ Current'.left \in {Current.left, TTL}
    BY <1>2, <2>2, <2>3 DEF Begins, Extends, Misses, Passes, Fails, Goes, LeaseKept, Held
  <2> QED
    BY <1>2, <2>1, <2>2, <2>3, <2>4 DEF Held, Others
<1> QED
  BY <1>1, <1>2

\* A victim that comes back cannot win against who has been waiting.
LEMMA VacantStep ==
  ASSUME Trial, MaxEpoch >= 2, victim \in Schedulers, Vacant,
         NEW p \in Schedulers, Acts(p), Moves(p), Runs(p), UNCHANGED victim,
         arm.fault \in Survived => \E o \in Others(victim) : Asleep(o),
         proc[victim].phase = "dead" \/ arm.fault \in Survived
  PROVE  /\ p # victim => Wins(p) /\ TakenBy(p)'
         /\ p = victim => Vacant' /\ (Misses(p) \/ Loses(p) \/ Passes(p) \/ Fails(p))
<1> USE TrialFields
<1>1. ASSUME p # victim PROVE Wins(p) /\ TakenBy(p)'
  <2>1. Wins(p)
    <3>1. Idle(p) /\ Current.holder = NoGrant /\ Current.counter = 1 /\ proc[p].path = "up"
      BY <1>1 DEF Vacant, Others, Trial, Common, Calm
    <3> QED
      BY <3>1, IdleActs DEF Retries
  <2>2. Steady(p, 2)'
    BY <2>1 DEF Wins, Vacant, Steady
  <2>3. \A q \in Schedulers \ {p, victim} : Idle(q)'
    BY DEF Vacant, Moves, Idle, Others
  <2>4. proc'[victim] = proc[victim] /\ proc[victim].epoch <= 1
    BY <1>1 DEF Moves, Others, Vacant, Trial, Common, Newest
  <2> QED
    BY <2>1, <2>2, <2>3, <2>4 DEF TakenBy, Vacant
<1>2. ASSUME p = victim PROVE Vacant' /\ (Misses(p) \/ Loses(p) \/ Passes(p) \/ Fails(p))
  <2>1. \A q \in Others(victim) : proc'[q] = proc[q] /\ q \in Schedulers
    BY <1>2 DEF Moves, Others
  <2>2. proc[p].phase = "leading"
    <3>1. proc[p].phase # "granted" /\ proc[p].phase # "dead"
      BY <1>2 DEF Vacant, Runs
    <3>2. proc[p].phase # "standby"
      <4> SUFFICES ASSUME proc[p].phase = "standby" PROVE FALSE
        OBVIOUS
      <4>1. PICK o \in Others(victim) : Asleep(o) /\ proc[o].timer < proc[p].timer
        BY <1>2 DEF Vacant, Asleep
      <4>2. proc[p].timer > 0
        BY <2>1, <4>1
      <4> QED
        BY <4>2 DEF Acts, Wins, Retries, Begins, Extends, Misses, Loses, Passes, Fails, Rejected, Goes
    <3> QED
      BY <3>1, <3>2
  <2>3. /\ Current.holder = NoGrant /\ Current.counter = 1 /\ proc[p].epoch = 1 /\ Current.fence <= 1
    BY <2>2 DEF Vacant, Trial, Common, Newest
  <2>4. Misses(p) \/ Loses(p) \/ Passes(p) \/ Fails(p)
    BY <2>2, <2>3, GrantsDiffer DEF Acts, Wins, Retries, Begins, Extends, Rejected
  <2>5. /\ Current'.holder = NoGrant /\ Current'.counter = 1
        /\ \A q \in Others(victim) : Idle(q)' /\ (Asleep(q)' <=> Asleep(q))
        /\ \A q \in Others(victim) : Asleep(q) => proc'[q].timer < Retry
    <3>1. LeaseKept
      BY <2>4 DEF Misses, Loses, Passes, Fails, StandsDown
    <3> QED
      BY <1>2, <2>1, <2>2, <2>3, <3>1 DEF Vacant, Idle, Asleep, LeaseKept
  <2>6. CASE Loses(p)
    <3>1. proc'[p].phase = "standby" /\ proc'[p].timer = Retry
      BY <2>6 DEF Loses, StandsDown
    <3>2. PICK o \in Others(victim) : Asleep(o)
      BY <1>2, <2>2
    <3>3. Asleep(o)' /\ proc'[o].timer < proc'[p].timer
      BY <2>5, <3>1, <3>2
    <3>4. \E q \in Others(victim) : Asleep(q)' /\ proc'[q].timer < proc'[p].timer
      BY <3>3
    <3> QED
      BY <1>2, <2>4, <2>5, <3>1, <3>4 DEF Vacant, Others, Asleep
  <2>7. CASE Misses(p) \/ Passes(p) \/ Fails(p)
    <3>1. proc'[p].phase = "leading" /\ proc'[p].timer <= RenewInterval
      BY <1>2, <2>2, <2>7 DEF Misses, Passes, Fails, Goes, Vacant
    <3> QED
      BY <1>2, <2>4, <2>5, <3>1 DEF Vacant, Others, Asleep
  <2> QED
    BY <2>4, <2>6, <2>7
<1> QED
  BY <1>1, <1>2

\* A superseded victim dispatches until the fence or its renewal tells it.
LEMMA TakenStep ==
  ASSUME Trial, victim \in Schedulers, NEW o \in Others(victim), TakenBy(o),
         NEW p \in Schedulers, Acts(p), Moves(p), Runs(p), UNCHANGED victim
  PROVE  /\ TakenBy(o)'
         /\ p = o => Begins(p) \/ Extends(p) \/ Passes(p)
         /\ p = victim => Retries(p) \/ Begins(p) \/ Misses(p) \/ Loses(p) \/ Passes(p) \/ Fails(p) \/ Rejected(p)
         /\ p \notin {o, victim} => Retries(p)
<1> USE TrialFields
<1>1. /\ o \in Schedulers /\ o # victim
      /\ Steady(o, 2) /\ Current.holder = GrantOf(o, 2) /\ Current.holder # NoGrant
      /\ proc[victim].epoch <= 1
  BY GrantsDiffer DEF Others, TakenBy, Steady
<1>2. CASE p = o
  <2>1. (Begins(p) \/ Extends(p) \/ Passes(p)) /\ Steady(o, 2)'
    BY <1>1, <1>2, SteadyStep
  <2>2. proc'[victim] = proc[victim] /\ \A q \in Schedulers \ {o, victim} : Idle(q)'
    BY <1>1, <1>2 DEF Moves, Others, TakenBy, Idle
  <2> QED
    BY <1>1, <1>2, <2>1, <2>2 DEF TakenBy
<1>3. CASE p \notin {o, victim}
  <2>1. Retries(p)
    BY <1>1, <1>3, IdleActs DEF TakenBy, Wins
  <2>2. proc'[victim] = proc[victim] /\ proc'[o] = proc[o] /\ LeaseKept
    BY <1>1, <1>3, <2>1 DEF Moves, Others, Retries, StandsDown
  <2>3. \A q \in Schedulers \ {o, victim} : Idle(q)'
    BY <1>3, <2>1 DEF Moves, Others, TakenBy, Idle, Retries, StandsDown
  <2> QED
    BY <1>1, <1>3, <2>1, <2>2, <2>3, SteadyOther DEF TakenBy
<1>4. CASE p = victim
  <2>1. Current.holder # GrantOf(p, proc[p].epoch)
    BY <1>1, <1>4, GrantsDiffer
  <2>2. \/ Retries(p) \/ Begins(p) \/ Misses(p) \/ Loses(p) \/ Passes(p) \/ Fails(p) \/ Rejected(p)
    BY <1>1, <2>1 DEF Acts, Wins, Extends
  <2>3. proc'[o] = proc[o] /\ \A q \in Schedulers \ {o, victim} : Idle(q)'
    BY <1>1, <1>4 DEF Moves, Others, TakenBy, Idle
  <2>4. /\ LeaseKept
        /\ proc'[p].epoch <= 1
        /\ proc'[p].phase = "leading" => proc'[p].timer <= RenewInterval
    BY <1>1, <1>4, <2>2 DEF Retries, Begins, Misses, Loses, Passes, Fails, Rejected, StandsDown, Goes, TakenBy
  <2> QED
    BY <1>1, <1>4, <2>2, <2>3, <2>4, SteadyOther DEF TakenBy
<1> QED
  BY <1>2, <1>3, <1>4

-----------------------------------------------------------------------------
(***************************************************************************)
(* A unit of time, by situation.                                            *)
(***************************************************************************)
\* Who waits comes a unit closer to its attempt.
LEMMA SleepersTick ==
  ASSUME Trial, AllWait, AllAge
  PROVE  \A q \in Others(victim) :
           /\ q \in Schedulers /\ (Idle(q)' <=> Idle(q)) /\ (Asleep(q)' <=> Asleep(q))
           /\ Asleep(q) => /\ proc[q].timer > 0 /\ proc[q].timer <= Retry
                           /\ proc'[q].timer = proc[q].timer - 1
<1>1. ASSUME NEW q \in Others(victim)
      PROVE  /\ q \in Schedulers /\ (Idle(q)' <=> Idle(q)) /\ (Asleep(q)' <=> Asleep(q))
             /\ Asleep(q) => /\ proc[q].timer > 0 /\ proc[q].timer <= Retry
                             /\ proc'[q].timer = proc[q].timer - 1
  <2>1. q \in Schedulers /\ ~proc[q].stopped /\ proc[q].timer \in Nat
        /\ (Asleep(q) => proc[q].timer <= Retry)
    BY TrialFields DEF Others, Trial, Common, Calm, Asleep
  <2> QED
    BY <2>1 DEF AllWait, AllAge, Idle, Asleep, Down
<1> QED
  BY <1>1

LEMMA NoTermYetTick ==
  ASSUME Trial, NoTermYet, AllAge, LeaseAges
  PROVE  NoTermYet'
BY DEF NoTermYet, AllAge, LeaseAges, Idle

LEMMA FirstTermTick ==
  ASSUME Trial, victim \notin Schedulers, FirstTerm, AllWait, AllAge, LeaseAges
  PROVE  FirstTerm'
<1>1. PICK h \in Schedulers : Steady(h, 1) /\ \A q \in Others(h) : Idle(q)
  BY DEF FirstTerm
<1>2. Steady(h, 1)'
  BY <1>1, SteadyTick
<1>3. \A q \in Others(h) : Idle(q)'
  BY <1>1 DEF AllAge, Idle, Others
<1> QED
  BY <1>2, <1>3 DEF FirstTerm, Others

LEMMA HeldTick ==
  ASSUME Trial, victim \in Schedulers, Held, AllWait, AllAge, LeaseAges, UNCHANGED victim
  PROVE  /\ Current.left > 1 => Held' /\ Current'.left = Current.left - 1
         /\ Current.left = 1 => Vacant' /\ \A q \in Others(victim) : Asleep(q)' => proc'[q].timer < Retry
<1> USE TrialFields
<1>1. /\ \A q \in Others(victim) : Idle(q)'
      /\ \A q \in Others(victim) : Asleep(q)' => proc'[q].timer < Retry
  BY SleepersTick DEF Held
<1>2. /\ proc'[victim].phase = proc[victim].phase /\ proc'[victim].epoch = proc[victim].epoch
      /\ proc'[victim].stopped = proc[victim].stopped
      /\ proc'[victim].timer <= proc[victim].timer /\ proc'[victim].timer \in Nat
      /\ proc[victim].phase = "granted" => proc[victim].stopped
  BY DownNat DEF AllAge, AllWait
<1>3. /\ Current.holder = GrantOf(victim, 1) /\ Current'.counter = 1 /\ Current.left \in 1 .. TTL
      /\ proc[victim].phase \in {"granted", "leading", "dead"}
      /\ proc[victim].phase # "dead" => proc[victim].epoch = 1
      /\ proc[victim].phase = "leading" => proc'[victim].timer <= RenewInterval
  BY <1>2 DEF Held, LeaseAges
<1>4. ASSUME Current.left > 1 PROVE Held' /\ Current'.left = Current.left - 1
  <2>1. Current'.left = Current.left - 1 /\ Current'.holder = GrantOf(victim, 1)
    BY <1>3, <1>4 DEF LeaseAges, Down
  <2> QED
    BY <1>1, <1>2, <1>3, <1>4, <2>1 DEF Held, Others
<1>5. ASSUME Current.left = 1 PROVE Vacant'
  <2>1. Current'.holder = NoGrant
    BY <1>5 DEF LeaseAges
  <2> QED
    BY <1>1, <1>2, <1>3, <2>1 DEF Vacant, Others, Asleep
<1> QED
  BY <1>1, <1>4, <1>5

LEMMA VacantTick ==
  ASSUME Trial, victim \in Schedulers, Vacant, AllWait, AllAge, LeaseAges, UNCHANGED victim
  PROVE  Vacant'
<1> USE TrialFields
<1>1. /\ \A q \in Others(victim) : Idle(q)'
      /\ proc[victim].phase # "dead" => \A q \in Others(victim) : Asleep(q)' => proc'[q].timer < Retry
  BY SleepersTick DEF Vacant
<1>2. /\ proc'[victim].phase = proc[victim].phase /\ proc'[victim].stopped = proc[victim].stopped
      /\ proc'[victim].timer = Down(proc[victim].timer)
      /\ proc'[victim].timer <= proc[victim].timer
  BY DownNat DEF AllAge
<1>3. Current'.holder = NoGrant /\ Current'.counter = 1
  BY DEF Vacant, LeaseAges
<1>4. ASSUME Asleep(victim)'
      PROVE  \E o \in Others(victim) : Asleep(o)' /\ proc'[o].timer < proc'[victim].timer
  <2>1. PICK o \in Others(victim) : Asleep(o) /\ proc[o].timer < proc[victim].timer
    BY <1>2, <1>4 DEF Vacant, Asleep
  <2>2. Asleep(o)' /\ proc[o].timer > 0 /\ proc'[o].timer = proc[o].timer - 1
    BY <2>1, SleepersTick
  <2>3. proc'[o].timer < proc'[victim].timer
    BY <1>2, <2>1, <2>2 DEF Down, Others
  <2> QED
    BY <2>2, <2>3
<1>5. proc'[victim].phase = "leading" => proc'[victim].timer <= RenewInterval
  BY <1>2 DEF Vacant, Down
<1> QED
  BY <1>1, <1>2, <1>3, <1>4, <1>5 DEF Vacant, Others

LEMMA TakenTick ==
  ASSUME Trial, victim \in Schedulers, NEW o \in Others(victim), TakenBy(o),
         AllWait, AllAge, LeaseAges, UNCHANGED victim
  PROVE  TakenBy(o)' /\ proc[o].phase = "leading" /\ ~proc[o].due
<1> USE TrialFields
<1>1. Steady(o, 2)' /\ proc[o].phase = "leading" /\ ~proc[o].due
  BY SteadyTick DEF TakenBy, Others
<1>2. /\ \A q \in Schedulers \ {o, victim} : Idle(q)'
      /\ proc'[victim].epoch <= 1
      /\ proc'[victim].phase = "leading" => proc'[victim].timer <= RenewInterval
  BY DownNat DEF AllAge, Idle, TakenBy, Down
<1> QED
  BY <1>1, <1>2 DEF TakenBy

-----------------------------------------------------------------------------
(***************************************************************************)
(* The fault and what follows it.                                           *)
(***************************************************************************)
Early == {"elect", "gauges", "load", "before"}

\* Which situation goes with which part of the trial, and who is there to take
\* over.
Situation ==
  /\ step \in Early => victim \notin Schedulers
  /\ step \in Early \ {"elect"} => FirstTerm
  /\ victim \notin Schedulers =>
       /\ NoTermYet \/ FirstTerm
       /\ arm.count = 2 => \A h \in Schedulers : \E o \in Others(h) : proc[o].phase # "dead"
  /\ victim \in Schedulers =>
       /\ Held \/ Vacant \/ Taken
       /\ proc[victim].phase # "dead" <=> arm.fault \in Survived
       /\ arm.count = 2 => \E o \in Others(victim) : proc[o].phase # "dead"

TermsInv == LeaderTrial /\ Running => Common /\ Situation

LEMMA NobodyIsNobody == "nobody" \notin Schedulers /\ NoGrant.owner = "nobody"
BY TrialAssumption DEF NoGrant

\* Somebody waits to take over.
LEMMA SomebodyWaits ==
  ASSUME Trial, Situation, victim \in Schedulers, Held \/ Vacant, arm.count = 2
  PROVE  \E o \in Others(victim) : Asleep(o)
<1>1. PICK o \in Others(victim) : proc[o].phase # "dead"
  BY DEF Situation
<1>2. Idle(o)
  BY DEF Held, Vacant
<1> QED
  BY <1>1, <1>2 DEF Idle, Asleep

\* The process the fault hits is the one that leads.
LEMMA OwnerLeads ==
  ASSUME Trial, FirstTerm
  PROVE  /\ LeaseOwner \in Schedulers /\ Steady(LeaseOwner, 1)
         /\ \A p \in Others(LeaseOwner) : Idle(p)
         /\ Current.holder = GrantOf(LeaseOwner, 1) /\ LeaderFound
         /\ Current.left \in 1 .. TTL /\ Current.left >= TTL - RenewInterval
         /\ proc[LeaseOwner].phase \in {"granted", "leading"} /\ proc[LeaseOwner].epoch = 1
<1>1. PICK h \in Schedulers : Steady(h, 1) /\ \A q \in Others(h) : Idle(q)
  BY DEF FirstTerm
<1>2. Current.holder = GrantOf(h, 1) /\ LeaseOwner = h /\ LeaderFound
  BY <1>1, GrantsDiffer DEF Steady, LeaseOwner, LeaderFound
<1>3. Current.left \in 1 .. TTL /\ Current.left >= TTL - RenewInterval
  BY <1>1, TrialFields DEF Steady
<1>4. proc[h].phase \in {"granted", "leading"} /\ proc[h].epoch = 1
  BY <1>1 DEF Steady
<1> QED
  BY <1>1, <1>2, <1>3, <1>4

\* How the fault leaves its victim.
Dies(p) == proc'[p].phase = "dead" /\ proc'[p].epoch = 0

Survives(p) ==
  /\ proc'[p].phase = proc[p].phase /\ proc'[p].epoch = proc[p].epoch /\ proc'[p].timer = proc[p].timer
  /\ proc'[p].due = proc[p].due

Freed == Current'.holder = NoGrant /\ Current'.counter = Current.counter

LEMMA PutOthers ==
  ASSUME TrialInv, NEW p \in Schedulers, NEW r, Put(p, r)
  PROVE  proc'[p] = r /\ \A q \in Others(p) : proc'[q] = proc[q]
BY ProcFields DEF Put, Others

LEMMA SignalFields ==
  ASSUME Trial, FirstTerm, SignalLeader
  PROVE  /\ victim' = LeaseOwner /\ UNCHANGED <<arm, master, alive, gap, submit, backlog, row, outcome>>
         /\ outage' = Open /\ step = "before" /\ timer = 0
         /\ \A q \in Others(LeaseOwner) : proc'[q] = proc[q]
         /\ Current'.fence = Current.fence
         /\ \/ arm.fault = "stop" /\ Survives(LeaseOwner) /\ LeaseKept /\ proc'[LeaseOwner].stopped
               /\ proc'[LeaseOwner].path = proc[LeaseOwner].path
               /\ step' = "paused" /\ timer' = arm.cut
            \/ arm.fault = "kill" /\ Dies(LeaseOwner) /\ LeaseKept /\ step' = "submit"
            \/ arm.fault = "term" /\ Dies(LeaseOwner) /\ Freed /\ step' = "submit"
<1> DEFINE h == LeaseOwner
<1> USE DEF At, Goto
<1>1. h \in Schedulers /\ LeaderFound /\ Current.holder = GrantOf(h, proc[h].epoch)
  BY OwnerLeads
<1>2. /\ arm.fault \in {"kill", "term", "stop"} /\ step = "before" /\ timer = 0
      /\ victim' = h /\ outage' = Open
      /\ Put(h, IF arm.fault = "stop" THEN [proc[h] EXCEPT !.stopped = TRUE] ELSE Killed(h))
      /\ IF arm.fault = "term" THEN WriteCell(Released(h)) ELSE UNCHANGED db
      /\ IF arm.fault = "stop" THEN step' = "paused" /\ timer' = arm.cut ELSE step' = "submit" /\ timer' = 0
      /\ UNCHANGED <<arm, master, alive, gap, submit, backlog, row, outcome>>
  BY <1>1 DEF SignalLeader
<1>3. proc[h] \in ProcRecord /\ TrialInv
  BY <1>1, ProcOf DEF Trial, TrialInv, WorldInv, World
<1> HIDE DEF h
<1>4. CASE arm.fault = "stop"
  <2>1. proc'[h] = [proc[h] EXCEPT !.stopped = TRUE] /\ \A q \in Others(h) : proc'[q] = proc[q]
    BY <1>1, <1>2, <1>3, <1>4, PutOthers
  <2>2. Survives(h) /\ proc'[h].stopped /\ proc'[h].path = proc[h].path
    BY <1>3, <2>1 DEF Survives, ProcRecord
  <2>3. LeaseKept /\ Current'.fence = Current.fence
    BY <1>2, <1>4, CellKept
  <2> QED
    BY <1>2, <1>4, <2>1, <2>2, <2>3 DEF h
<1>5. CASE arm.fault # "stop"
  <2>1. proc'[h] = Killed(h) /\ \A q \in Others(h) : proc'[q] = proc[q]
    BY <1>1, <1>2, <1>3, <1>5, PutOthers
  <2>2. Dies(h)
    BY <1>3, <2>1 DEF Dies, Killed, ProcRecord
  <2>3. arm.fault = "kill" => LeaseKept /\ Current'.fence = Current.fence
    BY <1>2, CellKept
  <2>4. ASSUME arm.fault = "term" PROVE Freed /\ Current'.fence = Current.fence
    <3>1. Current' = [Current EXCEPT !.holder = NoGrant, !.left = 0]
      BY <1>1, <1>2, <1>3, <2>4, CellFields, HoldsGrant DEF Released
    <3> QED
      BY <3>1, LeaderWorld DEF Freed, Cell, Trial
  <2> QED
    BY <1>2, <1>5, <2>1, <2>2, <2>3, <2>4 DEF h
<1> QED
  BY <1>4, <1>5

LEMMA CutFields ==
  ASSUME Trial, FirstTerm, CutLeader
  PROVE  /\ victim' = LeaseOwner /\ UNCHANGED <<arm, master, alive, gap, submit, backlog, row, outcome>>
         /\ outage' = Open /\ step = "before" /\ timer = 0
         /\ \A q \in Others(LeaseOwner) : proc'[q] = proc[q]
         /\ Current'.fence = Current.fence /\ LeaseKept
         /\ arm.fault \in {"cut", "flap"}
         /\ Survives(LeaseOwner) /\ proc'[LeaseOwner].path = "cut"
         /\ proc'[LeaseOwner].stopped = proc[LeaseOwner].stopped
         /\ step' = "cut" /\ (arm.fault = "cut" => timer' = arm.cut)
<1> DEFINE h == LeaseOwner
<1>1. h \in Schedulers
  BY OwnerLeads
<1>2. /\ arm.fault \in {"cut", "flap"} /\ step = "before" /\ timer = 0
      /\ victim' = h /\ outage' = Open /\ Put(h, CutPath(h))
      /\ step' = "cut" /\ (arm.fault = "cut" => timer' = arm.cut)
      /\ UNCHANGED <<db, arm, master, alive, gap, submit, backlog, row, outcome>>
  BY DEF CutLeader, At, Goto, storeVars
<1>3. proc[h] \in ProcRecord /\ TrialInv
  BY <1>1, ProcOf DEF Trial, TrialInv, WorldInv, World
<1> HIDE DEF h
<1>4. proc'[h] = CutPath(h) /\ \A q \in Others(h) : proc'[q] = proc[q]
  BY <1>1, <1>2, <1>3, PutOthers
<1>5. Survives(h) /\ proc'[h].path = "cut" /\ proc'[h].stopped = proc[h].stopped
  BY <1>3, <1>4 DEF Survives, CutPath, ProcRecord
<1>6. LeaseKept /\ Current'.fence = Current.fence
  BY <1>2, CellKept
<1> QED
  BY <1>2, <1>4, <1>5, <1>6 DEF h

\* The fault makes a victim of the leader.
LEMMA FaultHits ==
  ASSUME Trial, Situation, SignalLeader \/ CutLeader
  PROVE  /\ (Common /\ Situation)'
         /\ LeaseKept /\ victim' = LeaseOwner => Held'
         /\ Freed => Vacant' /\ victim' = LeaseOwner
         /\ LeaseKept \/ Freed
         /\ victim' = LeaseOwner /\ victim' \in Schedulers
<1> DEFINE h == LeaseOwner
<1> USE TrialFields
<1>1. step = "before" /\ victim \notin Schedulers /\ FirstTerm
  BY DEF SignalLeader, CutLeader, At, Situation, Early
<1>2. /\ h \in Schedulers /\ Steady(h, 1)
      /\ \A p \in Others(h) : Idle(p)
      /\ Current.holder = GrantOf(h, 1)
      /\ Current.left \in 1 .. TTL
      /\ proc[h].phase \in {"granted", "leading"} /\ proc[h].epoch = 1 /\ Current.counter = 1
  BY <1>1, OwnerLeads DEF Steady
<1>3. /\ victim' = h /\ UNCHANGED <<arm, master, alive>>
      /\ \A q \in Others(h) : proc'[q] = proc[q]
      /\ Current'.fence = Current.fence /\ step' \in {"paused", "cut", "submit"}
      /\ \/ Survives(h) /\ LeaseKept /\ arm.fault \in Survived
         \/ Dies(h) /\ LeaseKept /\ arm.fault \notin Survived
         \/ Dies(h) /\ Freed /\ arm.fault \notin Survived
  BY <1>1, SignalFields, CutFields DEF Survived
<1> HIDE DEF h
<1>4. Current'.counter = 1 /\ Current'.holder \in {GrantOf(h, 1), NoGrant}
  BY <1>2, <1>3 DEF LeaseKept, Freed
<1>5. Common'
  <2>1. Reachable'
    BY <1>3 DEF Reachable, Trial, Common
  <2>2. Calm'
    BY <1>1, <1>2, <1>3 DEF Calm, Others, Trial, Common
  <2>3. Newest'
    <3>1. \A q \in Schedulers : proc'[q].epoch <= 1
      BY <1>2, <1>3 DEF Dies, Survives, Trial, Common, Newest, Others
    <3>2. Current'.fence <= 1 /\ (Current'.holder # NoGrant => Current'.holder.epoch = 1)
      BY <1>2, <1>3, <1>4, GrantsDiffer DEF Trial, Common, Newest
    <3> QED
      BY <1>4, <3>1, <3>2 DEF Newest
  <2> QED
    BY <2>1, <2>2, <2>3 DEF Common
<1>6. \A q \in Others(h) : Idle(q)'
  BY <1>2, <1>3 DEF Idle
<1>7. ASSUME LeaseKept PROVE Held'
  <2>1. /\ Current'.holder = GrantOf(h, 1) /\ Current'.left = Current.left /\ Current'.left \in 1 .. TTL
    BY <1>2, <1>7 DEF LeaseKept
  <2>2. CASE Dies(h)
    BY <1>3, <1>4, <1>6, <2>1, <2>2 DEF Held, Others, Dies
  <2>3. CASE Survives(h)
    BY <1>2, <1>3, <1>4, <1>6, <2>1, <2>3 DEF Held, Others, Survives, Steady
  <2> QED
    BY <1>3, <2>2, <2>3
<1>8. ASSUME Freed, Dies(h) PROVE Vacant'
  BY <1>2, <1>3, <1>4, <1>6, <1>8 DEF Vacant, Freed, Dies, Others, Asleep
<1>9. Freed => Dies(h)
  BY <1>2, <1>3, GrantsDiffer DEF Freed, LeaseKept
<1>10. proc'[h].phase # "dead" <=> arm.fault \in Survived
  BY <1>2, <1>3 DEF Dies, Survives
<1>11. arm.count = 2 => \E o \in Others(h) : proc'[o].phase # "dead"
  BY <1>1, <1>2, <1>3 DEF Situation
<1>12. Situation'
  <2>1. step' \notin Early
    BY <1>3 DEF Early
  <2>2. Held' \/ Vacant'
    BY <1>3, <1>7, <1>8
  <2> QED
    BY <1>2, <1>3, <1>10, <1>11, <2>1, <2>2 DEF Situation, Others
<1> QED
  BY <1>2, <1>3, <1>5, <1>7, <1>8, <1>9, <1>12 DEF h

-----------------------------------------------------------------------------
(***************************************************************************)
(* The steps of a leader trial.                                             *)
(***************************************************************************)
\* The harness looks, and goes on or returns.
Watches ==
  LeaderSeen \/ GaugesRead \/ LoadStarts \/ Settled \/ SubmitReturns \/ DrainReturns \/ Verdict

LEMMA TrialSteps ==
  ASSUME TrialInv, LeaderTrial, [Next]_vars
  PROVE  /\ UNCHANGED arm
         /\ \/ Scheduler \/ Tick \/ Watches
            \/ SignalLeader \/ CutLeader \/ Resume \/ Heal \/ FlapAgain
            \/ CtxExpires \/ RunDeferred \/ Finish \/ UNCHANGED vars
<1>1. step \in LeaderSteps /\ ~StoreTrial /\ ~Bench
  BY ArmKinds DEF TrialInv, StepTyped
<1>2. ~(StoreLeaderSeen \/ StoreFault \/ WatchPoll \/ StoreSubmitReturns \/ StoreVerdict)
  BY <1>1 DEF StoreLeaderSeen, StoreFault, WatchPoll, StoreSubmitReturns, StoreVerdict
<1>3. ~(CutConfirmed \/ ChurnLeader \/ WindowEnds \/ MasterDies \/ Failover \/ ReadPromoted
        \/ ChurnAgain \/ ReelectionSeen \/ ComponentsStop \/ CollectResults)
  BY <1>1 DEF CutConfirmed, ChurnLeader, WindowEnds, MasterDies, Failover, ReadPromoted, ChurnAgain,
              ReelectionSeen, ComponentsStop, CollectResults, LeaderSteps, At
<1>4. ~(ComponentsReady \/ LoadSubmitted \/ CompletionSeen \/ TasksExecuted)
  BY <1>1 DEF ComponentsReady, LoadSubmitted, CompletionSeen, TasksExecuted
<1>5. ~(Replication \/ Repair)
  <2>1. arm.nodes = 0
    BY LeaderWorld, LeaderArmFacts
  <2>2. online = {}
    BY <2>1 DEF TrialInv, WorldInv, World, StoreTyped, Nodes
  <2> QED
    BY <1>1, <2>2 DEF Replication, NoticeDown, ReplicationLive, Repair, LeaderSteps
<1>6. \/ Scheduler \/ Tick \/ Watches
      \/ SignalLeader \/ CutLeader \/ Resume \/ Heal \/ FlapAgain
      \/ CtxExpires \/ RunDeferred \/ Finish \/ UNCHANGED vars
  BY <1>2, <1>3, <1>4, <1>5 DEF Next, Harness, Watches
<1>7. UNCHANGED arm
  <2>1. CASE Scheduler
    BY <2>1, SchedulerInv, ReplicaStepFrame
  <2>2. CASE Watches
    BY <2>2 DEF Watches, LeaderSeen, GaugesRead, LoadStarts, Settled, SubmitReturns, DrainReturns, Verdict
  <2>3. CASE SignalLeader \/ CutLeader \/ Resume \/ Heal \/ FlapAgain
    BY <2>3 DEF SignalLeader, CutLeader, Resume, Heal, FlapAgain
  <2>4. CASE Tick \/ CtxExpires \/ RunDeferred \/ Finish \/ UNCHANGED vars
    BY <2>4 DEF Tick, CtxExpires, RunDeferred, Finish, vars
  <2> QED
    BY <1>6, <2>1, <2>2, <2>3, <2>4
<1> QED
  BY <1>6, <1>7

\* What only the harness sees changes none of the world.
LEMMA WatchesFields ==
  ASSUME TrialInv, LeaderTrial, Watches
  PROVE  /\ UNCHANGED <<db, master, alive, proc, arm, victim, backlog, gap, outage>>
         /\ Running
         /\ \/ step = "elect" /\ LeaderFound /\ step' = "gauges"
            \/ step = "gauges" /\ step' = "load"
            \/ step = "load" /\ step' = "before" /\ arm.fault # "none"
            \/ step = "load" /\ step' = "submit" /\ arm.fault = "none"
            \/ step = "settle" /\ step' = "submit"
            \/ step = "submit" /\ step' = "drain"
            \/ step = "drain" /\ step' = "verdict"
            \/ step' = "defer"
<1> USE DEF At, Goto, Check, Return
<1>1. UNCHANGED <<db, master, alive, proc, arm, victim, backlog, gap, outage>> /\ Running
  BY DEF Watches, LeaderSeen, GaugesRead, LoadStarts, Settled, SubmitReturns, DrainReturns, Verdict,
         storeVars, procVars, Running
<1>2. CASE LeaderSeen \/ GaugesRead \/ Settled \/ SubmitReturns \/ Verdict
  BY <1>1, <1>2 DEF LeaderSeen, GaugesRead, Settled, SubmitReturns, Verdict
<1>3. CASE DrainReturns
  BY <1>1, <1>3 DEF DrainReturns, LeaderTrial
<1>4. CASE LoadStarts
  BY <1>1, <1>4 DEF LoadStarts
<1> QED
  BY <1>1, <1>2, <1>3, <1>4 DEF Watches

\* Cutting, healing and continuing the victim.
LEMMA VictimFields ==
  ASSUME TrialInv, LeaderTrial, Resume \/ Heal \/ FlapAgain
  PROVE  /\ UNCHANGED <<db, master, alive, arm, victim, backlog, gap, outage, submit, row>>
         /\ victim \in Schedulers /\ Running /\ timer = 0
         /\ \A q \in Others(victim) : proc'[q] = proc[q]
         /\ Survives(victim)
         /\ \/ /\ step = "paused" /\ LeaseMoved /\ UNCHANGED outcome
               /\ step' = "settle" /\ timer' = Settle
               /\ ~proc'[victim].stopped /\ proc'[victim].path = proc[victim].path
            \/ /\ step = "paused" /\ ~LeaseMoved /\ step' = "defer" /\ outcome' = "unsuperseded"
               /\ UNCHANGED proc
            \/ /\ step = "cut" /\ UNCHANGED outcome
               /\ step' = IF arm.fault = "flap" THEN "healed" ELSE "settle"
               /\ arm.fault # "flap" => timer' = Settle
               /\ proc'[victim].stopped = proc[victim].stopped /\ proc'[victim].path = "up"
            \/ /\ step = "healed" /\ UNCHANGED outcome
               /\ \/ step' = "cut" /\ proc'[victim].path = "cut"
                  \/ step' = "settle" /\ timer' = Settle /\ UNCHANGED proc
               /\ proc'[victim].stopped = proc[victim].stopped
<1> USE DEF At, Goto, Check, Return
<1>1. /\ UNCHANGED <<db, master, alive, arm, victim, backlog, gap, outage, submit, row>>
      /\ step \in {"paused", "cut", "healed"} /\ timer = 0
  BY DEF Resume, Heal, FlapAgain, storeVars
<1>2. victim \in Schedulers /\ Running
  BY <1>1 DEF TrialInv, StepTyped, Running
<1>3. proc[victim] \in ProcRecord
  BY <1>2, ProcOf DEF TrialInv, WorldInv, World
<1>4. CASE UNCHANGED proc
  <2>1. Survives(victim) /\ \A q \in Others(victim) : proc'[q] = proc[q]
    BY <1>4 DEF Survives
  <2>2. CASE Resume
    BY <1>1, <1>2, <1>4, <2>1, <2>2, <1>3, PutOthers DEF Resume, ProcRecord
  <2>3. CASE Heal
    <3>1. Put(victim, HealPath(victim))
      BY <2>3 DEF Heal
    <3>2. proc'[victim] = HealPath(victim)
      BY <1>2, <3>1, PutOthers
    <3>3. proc'[victim].path = "up"
      BY <1>3, <3>2 DEF HealPath, ProcRecord
    <3> QED
      BY <1>1, <1>2, <1>4, <2>1, <2>3, <3>3 DEF Heal
  <2>4. CASE FlapAgain
    <3>1. Put(victim, CutPath(victim)) => proc'[victim].path = "cut"
      BY <1>2, <1>3, PutOthers DEF CutPath, ProcRecord
    <3> QED
      BY <1>1, <1>2, <1>4, <2>1, <2>4, <3>1 DEF FlapAgain
  <2> QED
    BY <2>2, <2>3, <2>4
<1>5. CASE Resume /\ LeaseMoved
  <2>1. Put(victim, [proc[victim] EXCEPT !.stopped = FALSE])
    BY <1>5 DEF Resume
  <2>2. proc'[victim] = [proc[victim] EXCEPT !.stopped = FALSE] /\ \A q \in Others(victim) : proc'[q] = proc[q]
    BY <1>2, <2>1, PutOthers
  <2>3. Survives(victim) /\ ~proc'[victim].stopped /\ proc'[victim].path = proc[victim].path
    BY <1>3, <2>2 DEF Survives, ProcRecord
  <2> QED
    BY <1>1, <1>2, <1>5, <2>2, <2>3 DEF Resume
<1>6. CASE Heal
  <2>1. proc'[victim] = HealPath(victim) /\ \A q \in Others(victim) : proc'[q] = proc[q]
    BY <1>2, <1>6, PutOthers DEF Heal
  <2>2. Survives(victim) /\ proc'[victim].path = "up" /\ proc'[victim].stopped = proc[victim].stopped
    BY <1>3, <2>1 DEF Survives, HealPath, ProcRecord
  <2> QED
    BY <1>1, <1>2, <1>6, <2>1, <2>2 DEF Heal
<1>7. CASE FlapAgain /\ Put(victim, CutPath(victim))
  <2>1. proc'[victim] = CutPath(victim) /\ \A q \in Others(victim) : proc'[q] = proc[q]
    BY <1>2, <1>7, PutOthers
  <2>2. Survives(victim) /\ proc'[victim].path = "cut" /\ proc'[victim].stopped = proc[victim].stopped
    BY <1>3, <2>1 DEF Survives, CutPath, ProcRecord
  <2>3. step = "healed" /\ UNCHANGED outcome
        /\ (step' = "cut" \/ (step' = "settle" /\ timer' = Settle /\ UNCHANGED proc))
    BY <1>7 DEF FlapAgain
  <2> QED
    BY <1>1, <1>2, <2>1, <2>2, <2>3
<1>8. \/ UNCHANGED proc \/ (Resume /\ LeaseMoved) \/ Heal \/ (FlapAgain /\ Put(victim, CutPath(victim)))
  BY DEF Resume, FlapAgain
<1> QED
  BY <1>4, <1>5, <1>6, <1>7, <1>8

-----------------------------------------------------------------------------
(***************************************************************************)
(* The situations from step to step.                                        *)
(***************************************************************************)
\* Nothing that a situation depends on changes.
LEMMA SituationsSame ==
  ASSUME Trial, UNCHANGED <<db, master, alive, proc, victim>>
  PROVE  /\ Common' /\ (NoTermYet' <=> NoTermYet) /\ (FirstTerm' <=> FirstTerm)
         /\ (Held' <=> Held) /\ (Vacant' <=> Vacant) /\ (Taken' <=> Taken)
         /\ \A o \in Others(victim) : TakenBy(o)' <=> TakenBy(o)
<1>1. Current' = Current
  BY DEF Current
<1>2. Common'
  BY <1>1 DEF Trial, Common, Reachable, Calm, Newest, Others
<1>3. \A p \in Schedulers : (Idle(p)' <=> Idle(p)) /\ (Asleep(p)' <=> Asleep(p))
  BY DEF Idle, Asleep
<1>4. \A h \in Schedulers, e \in Nat : Steady(h, e)' <=> Steady(h, e)
  BY <1>1 DEF Steady
<1>5. (NoTermYet' <=> NoTermYet) /\ (FirstTerm' <=> FirstTerm)
  BY <1>1, <1>3, <1>4 DEF NoTermYet, FirstTerm, Others
<1>6. (Held' <=> Held) /\ (Vacant' <=> Vacant)
  BY <1>1, <1>3 DEF Held, Vacant, Others, Asleep
<1>7. \A o \in Others(victim) : TakenBy(o)' <=> TakenBy(o)
  BY <1>1, <1>3, <1>4 DEF TakenBy, Others
<1>8. Taken' <=> Taken
  BY <1>7 DEF Taken, Others
<1> QED
  BY <1>2, <1>5, <1>6, <1>7, <1>8

\* The victim's path changes, or it is continued after the lease was taken.
LEMMA VictimTouched ==
  ASSUME Trial, victim \in Schedulers, UNCHANGED <<db, master, alive, victim>>,
         \A q \in Others(victim) : proc'[q] = proc[q],
         Survives(victim), proc'[victim].stopped = proc[victim].stopped \/ Taken
  PROVE  /\ Common'
         /\ Taken => Taken'
         /\ \A o \in Others(victim) : TakenBy(o) => TakenBy(o)'
         /\ ~Taken => (Held => Held') /\ (Vacant => Vacant')
<1>1. Current' = Current
  BY DEF Current
<1>2. \A q \in Schedulers : /\ proc'[q].phase = proc[q].phase /\ proc'[q].epoch = proc[q].epoch
                            /\ proc'[q].timer = proc[q].timer
  BY DEF Survives, Others
<1>3. \A q \in Schedulers : (Idle(q)' <=> Idle(q)) /\ (Asleep(q)' <=> Asleep(q))
  BY <1>2 DEF Idle, Asleep
<1>4. Common'
  BY <1>1, <1>2 DEF Trial, Common, Reachable, Calm, Newest, Others
<1>5. \A o \in Others(victim) : TakenBy(o) => TakenBy(o)'
  BY <1>1, <1>2, <1>3 DEF TakenBy, Steady, Others
<1>6. Taken => Taken'
  BY <1>5 DEF Taken, Others
<1>7. ASSUME ~Taken, Held PROVE Held'
  BY <1>1, <1>2, <1>3, <1>7 DEF Held, Others
<1>8. ASSUME ~Taken, Vacant PROVE Vacant'
  BY <1>1, <1>2, <1>3, <1>8 DEF Vacant, Others, Asleep
<1> QED
  BY <1>4, <1>5, <1>6, <1>7, <1>8

\* The situations exclude each other.
LEMMA OneSituation ==
  ASSUME Trial, victim \in Schedulers
  PROVE  /\ Held => ~Vacant /\ ~Taken
         /\ Vacant => ~Taken
         /\ LeaseMoved /\ (Held \/ Vacant \/ Taken) => Taken
         /\ Taken => LeaseMoved /\ LeaderFound
<1>1. Held => LeaseOwner = victim /\ Current.holder # NoGrant /\ Current.counter = 1
  BY GrantsDiffer DEF Held, LeaseOwner
<1>2. Vacant => Current.holder = NoGrant /\ LeaseOwner = NoGrant.owner /\ Current.counter = 1
  BY DEF Vacant, LeaseOwner
<1>3. ASSUME Taken
      PROVE  LeaseOwner \in Schedulers /\ LeaseOwner # victim /\ Current.holder # NoGrant /\ Current.counter = 2
  BY <1>3, GrantsDiffer DEF Taken, TakenBy, Steady, LeaseOwner, Others
<1> QED
  BY <1>1, <1>2, <1>3, NobodyIsNobody DEF LeaseMoved, LeaderFound

\* A step of a process.
LEMMA SituationStep ==
  ASSUME Trial, MaxEpoch >= 2, Situation, NEW p \in Schedulers, ProcessStep(p),
         UNCHANGED <<arm, master, alive, step, victim>>
  PROVE  (Common /\ Situation)'
<1>1. Common' /\ Acts(p) /\ Moves(p) /\ Runs(p)
  BY CommonStep
<1>2. \A q \in Schedulers : proc'[q].phase = "dead" <=> proc[q].phase = "dead"
  <2>1. proc'[p].phase # "dead" /\ proc[p].phase # "dead"
    BY <1>1 DEF Runs, Acts, Wins, Retries, Begins, Extends, Misses, Loses, Passes, Fails, Rejected,
                StandsDown, Goes
  <2> QED
    BY <1>1, <2>1 DEF Moves, Others
<1>3. CASE victim \notin Schedulers
  <2>1. NoTermYet \/ FirstTerm
    BY <1>3 DEF Situation
  <2>2. (FirstTerm => FirstTerm') /\ (NoTermYet' \/ FirstTerm')
    BY <1>1, <1>3, <2>1, NoTermYetStep, FirstTermStep
  <2> QED
    BY <1>1, <1>2, <1>3, <2>2 DEF Situation, Others
<1>4. CASE victim \in Schedulers
  <2>1. Held' \/ Vacant' \/ Taken'
    <3>1. CASE Held
      BY <1>1, <1>4, <3>1, HeldStep
    <3>2. CASE Vacant
      <4>1. arm.fault \in Survived => \E o \in Others(victim) : Asleep(o)
        BY <1>4, <3>2, SomebodyWaits, LeaderWorld, LeaderArmTimes DEF Trial
      <4>2. proc[victim].phase = "dead" \/ arm.fault \in Survived
        BY <1>4 DEF Situation
      <4>3. p # victim => TakenBy(p)'
        BY <1>1, <1>4, <3>2, <4>1, <4>2, VacantStep
      <4>4. p = victim => Vacant'
        BY <1>1, <1>4, <3>2, <4>1, <4>2, VacantStep
      <4> QED
        BY <4>3, <4>4 DEF Taken, Others
    <3>3. CASE Taken
      <4>1. PICK o \in Others(victim) : TakenBy(o)
        BY <3>3 DEF Taken
      <4>2. TakenBy(o)'
        BY <1>1, <1>4, <4>1, TakenStep
      <4> QED
        BY <4>2 DEF Taken, Others
    <3> QED
      BY <1>4, <3>1, <3>2, <3>3 DEF Situation
  <2> QED
    BY <1>1, <1>2, <1>4, <2>1 DEF Situation, Others
<1> QED
  BY <1>3, <1>4

\* A unit of time.
LEMMA SituationTick ==
  ASSUME Trial, Situation, AllWait, AllAge, LeaseAges, UNCHANGED <<arm, master, alive, step, victim>>
  PROVE  (Common /\ Situation)'
<1>1. Common'
  BY CommonTick
<1>2. \A q \in Schedulers : proc'[q].phase = "dead" <=> proc[q].phase = "dead"
  BY DEF AllAge
<1>3. CASE victim \notin Schedulers
  <2>1. (FirstTerm => FirstTerm') /\ (NoTermYet' \/ FirstTerm')
    BY <1>3, NoTermYetTick, FirstTermTick DEF Situation
  <2> QED
    BY <1>1, <1>2, <1>3, <2>1 DEF Situation, Others
<1>4. CASE victim \in Schedulers
  <2>1. Held' \/ Vacant' \/ Taken'
    <3>1. CASE Held
      <4>1. Current.left = 1 \/ Current.left > 1
        BY <3>1 DEF Held
      <4> QED
        BY <1>4, <3>1, <4>1, HeldTick
    <3>2. CASE Vacant
      BY <1>4, <3>2, VacantTick
    <3>3. CASE Taken
      <4>1. PICK o \in Others(victim) : TakenBy(o)
        BY <3>3 DEF Taken
      <4>2. TakenBy(o)'
        BY <1>4, <4>1, TakenTick
      <4> QED
        BY <4>2 DEF Taken, Others
    <3> QED
      BY <1>4, <3>1, <3>2, <3>3 DEF Situation
  <2> QED
    BY <1>1, <1>2, <1>4, <2>1 DEF Situation, Others
<1> QED
  BY <1>3, <1>4

\* A step of the harness that hits nobody.
LEMMA SituationWatched ==
  ASSUME Trial, Situation, Watches, Running'
  PROVE  (Common /\ Situation)'
<1>1. /\ UNCHANGED <<db, master, alive, proc, arm, victim>>
      /\ \/ step = "elect" /\ LeaderFound /\ step' = "gauges"
         \/ step \in {"gauges", "load"} /\ step' \in Early
         \/ step' \notin Early
  BY WatchesFields DEF Trial, Running, Early
<1>2. /\ Common' /\ (NoTermYet' <=> NoTermYet) /\ (FirstTerm' <=> FirstTerm)
      /\ (Held' <=> Held) /\ (Vacant' <=> Vacant) /\ (Taken' <=> Taken)
  BY <1>1, SituationsSame
<1>3. NoTermYet => ~LeaderFound
  BY DEF NoTermYet, LeaderFound
<1>4. step' \in Early => victim \notin Schedulers
  BY <1>1 DEF Situation, Early
<1>5. step' \in Early \ {"elect"} => FirstTerm
  BY <1>1, <1>3, <1>4 DEF Situation, Early
<1>6. \A q \in Schedulers : proc'[q].phase = proc[q].phase
  BY <1>1
<1> QED
  BY <1>1, <1>2, <1>4, <1>5, <1>6 DEF Situation, Others

\* A step that ends or repeats the fault.
LEMMA SituationTouched ==
  ASSUME Trial, Situation, Resume \/ Heal \/ FlapAgain, Running'
  PROVE  (Common /\ Situation)'
<1>1. /\ UNCHANGED <<db, master, alive, arm, victim>>
      /\ victim \in Schedulers /\ step' \notin Early
      /\ \A q \in Others(victim) : proc'[q] = proc[q]
      /\ Survives(victim)
      /\ LeaseMoved \/ proc'[victim].stopped = proc[victim].stopped
  BY VictimFields DEF Trial, Running, Early
<1>2. proc'[victim].stopped = proc[victim].stopped \/ Taken
  BY <1>1, OneSituation DEF Situation
<1>3. /\ Common' /\ (Held' \/ Vacant' \/ Taken')
  BY <1>1, <1>2, VictimTouched DEF Situation
<1>4. \A q \in Schedulers : proc'[q].phase = proc[q].phase
  BY <1>1 DEF Survives, Others
<1> QED
  BY <1>1, <1>3, <1>4 DEF Situation, Others

\* The start: two processes, or one, and none of them leads.
LEMMA TwoMembers ==
  ASSUME NEW a, a.count = 2, NEW h
  PROVE  \E o \in Members(a) : o # h /\ o \in Schedulers
<1>1. IsFiniteSet(Schedulers) /\ Cardinality(Schedulers) \in Nat /\ Cardinality(Schedulers) >= 3
  BY StoreAssumption, TrialAssumption, FS_CardinalityType
<1>2. PICK x : x \in Schedulers
  BY <1>1, FS_EmptySet
<1>3. IsFiniteSet(Schedulers \ {x}) /\ Cardinality(Schedulers \ {x}) = Cardinality(Schedulers) - 1
  BY <1>1, <1>2, FS_RemoveElement
<1>4. PICK y : y \in Schedulers \ {x}
  BY <1>1, <1>3, FS_EmptySet
<1>5. {x} \cup {y} \in SUBSET Schedulers /\ Cardinality({x} \cup {y}) = 2
  <2>1. IsFiniteSet({x}) /\ Cardinality({x}) = 1
    BY FS_Singleton
  <2>2. Cardinality({x} \cup {y}) = IF y \in {x} THEN Cardinality({x}) ELSE Cardinality({x}) + 1
    BY <2>1, FS_AddElement
  <2> QED
    BY <1>2, <1>4, <2>1, <2>2
<1>6. Members(a) \in SUBSET Schedulers /\ Cardinality(Members(a)) = 2
  BY <1>5 DEF Members
<1>7. ~(Members(a) \subseteq {h})
  <2> SUFFICES ASSUME Members(a) \subseteq {h} PROVE FALSE
    OBVIOUS
  <2>1. IsFiniteSet({h}) /\ Cardinality({h}) = 1
    BY FS_Singleton
  <2>2. Cardinality(Members(a)) <= 1
    BY <2>1, FS_Subset
  <2> QED
    BY <1>6, <2>2
<1> QED
  BY <1>6, <1>7

LEMMA TermsInit ==
  ASSUME Init, LeaderTrial
  PROVE  Common /\ Situation /\ Current.counter = 0
<1>1. PICK f \in Offsets : proc = Started(arm, f)
  BY DEF Init
<1>2. \A p \in Schedulers :
        /\ proc[p].phase \in {"standby", "dead"} /\ proc[p].epoch = 0 /\ ~proc[p].stopped
        /\ proc[p].path = "up" /\ proc[p].timer <= Retry
        /\ p \in Members(arm) => proc[p].phase = "standby"
  <2>1. ASSUME NEW p \in Schedulers
        PROVE  /\ proc[p].phase \in {"standby", "dead"} /\ proc[p].epoch = 0 /\ ~proc[p].stopped
               /\ proc[p].path = "up" /\ proc[p].timer <= Retry
               /\ p \in Members(arm) => proc[p].phase = "standby"
    <3>1. f[p] \in 0 .. Retry /\ Retry \in Nat
      BY DurationsNat DEF Offsets
    <3>2. proc[p] = IF p \in Members(arm) THEN Process(f[p]) ELSE [Process(0) EXCEPT !.phase = "dead"]
      BY <1>1 DEF Started
    <3> QED
      BY <3>1, <3>2 DEF Process
  <2> QED
    BY <2>1
<1>3. /\ Current = EmptyCell /\ Reachable /\ victim = "nobody" /\ step = "elect"
  <2>1. arm.nodes \in Nat
    BY TrialInvInit, LeaderWorld, LeaderArmFacts
  <2> QED
    BY <2>1 DEF Init, StoreInit, Current, Reachable, ReplicasOnline
<1>4. Current.holder = NoGrant /\ Current.counter = 0 /\ Current.fence = 0
  BY <1>3 DEF EmptyCell
<1>5. Common
  BY <1>2, <1>3, <1>4 DEF Common, Calm, Newest, Others
<1>6. NoTermYet
  BY <1>2, <1>4 DEF NoTermYet, Idle
<1>7. ASSUME arm.count = 2, NEW h \in Schedulers PROVE \E o \in Others(h) : proc[o].phase # "dead"
  <2>1. PICK o \in Members(arm) : o # h /\ o \in Schedulers
    BY <1>7, TwoMembers
  <2> QED
    BY <1>2, <2>1 DEF Others
<1> QED
  BY <1>3, <1>4, <1>5, <1>6, <1>7, NobodyIsNobody DEF Situation, Early

LEMMA ArmKept ==
  ASSUME TrialInv, [Next]_vars
  PROVE  /\ UNCHANGED arm
         /\ (LeaderTrial' <=> LeaderTrial) /\ (StoreTrial' <=> StoreTrial) /\ (Bench' <=> Bench)
<1>1. UNCHANGED arm
  <2>1. CASE QuietStep \/ WatchPoll \/ TasksExecuted
    BY <2>1, QuietStepFrame DEF WatchPoll, TasksExecuted
  <2>2. CASE LoadStarts \/ ComponentsReady \/ ComponentsStop
    BY <2>2, LoadInv
  <2>3. CASE SignalLeader \/ CutLeader \/ Resume \/ Heal \/ FlapAgain
    BY <2>3 DEF SignalLeader, CutLeader, Resume, Heal, FlapAgain
  <2>4. CASE ChurnLeader \/ ChurnAgain \/ StoreFault \/ MasterDies \/ Failover
    BY <2>4 DEF ChurnLeader, ChurnAgain, StoreFault, MasterDies, Failover
  <2>5. CASE Scheduler
    BY <2>5, SchedulerInv, ReplicaStepFrame
  <2>6. CASE Replication \/ Repair \/ Tick \/ CtxExpires \/ RunDeferred \/ UNCHANGED vars
    BY <2>6 DEF Replication, Repair, Tick, CtxExpires, RunDeferred, vars
  <2> QED
    BY <2>1, <2>2, <2>3, <2>4, <2>5, <2>6 DEF Next, Harness, QuietStep
<1> QED
  BY <1>1 DEF LeaderTrial, StoreTrial, Bench

\* Until runTrial returns.
LEMMA RunningSteps ==
  ASSUME TrialInv, LeaderTrial, [Next]_vars, Running'
  PROVE  /\ Running /\ UNCHANGED arm
         /\ \/ Scheduler \/ Tick \/ Watches
            \/ SignalLeader \/ CutLeader \/ Resume \/ Heal \/ FlapAgain
            \/ UNCHANGED vars
<1>1. ~CtxExpires /\ ~RunDeferred /\ ~Finish
  BY DEF CtxExpires, RunDeferred, Finish, Goto, Return, Running
<1>2. CASE Scheduler \/ Tick \/ Watches
  BY <1>2, TrialSteps, WatchesFields DEF Scheduler, Tick, Running
<1>3. CASE SignalLeader \/ CutLeader \/ Resume \/ Heal \/ FlapAgain
  BY <1>3, TrialSteps DEF SignalLeader, CutLeader, Resume, Heal, FlapAgain, At, Running
<1>4. CASE UNCHANGED vars
  BY <1>4 DEF vars, harnessVars, Running
<1> QED
  BY <1>1, <1>2, <1>3, <1>4, TrialSteps

\* Once it has, and when it does, nothing of the result changes any more.
LEMMA ReturnedSteps ==
  ASSUME TrialInv, LeaderTrial, [Next]_vars, ~Running'
  PROVE  UNCHANGED <<db, master, backlog, gap, outage>>
<1>1. CASE Scheduler \/ Tick \/ CutLeader \/ Heal \/ FlapAgain
  <2>1. Running'
    BY <1>1 DEF Scheduler, harnessVars, Tick, CutLeader, Heal, FlapAgain, Goto, Running
  <2> QED
    BY <2>1
<1>2. CASE Watches
  BY <1>2, WatchesFields
<1>3. CASE SignalLeader
  <2>1. LeaderFound => Running'
    BY <1>3 DEF SignalLeader, Goto, Running
  <2> QED
    BY <1>3, <2>1 DEF SignalLeader
<1>4. CASE Resume
  BY <1>4, VictimFields
<1>5. CASE CtxExpires \/ RunDeferred \/ Finish \/ UNCHANGED vars
  BY <1>5 DEF CtxExpires, RunDeferred, Finish, vars, storeVars, procVars
<1> QED
  BY <1>1, <1>2, <1>3, <1>4, <1>5, TrialSteps

LEMMA TermsNext ==
  ASSUME TrialInv, MaxEpoch >= 2, TermsInv, [Next]_vars
  PROVE  TermsInv'
<1> SUFFICES ASSUME LeaderTrial', Running' PROVE (Common /\ Situation)'
  BY DEF TermsInv
<1>1. LeaderTrial
  BY ArmKept
<1>2. /\ Running /\ UNCHANGED arm
      /\ \/ Scheduler \/ Tick \/ Watches
         \/ SignalLeader \/ CutLeader \/ Resume \/ Heal \/ FlapAgain
         \/ UNCHANGED vars
  BY <1>1, RunningSteps
<1>3. Trial /\ Situation
  BY <1>1, <1>2 DEF TermsInv, Trial
<1>4. CASE Scheduler
  <2>1. PICK p \in Schedulers : ProcessStep(p)
    BY <1>1, <1>3, <1>4, SchedulerFields DEF Trial, Common
  <2>2. UNCHANGED <<arm, master, alive, step, victim>>
    BY <1>1, <1>3, <1>4, SchedulerFields DEF Trial, Common, harnessVars
  <2> QED
    BY <1>3, <2>1, <2>2, SituationStep
<1>5. CASE Tick
  BY <1>1, <1>3, <1>5, TickFields, SituationTick
<1>6. CASE Watches
  BY <1>3, <1>6, SituationWatched
<1>7. CASE SignalLeader \/ CutLeader
  BY <1>3, <1>7, FaultHits
<1>8. CASE Resume \/ Heal \/ FlapAgain
  BY <1>3, <1>8, SituationTouched
<1>9. CASE UNCHANGED vars
  <2>1. UNCHANGED <<db, master, alive, proc, arm, victim, step>>
    BY <1>9 DEF vars, storeVars, procVars, harnessVars
  <2>2. /\ Common' /\ (NoTermYet' <=> NoTermYet) /\ (FirstTerm' <=> FirstTerm)
        /\ (Held' <=> Held) /\ (Vacant' <=> Vacant) /\ (Taken' <=> Taken)
    BY <1>3, <2>1, SituationsSame
  <2> QED
    BY <1>3, <2>1, <2>2 DEF Situation, Others
<1> QED
  BY <1>2, <1>4, <1>5, <1>6, <1>7, <1>8, <1>9

\* An experiment of the benchmark has no process that could campaign.
LEMMA BenchCounter ==
  ASSUME TrialInv, CleanupInv, Bench, [Next]_vars
  PROVE  Current'.counter = Current.counter
<1>1. /\ step \in BenchSteps /\ arm.fault = "none" /\ ~StoreTrial /\ ~LeaderTrial
      /\ \A p \in Schedulers : proc[p].phase = "dead"
  BY ArmKinds DEF TrialInv, StepTyped, CleanupInv, BenchAlone
<1>2. CASE QuietStep \/ WatchPoll \/ TasksExecuted \/ LoadStarts \/ ComponentsReady \/ ComponentsStop
  BY <1>2, QuietStepFrame, LoadInv, WatchPollInv DEF TasksExecuted, storeVars, Current
<1>3. ~(SignalLeader \/ CutLeader \/ Resume \/ Heal \/ FlapAgain \/ StoreFault)
  BY <1>1 DEF SignalLeader, CutLeader, Resume, Heal, FlapAgain, StoreFault, At, BenchSteps
<1>4. ~(ChurnLeader \/ ChurnAgain \/ MasterDies \/ Failover \/ Repair)
  BY <1>1 DEF ChurnLeader, ChurnAgain, MasterDies, Failover, Repair, At, BenchSteps
<1>5. ~Scheduler
  BY <1>1, SchedulerInv DEF ReplicaStep, Campaign, TermBegins, GrantHandedBack, Renew, DispatchPass, Runs
<1>6. ~Replication
  <2>1. arm.nodes = 0
    BY BenchArmFacts DEF Bench
  <2>2. online = {}
    BY <2>1 DEF TrialInv, WorldInv, World, StoreTyped, Nodes
  <2> QED
    BY <2>2 DEF Replication, NoticeDown, ReplicationLive
<1>7. CASE Tick
  <2>1. UNCHANGED master /\ db' = [i \in Nodes |-> Aged(db[i])]
    BY <1>7, TickInv
  <2>2. master \in Nodes /\ Current \in Cell
    BY CurrentTyped DEF TrialInv, WorldInv, World, StoreTyped
  <2> QED
    BY <2>1, <2>2, AgedCell DEF Current
<1>8. CASE CtxExpires \/ RunDeferred \/ UNCHANGED vars
  BY <1>8 DEF CtxExpires, RunDeferred, vars, storeVars, Current
<1> QED
  BY <1>2, <1>3, <1>4, <1>5, <1>6, <1>7, <1>8 DEF Next, Harness, QuietStep

\* The bound on the terms, carried through the cleanup.
CounterInv == ~StoreTrial => Current.counter <= 2

LEMMA CounterNext ==
  ASSUME TrialInv, TrialInv', CleanupInv, TermsInv, TermsInv', CounterInv, [Next]_vars
  PROVE  CounterInv'
<1> SUFFICES ASSUME ~StoreTrial' PROVE Current'.counter <= 2
  BY DEF CounterInv
<1>1. ~StoreTrial /\ (Bench \/ LeaderTrial) /\ (LeaderTrial' <=> LeaderTrial)
  BY ArmKept, ArmKinds
<1>2. CASE Bench
  BY <1>1, <1>2, BenchCounter DEF CounterInv
<1>3. CASE LeaderTrial /\ Running'
  <2>1. Trial' /\ Situation'
    BY <1>1, <1>3 DEF TermsInv, Trial
  <2> QED
    BY <2>1 DEF Situation, NoTermYet, FirstTerm, Held, Vacant, Taken, TakenBy, Steady
<1>4. CASE LeaderTrial /\ ~Running'
  BY <1>1, <1>4, ReturnedSteps DEF CounterInv, Current
<1> QED
  BY <1>1, <1>2, <1>3, <1>4

LEMMA TermsInvariant == MaxEpoch >= 2 => (Spec => [](TrialInv /\ CleanupInv /\ TermsInv /\ CounterInv))
<1> SUFFICES ASSUME MaxEpoch >= 2 PROVE Spec => [](TrialInv /\ CleanupInv /\ TermsInv /\ CounterInv)
  OBVIOUS
<1>1. Init => TermsInv /\ CounterInv
  <2> SUFFICES ASSUME Init PROVE TermsInv /\ CounterInv
    OBVIOUS
  <2>1. TermsInv
    BY TermsInit DEF TermsInv
  <2>2. Current.counter = 0
    <3>1. arm.nodes \in Nat
      BY ArmFacts DEF Init, Arms
    <3> QED
      BY <3>1 DEF Init, StoreInit, Current, EmptyCell
  <2> QED
    BY <2>1, <2>2 DEF CounterInv
<1>2. TrialInv /\ TrialInv' /\ CleanupInv /\ TermsInv /\ CounterInv /\ [Next]_vars => TermsInv' /\ CounterInv'
  BY TermsNext, CounterNext
<1> QED
  BY <1>1, <1>2, CleanupInvariant, PTL DEF Spec

\* One fault costs the leader at most one term: whether it is killed, told to
\* terminate, paused, cut off once or again and again, a leader trial sees two
\* epochs at most, and an experiment without a lease none.  For every number of
\* processes and every choice of the intervals.
THEOREM OneFaultOneElection == Spec => [](~StoreTrial => Current.counter <= 2)
<1>1. TrialInv /\ CounterInv => (~StoreTrial => Current.counter <= 2)
  BY DEF CounterInv
<1>2. CASE MaxEpoch >= 2
  BY <1>1, <1>2, TermsInvariant, PTL
<1>3. CASE MaxEpoch < 2
  <2>1. TrialInv => (~StoreTrial => Current.counter <= 2)
    BY <1>3, LeaseFields, DurationsNat
  <2> QED
    BY <2>1, TrialInvariant, PTL
<1> QED
  BY <1>2, <1>3, DurationsNat

-----------------------------------------------------------------------------
(***************************************************************************)
(* What happens when, after the fault.                                      *)
(***************************************************************************)
LongArm == arm.fault = "cut" /\ arm.failover

BriefArm == arm.fault = "cut" /\ ~arm.failover

LEMMA CutArms ==
  ASSUME Trial
  PROVE  /\ LongArm => arm.fault = "cut" /\ arm.cut = 2 * TTL
         /\ BriefArm => arm.fault = "cut" /\ arm.cut = TTL \div 2
         /\ arm.fault = "cut" => LongArm \/ BriefArm
         /\ ~(LongArm /\ BriefArm)
         /\ arm.fault = "stop" => arm.cut = PauseFor
         /\ arm.fault \in Survived => arm.count = 2
         /\ LeaseMoved # arm.failover => (LeaseMoved => ~arm.failover) /\ (~LeaseMoved => arm.failover)
<1>1. arm \in FailoverArms \cup PartitionArms
  BY LeaderWorld DEF Trial
<1>2. arm.failover \in BOOLEAN
  <2>1. \A n, c, f, t, b : LeaderArm(n, c, f, t, b).failover = b
    BY DEF LeaderArm
  <2>2. arm.failover = TRUE \/ arm.failover = FALSE
    BY <1>1, <2>1 DEF FailoverArms, PartitionArms
  <2> QED
    BY <2>2
<1>3. LeaseMoved \in BOOLEAN
  BY DEF LeaseMoved
<1>4. LeaseMoved # arm.failover => (LeaseMoved => ~arm.failover) /\ (~LeaseMoved => arm.failover)
  BY <1>2, <1>3
<1> QED
  BY <1>1, <1>4, LeaderArmTimes DEF LongArm, BriefArm

\* Everybody who waits tries again before t.
WaitBefore(t) == \A q \in Others(victim) : Asleep(q) => proc[q].timer < t

\* The lease runs out, and somebody takes it, before the victim is continued.
PausedOnTime ==
  /\ arm.fault = "stop" /\ proc[victim].stopped /\ proc[victim].path = "up"
  /\ Held => Current.left + Retry <= timer
  /\ Vacant => WaitBefore(timer)

\* The victim keeps its term, or loses it and knows, and its successor leads,
\* before the harness counts the leaders.
SettleOnTime ==
  /\ arm.fault \in Survived
  /\ ~proc[victim].stopped /\ proc[victim].path = "up"
  /\ Held => /\ proc[victim].phase = "granted" => RenewInterval + Retry < timer
             /\ proc[victim].phase = "leading" =>
                  Current.left > proc[victim].timer \/ proc[victim].timer + Retry < timer
  /\ Vacant => WaitBefore(timer) /\ (proc[victim].phase = "leading" => proc[victim].timer < timer)
  /\ Taken => /\ \A q \in Others(victim) : proc[q].phase = "granted" => timer > 0
              /\ proc[victim].phase = "leading" => proc[victim].timer < timer
              /\ proc[victim].phase = "granted" => RenewInterval < timer

\* A cut of two leases costs the leader its term.
LongOnTime ==
  /\ step = "cut" => proc[victim].path = "cut" /\ (Held => Current.left < timer)
  /\ step # "cut" => ~Held

\* One of half a lease does not: the renewals it misses are m - 1 intervals
\* apart, and the next one comes in time.
BriefOnTime ==
  /\ Held /\ ~proc[victim].stopped
  /\ step # "cut" => proc[victim].path = "up"
  /\ proc[victim].phase = "leading" => Current.left > proc[victim].timer
  /\ proc[victim].phase = "leading" /\ step = "cut" =>
       \E m \in 1 .. TTL : (TTL - Current.left) + proc[victim].timer = m * RenewInterval
  /\ step = "cut" => (TTL - Current.left) + timer <= arm.cut + RenewInterval

OnTime ==
  /\ step = "paused" => PausedOnTime
  /\ step = "settle" => SettleOnTime
  /\ step \in {"cut", "healed"} => arm.fault \in {"cut", "flap"} /\ ~proc[victim].stopped
  /\ step = "healed" => arm.fault = "flap" /\ proc[victim].path = "up"
  /\ LongArm => LongOnTime
  /\ BriefArm => BriefOnTime

TimesInv == LeaderTrial /\ Running /\ victim \in Schedulers => OnTime

\* The setting of the lemmas below: a fault has happened.
Faulted == Trial /\ Timely /\ Situation /\ victim \in Schedulers

LEMMA TimelyFields ==
  ASSUME Timely
  PROVE  /\ MaxEpoch >= 2 /\ RenewInterval >= 1 /\ PauseFor >= TTL + Retry /\ Settle > RenewInterval + Retry
         /\ Settle \in Nat /\ PauseFor \in Nat
BY DurationsNat DEF Timely

\* Which situation a state is in shows in the lease.
LEMMA SituationShows ==
  ASSUME victim \in Schedulers
  PROVE  /\ Held => Current.counter = 1 /\ Current.holder # NoGrant
         /\ Vacant => Current.counter = 1 /\ Current.holder = NoGrant
         /\ Taken => Current.counter = 2
         /\ \A o \in Others(victim) : TakenBy(o) => Taken
BY GrantsDiffer DEF Held, Vacant, Taken, TakenBy, Steady

LEMMA SituationShowsNext ==
  ASSUME victim' \in Schedulers
  PROVE  /\ Held' => Current'.counter = 1 /\ Current'.holder # NoGrant
         /\ Vacant' => Current'.counter = 1 /\ Current'.holder = NoGrant
         /\ Taken' => Current'.counter = 2
         /\ \A o \in Others(victim)' : TakenBy(o)' => Taken'
BY GrantsDiffer DEF Held, Vacant, Taken, TakenBy, Steady

\* The steps of a process by situation.
StepHeld(p) ==
  /\ Held /\ Held' /\ ~Vacant' /\ ~Taken'
  /\ p # victim => Retries(p)
  /\ p = victim => Begins(p) \/ Extends(p) \/ Misses(p) \/ Passes(p) \/ Fails(p)

StepVacant(p) ==
  /\ Vacant /\ Vacant' /\ ~Held' /\ ~Taken' /\ p = victim
  /\ Misses(p) \/ Loses(p) \/ Passes(p) \/ Fails(p)

StepTakes(p) ==
  /\ Vacant /\ TakenBy(p)' /\ Taken' /\ ~Held' /\ ~Vacant' /\ p # victim /\ Wins(p)

StepTaken(p) ==
  /\ Taken /\ Taken' /\ ~Held' /\ ~Vacant'
  /\ \E o \in Others(victim) :
       /\ TakenBy(o) /\ TakenBy(o)'
       /\ p = o => Begins(p) \/ Extends(p) \/ Passes(p)
       /\ p = victim => Retries(p) \/ Begins(p) \/ Misses(p) \/ Loses(p) \/ Passes(p) \/ Fails(p) \/ Rejected(p)
       /\ p \notin {o, victim} => Retries(p)

LEMMA StepCases ==
  ASSUME Faulted, NEW p \in Schedulers, ProcessStep(p), UNCHANGED <<arm, master, alive, step, victim>>
  PROVE  /\ Moves(p) /\ Runs(p)
         /\ StepHeld(p) \/ StepVacant(p) \/ StepTakes(p) \/ StepTaken(p)
<1>1. Common' /\ Acts(p) /\ Moves(p) /\ Runs(p) /\ Trial /\ victim \in Schedulers /\ MaxEpoch >= 2
  BY CommonStep, TimelyFields DEF Faulted
<1>2. /\ Held' => ~Vacant' /\ ~Taken'
      /\ Vacant' => ~Held' /\ ~Taken'
      /\ Taken' => ~Held' /\ ~Vacant'
      /\ \A o \in Others(victim) : TakenBy(o)' => Taken'
  BY <1>1, SituationShowsNext DEF Others
<1>3. CASE Held
  BY <1>1, <1>2, <1>3, HeldStep DEF StepHeld
<1>4. CASE Vacant
  <2>1. arm.fault \in Survived => \E o \in Others(victim) : Asleep(o)
    BY <1>1, <1>4, SomebodyWaits, CutArms DEF Faulted
  <2>2. proc[victim].phase = "dead" \/ arm.fault \in Survived
    BY DEF Faulted, Situation
  <2>3. /\ p # victim => Wins(p) /\ TakenBy(p)'
        /\ p = victim => Vacant' /\ (Misses(p) \/ Loses(p) \/ Passes(p) \/ Fails(p))
    BY <1>1, <1>4, <2>1, <2>2, VacantStep
  <2> QED
    BY <1>1, <1>2, <1>4, <2>3 DEF StepVacant, StepTakes, Others
<1>5. CASE Taken
  <2>1. PICK o \in Others(victim) : TakenBy(o)
    BY <1>5 DEF Taken
  <2>2. /\ TakenBy(o)'
        /\ p = o => Begins(p) \/ Extends(p) \/ Passes(p)
        /\ p = victim => Retries(p) \/ Begins(p) \/ Misses(p) \/ Loses(p) \/ Passes(p) \/ Fails(p) \/ Rejected(p)
        /\ p \notin {o, victim} => Retries(p)
    BY <1>1, <2>1, TakenStep
  <2> QED
    BY <1>1, <1>2, <1>5, <2>1, <2>2 DEF StepTaken
<1> QED
  BY <1>1, <1>3, <1>4, <1>5 DEF Faulted, Situation

\* A unit of time by situation.
TickHeld == Held /\ Held' /\ ~Vacant' /\ ~Taken' /\ Current.left > 1 /\ Current'.left = Current.left - 1

TickExpires ==
  /\ Held /\ Vacant' /\ ~Held' /\ ~Taken' /\ Current.left = 1
  /\ \A q \in Others(victim) : Asleep(q)' => proc'[q].timer < Retry

TickVacant == Vacant /\ Vacant' /\ ~Held' /\ ~Taken'

TickTaken ==
  /\ Taken /\ Taken' /\ ~Held' /\ ~Vacant'
  /\ \E o \in Others(victim) : TakenBy(o) /\ TakenBy(o)' /\ proc[o].phase = "leading" /\ ~proc[o].due

LEMMA TickCases ==
  ASSUME Faulted, AllWait, AllAge, LeaseAges, UNCHANGED victim
  PROVE  TickHeld \/ TickExpires \/ TickVacant \/ TickTaken
<1>1. Trial /\ victim \in Schedulers
  BY DEF Faulted
<1>2. /\ Held' => ~Vacant' /\ ~Taken'
      /\ Vacant' => ~Held' /\ ~Taken'
      /\ Taken' => ~Held' /\ ~Vacant'
      /\ \A o \in Others(victim) : TakenBy(o)' => Taken'
  BY <1>1, SituationShowsNext DEF Others
<1>3. CASE Held
  <2>1. Current.left > 1 \/ Current.left = 1
    BY <1>3 DEF Held
  <2> QED
    BY <1>1, <1>2, <1>3, <2>1, HeldTick DEF TickHeld, TickExpires
<1>4. CASE Vacant
  BY <1>1, <1>2, <1>4, VacantTick DEF TickVacant
<1>5. CASE Taken
  <2>1. PICK o \in Others(victim) : TakenBy(o)
    BY <1>5 DEF Taken
  <2> QED
    BY <1>1, <1>2, <1>5, <2>1, TakenTick DEF TickTaken
<1> QED
  BY <1>1, <1>3, <1>4, <1>5 DEF Faulted, Situation

-----------------------------------------------------------------------------
(***************************************************************************)
(* Steps of the processes keep the times.                                   *)
(***************************************************************************)
\* A process acts; time stands still.
Instant(p) ==
  /\ Faulted /\ p \in Schedulers /\ ProcessStep(p)
  /\ UNCHANGED <<arm, master, alive, step, timer, victim>>

LEMMA InstantFields ==
  ASSUME NEW p, Instant(p)
  PROVE  /\ Faulted /\ Trial /\ victim \in Schedulers /\ p \in Schedulers /\ Moves(p) /\ Runs(p)
         /\ step' = step /\ timer' = timer /\ victim' = victim /\ arm' = arm
         /\ StepHeld(p) \/ StepVacant(p) \/ StepTakes(p) \/ StepTaken(p)
         /\ p # victim => proc'[victim] = proc[victim]
         /\ \A q \in Others(victim) : q \in Schedulers /\ (q # p => proc'[q] = proc[q])
         /\ proc'[victim].stopped = proc[victim].stopped /\ proc'[victim].path = proc[victim].path
<1>1. /\ Faulted /\ Trial /\ victim \in Schedulers /\ p \in Schedulers
      /\ step' = step /\ timer' = timer /\ victim' = victim /\ arm' = arm
      /\ Moves(p) /\ Runs(p)
      /\ StepHeld(p) \/ StepVacant(p) \/ StepTakes(p) \/ StepTaken(p)
  BY StepCases DEF Instant, Faulted
<1> QED
  BY <1>1 DEF Moves, Others

LEMMA PausedStep ==
  ASSUME NEW p, Instant(p), PausedOnTime
  PROVE  PausedOnTime'
<1> USE InstantFields
<1>1. p # victim
  BY DEF PausedOnTime, Runs
<1>2. CASE StepHeld(p)
  <2>1. LeaseKept
    BY <1>1, <1>2 DEF StepHeld, Retries, StandsDown
  <2> QED
    BY <1>1, <1>2, <2>1 DEF StepHeld, PausedOnTime, LeaseKept
<1>3. CASE StepTakes(p) \/ StepTaken(p)
  BY <1>1, <1>3 DEF StepTakes, StepTaken, PausedOnTime
<1> QED
  BY <1>1, <1>2, <1>3 DEF StepVacant

LEMMA SettleStep ==
  ASSUME NEW p, Instant(p), SettleOnTime
  PROVE  SettleOnTime'
<1> USE InstantFields, TrialFields
<1>1. /\ arm'.fault \in Survived /\ ~proc'[victim].stopped /\ proc'[victim].path = "up"
      /\ ~proc[victim].stopped /\ proc[victim].path = "up"
  BY DEF SettleOnTime
<1>2. CASE StepHeld(p)
  <2>1. CASE p # victim
    <3>1. LeaseKept /\ proc'[victim] = proc[victim]
      BY <1>2, <2>1 DEF StepHeld, Retries, StandsDown
    <3> QED
      BY <1>1, <1>2, <3>1 DEF StepHeld, SettleOnTime, LeaseKept
  <2>2. CASE p = victim
    <3>1. Begins(p) \/ Extends(p) \/ Passes(p)
      BY <1>1, <1>2, <2>2 DEF StepHeld, Misses, Fails
    <3>2. proc[p].phase = "granted" => Current.left = TTL
      BY <1>1, <1>2, <2>2 DEF StepHeld, Held
    <3>3. /\ proc'[p].phase = "leading"
          /\ Current'.left > proc'[p].timer \/ (proc[p].timer + Retry < timer /\ proc'[p].timer = proc[p].timer)
      <4>1. CASE Begins(p)
        BY <3>2, <4>1 DEF Begins, LeaseKept
      <4>2. CASE Extends(p)
        BY <4>2 DEF Extends, Goes
      <4>3. CASE Passes(p)
        BY <1>2, <2>2, <4>3 DEF Passes, Goes, LeaseKept, SettleOnTime, StepHeld
      <4> QED
        BY <3>1, <4>1, <4>2, <4>3
    <3> QED
      BY <1>1, <1>2, <2>2, <3>3 DEF StepHeld, SettleOnTime
  <2> QED
    BY <2>1, <2>2
<1>3. CASE StepVacant(p)
  <2>1. p = victim /\ Vacant /\ (Loses(p) \/ Passes(p))
    BY <1>1, <1>3 DEF StepVacant, Misses, Fails
  <2>2. proc'[p].phase = "leading" => proc'[p].timer = proc[p].timer /\ proc[p].phase = "leading"
    BY <2>1 DEF Loses, StandsDown, Passes, Goes
  <2>3. \A q \in Others(victim) : Asleep(q)' => proc'[q].timer < timer
    BY <2>1 DEF SettleOnTime, WaitBefore, Asleep, Others
  <2> QED
    BY <1>1, <1>3, <2>1, <2>2, <2>3 DEF StepVacant, SettleOnTime, WaitBefore, Others
<1>4. CASE StepTakes(p)
  <2>1. Vacant /\ p # victim /\ Wins(p) /\ p \in Others(victim)
    BY <1>4 DEF StepTakes, Others
  <2>2. timer > 0
    BY <2>1 DEF SettleOnTime, WaitBefore, Wins, Asleep
  <2>3. proc'[victim] = proc[victim] /\ proc[victim].phase # "granted"
    BY <1>1, <2>1 DEF Vacant
  <2> QED
    BY <1>1, <1>4, <2>1, <2>2, <2>3 DEF StepTakes, SettleOnTime, Others
<1>5. CASE StepTaken(p)
  <2>1. Taken /\ Taken' /\ ~Held' /\ ~Vacant'
    BY <1>5 DEF StepTaken
  <2>2. PICK o \in Others(victim) :
          /\ TakenBy(o) /\ TakenBy(o)'
          /\ p = o => Begins(p) \/ Extends(p) \/ Passes(p)
          /\ p = victim => Retries(p) \/ Begins(p) \/ Misses(p) \/ Loses(p) \/ Passes(p) \/ Fails(p) \/ Rejected(p)
          /\ p \notin {o, victim} => Retries(p)
    BY <1>5 DEF StepTaken
  <2>3. proc'[p].phase \in {"standby", "leading"}
    BY <2>2 DEF Begins, Extends, Passes, Retries, Misses, Loses, Fails, Rejected, StandsDown, Goes
  <2>4. \A q \in Others(victim) : proc'[q].phase = "granted" => timer > 0
    BY <2>1, <2>3 DEF SettleOnTime
  <2>5. proc'[victim].phase = "leading" => proc'[victim].timer < timer
    <3>1. CASE p # victim
      BY <2>1, <3>1 DEF SettleOnTime
    <3>2. CASE p = victim
      <4>1. Begins(p) => proc[p].phase = "granted" /\ proc'[p].timer = RenewInterval
        BY DEF Begins
      <4>2. Passes(p) => proc[p].phase = "leading" /\ proc'[p].timer = proc[p].timer
        BY DEF Passes, Goes
      <4>3. Retries(p) \/ Loses(p) \/ Rejected(p) => proc'[p].phase = "standby"
        BY DEF Retries, Loses, Rejected, StandsDown
      <4>4. ~Misses(p) /\ ~Fails(p)
        BY <1>1, <3>2 DEF Misses, Fails
      <4> QED
        BY <2>1, <2>2, <3>2, <4>1, <4>2, <4>3, <4>4 DEF SettleOnTime
    <3> QED
      BY <3>1, <3>2
  <2>6. proc'[victim].phase = "granted" => RenewInterval < timer
    BY <2>1, <2>3 DEF SettleOnTime
  <2> QED
    BY <1>1, <2>1, <2>4, <2>5, <2>6 DEF SettleOnTime, Others
<1> QED
  BY <1>2, <1>3, <1>4, <1>5

LEMMA LongStep ==
  ASSUME NEW p, Instant(p), LongOnTime
  PROVE  LongOnTime'
<1> USE InstantFields, TrialFields
<1>1. CASE StepHeld(p)
  <2>1. step = "cut" /\ proc[victim].path = "cut" /\ Current.left < timer
    BY <1>1 DEF StepHeld, LongOnTime
  <2>2. LeaseKept
    <3>1. CASE p = victim
      BY <1>1, <2>1, <3>1 DEF StepHeld, Begins, Extends, Misses, Passes, Fails
    <3>2. CASE p # victim
      BY <1>1, <3>2 DEF StepHeld, Retries, StandsDown
    <3> QED
      BY <3>1, <3>2
  <2> QED
    BY <1>1, <2>1, <2>2 DEF LongOnTime, LeaseKept
<1>2. CASE StepVacant(p) \/ StepTakes(p) \/ StepTaken(p)
  BY <1>2 DEF StepVacant, StepTakes, StepTaken, LongOnTime
<1> QED
  BY <1>1, <1>2

LEMMA Multiples ==
  ASSUME NEW m \in Nat, NEW r \in Nat, r >= 1
  PROVE  /\ (m + 1) * r = m * r + r /\ m * r \in Nat /\ m * r >= m
         /\ 1 * r = r
OBVIOUS

\* The renewal that a brief cut refuses is not the last one before the lease
\* runs out.
LEMMA BriefMiss ==
  ASSUME Timely, TTL \in Nat, RenewInterval \in Nat, NEW c, c = TTL \div 2, NEW m \in 1 .. TTL,
         m * RenewInterval <= c + RenewInterval
  PROVE  m * RenewInterval + RenewInterval < TTL /\ m + 1 \in 1 .. TTL
<1> DEFINE j == m - 1
<1>1. j \in Nat /\ j \in 0 .. TTL /\ m = j + 1 /\ m \in Nat /\ RenewInterval >= 1
  BY TimelyFields
<1>2. m * RenewInterval = j * RenewInterval + RenewInterval
  BY <1>1, Multiples
<1>3. (m + 1) * RenewInterval = m * RenewInterval + RenewInterval /\ m + 1 = j + 2
  BY <1>1, Multiples
<1>4. j * RenewInterval \in Nat /\ m * RenewInterval \in Nat
  BY <1>1, Multiples
<1>5. c \in Nat
  OBVIOUS
<1>6. j * RenewInterval <= TTL \div 2
  <2> HIDE DEF j
  <2> QED
    BY <1>2, <1>4, <1>5
<1> HIDE DEF j
<1>7. (j + 2) * RenewInterval < TTL
  BY <1>1, <1>6 DEF Timely
<1>8. m * RenewInterval + RenewInterval < TTL
  BY <1>3, <1>7
<1>9. (m + 1) * RenewInterval >= m + 1
  BY <1>1, Multiples
<1> QED
  BY <1>1, <1>3, <1>4, <1>8, <1>9

LEMMA BriefStep ==
  ASSUME NEW p, Instant(p), BriefArm, BriefOnTime
  PROVE  BriefOnTime'
<1> USE InstantFields, TrialFields
<1>1. StepHeld(p)
  <2>1. Held /\ ~Vacant /\ ~Taken
    BY SituationShows DEF BriefOnTime
  <2> QED
    BY <2>1 DEF StepVacant, StepTakes, StepTaken
<1>2. Held' /\ ~proc'[victim].stopped /\ (step' # "cut" => proc'[victim].path = "up")
  BY <1>1 DEF StepHeld, BriefOnTime
<1>3. Current.left \in 1 .. TTL
  BY DEF BriefOnTime, Held
<1>4. arm.cut = TTL \div 2 /\ arm.cut \in Nat /\ Timely /\ RenewInterval >= 1 /\ TTL >= 1
  BY CutArms, TimelyFields DEF Faulted
<1>5. CASE p # victim \/ Passes(p) \/ Fails(p)
  <2>1. /\ LeaseKept /\ proc'[victim].timer = proc[victim].timer /\ proc'[victim].phase = proc[victim].phase
    <3>1. CASE p # victim
      BY <1>1, <3>1 DEF StepHeld, Retries, StandsDown
    <3>2. CASE p = victim
      BY <1>5, <3>2 DEF Passes, Fails, Goes
    <3> QED
      BY <3>1, <3>2
  <2> QED
    BY <1>2, <2>1 DEF BriefOnTime, LeaseKept
<1>6. CASE p = victim /\ (Begins(p) \/ Extends(p))
  <2>1. proc'[victim].timer = RenewInterval /\ Current'.left = TTL
    BY <1>1, <1>2, <1>6 DEF StepHeld, Begins, Extends, BriefOnTime, Held, LeaseKept
  <2>2. (TTL - Current'.left) + proc'[victim].timer = 1 * RenewInterval /\ 1 \in 1 .. TTL
    BY <1>4, <2>1
  <2>3. Current'.left > proc'[victim].timer
    BY <2>1
  <2>4. step = "cut" => (TTL - Current'.left) + timer <= arm.cut + RenewInterval
    BY <1>3, <1>4, <2>1 DEF BriefOnTime
  <2> QED
    BY <1>2, <2>2, <2>3, <2>4 DEF BriefOnTime
<1>7. CASE p = victim /\ Misses(p)
  <2>1. /\ LeaseKept /\ proc[victim].timer = 0 /\ proc'[victim].timer = RenewInterval
        /\ proc[victim].phase = "leading" /\ step = "cut"
    BY <1>7 DEF Misses, Goes, BriefOnTime
  <2>2. PICK m \in 1 .. TTL : (TTL - Current.left) + proc[victim].timer = m * RenewInterval
    BY <2>1 DEF BriefOnTime
  <2>3. m * RenewInterval = TTL - Current.left /\ m * RenewInterval <= arm.cut + RenewInterval
    <3>1. (TTL - Current.left) + timer <= arm.cut + RenewInterval
      BY <2>1 DEF BriefOnTime
    <3> QED
      BY <1>3, <1>4, <2>1, <2>2, <3>1
  <2>4. m * RenewInterval + RenewInterval < TTL /\ m + 1 \in 1 .. TTL
    BY <1>4, <2>3, BriefMiss
  <2>5. (m + 1) * RenewInterval = m * RenewInterval + RenewInterval
    BY <1>4, Multiples
  <2>6. Current'.left > proc'[victim].timer
    BY <1>3, <2>1, <2>3, <2>4 DEF LeaseKept
  <2>7. (TTL - Current'.left) + proc'[victim].timer = (m + 1) * RenewInterval
    BY <1>3, <2>1, <2>3, <2>5 DEF LeaseKept
  <2>8. \E k \in 1 .. TTL : (TTL - Current'.left) + proc'[victim].timer = k * RenewInterval
    BY <2>4, <2>7
  <2>9. (TTL - Current'.left) + timer <= arm.cut + RenewInterval
    BY <2>1 DEF BriefOnTime, LeaseKept
  <2> QED
    BY <1>2, <2>6, <2>8, <2>9 DEF BriefOnTime
<1> QED
  BY <1>1, <1>5, <1>6, <1>7 DEF StepHeld

-----------------------------------------------------------------------------
(***************************************************************************)
(* Time keeps the times.                                                    *)
(***************************************************************************)
Elapses ==
  /\ Faulted /\ AllWait /\ AllAge /\ LeaseAges /\ ~FaultDue
  /\ timer' = Down(timer) /\ UNCHANGED <<arm, master, alive, step, victim>>

LEMMA ElapsesFields ==
  ASSUME Elapses
  PROVE  /\ Faulted /\ Trial /\ victim \in Schedulers
         /\ step' = step /\ victim' = victim /\ arm' = arm
         /\ step \in {"paused", "cut", "healed", "settle"} => timer > 0
         /\ timer > 0 => timer' = timer - 1
         /\ TickHeld \/ TickExpires \/ TickVacant \/ TickTaken
         /\ proc'[victim].stopped = proc[victim].stopped /\ proc'[victim].path = proc[victim].path
         /\ proc'[victim].phase = proc[victim].phase
         /\ proc[victim].timer > 0 => proc'[victim].timer = proc[victim].timer - 1
         /\ ~proc[victim].stopped =>
              /\ proc[victim].phase = "leading" => proc[victim].timer > 0 /\ ~proc[victim].due
              /\ proc[victim].phase # "granted"
         /\ \A q \in Others(victim) :
              /\ q \in Schedulers /\ (Asleep(q)' <=> Asleep(q)) /\ proc'[q].phase = proc[q].phase
              /\ proc[q].phase # "granted"
              /\ Asleep(q) => proc[q].timer > 0 /\ proc'[q].timer = proc[q].timer - 1
<1>1. /\ Faulted /\ Trial /\ victim \in Schedulers
      /\ step' = step /\ victim' = victim /\ arm' = arm /\ timer' = Down(timer)
      /\ AllWait /\ AllAge /\ LeaseAges /\ timer \in Nat /\ proc[victim].timer \in Nat
  BY TrialFields DEF Elapses, Faulted
<1>2. step \in {"paused", "cut", "healed", "settle"} => timer > 0
  BY <1>1 DEF Elapses, FaultDue
<1>3. TickHeld \/ TickExpires \/ TickVacant \/ TickTaken
  BY <1>1, TickCases
<1>4. \A q \in Others(victim) :
        /\ q \in Schedulers /\ (Asleep(q)' <=> Asleep(q)) /\ proc'[q].phase = proc[q].phase
        /\ proc[q].phase # "granted"
        /\ Asleep(q) => proc[q].timer > 0 /\ proc'[q].timer = proc[q].timer - 1
  <2>1. \A q \in Others(victim) : q \in Schedulers /\ ~proc[q].stopped
    BY <1>1 DEF Others, Trial, Common, Calm
  <2> QED
    BY <1>1, <2>1, SleepersTick DEF AllAge, AllWait
<1> QED
  BY <1>1, <1>2, <1>3, <1>4 DEF AllWait, AllAge, Down

LEMMA PausedTick ==
  ASSUME Elapses, step = "paused", PausedOnTime
  PROVE  PausedOnTime'
<1> USE ElapsesFields, TrialFields
<1>1. arm'.fault = "stop" /\ proc'[victim].stopped /\ proc'[victim].path = "up" /\ timer' = timer - 1
  BY DEF PausedOnTime
<1>2. CASE TickHeld
  BY <1>1, <1>2 DEF TickHeld, PausedOnTime
<1>3. CASE TickExpires
  <2>1. \A q \in Others(victim) : Asleep(q)' => proc'[q].timer < timer'
    <3>1. Retry <= timer'
      BY <1>1, <1>3 DEF TickExpires, PausedOnTime
    <3>2. ASSUME NEW q \in Others(victim), Asleep(q)' PROVE proc'[q].timer < timer'
      <4>1. proc'[q].timer < Retry /\ proc'[q].timer \in Int
        BY <1>3, <3>2 DEF TickExpires
      <4> QED
        BY <1>1, <3>1, <4>1
    <3> QED
      BY <3>2
  <2> QED
    BY <1>1, <1>3, <2>1 DEF TickExpires, PausedOnTime, WaitBefore, Others
<1>4. CASE TickVacant
  <2>1. \A q \in Others(victim) : Asleep(q)' => proc'[q].timer < timer'
    BY <1>1, <1>4 DEF TickVacant, PausedOnTime, WaitBefore
  <2> QED
    BY <1>1, <1>4, <2>1 DEF TickVacant, PausedOnTime, WaitBefore, Others
<1>5. CASE TickTaken
  BY <1>1, <1>5 DEF TickTaken, PausedOnTime
<1> QED
  BY <1>2, <1>3, <1>4, <1>5

LEMMA SettleTick ==
  ASSUME Elapses, step = "settle", SettleOnTime
  PROVE  SettleOnTime'
<1> USE ElapsesFields, TrialFields
<1>1. /\ arm'.fault \in Survived /\ ~proc'[victim].stopped /\ proc'[victim].path = "up" /\ timer' = timer - 1
      /\ ~proc[victim].stopped /\ proc[victim].phase # "granted" /\ proc'[victim].phase # "granted"
      /\ proc[victim].phase = "leading" => proc[victim].timer > 0 /\ proc'[victim].timer = proc[victim].timer - 1
  BY DEF SettleOnTime
<1>2. CASE TickHeld
  BY <1>1, <1>2 DEF TickHeld, SettleOnTime
<1>3. CASE TickExpires
  <2>1. proc[victim].phase = "leading"
    BY <1>1, <1>3 DEF TickExpires, Held, Faulted, Situation, SettleOnTime
  <2>2. proc[victim].timer + Retry < timer
    BY <1>1, <1>3, <2>1 DEF TickExpires, SettleOnTime
  <2>3. ASSUME NEW q \in Others(victim), Asleep(q)' PROVE proc'[q].timer < timer'
    <3>1. proc'[q].timer < Retry /\ proc'[q].timer \in Int
      BY <1>3, <2>3 DEF TickExpires
    <3> QED
      BY <1>1, <2>1, <2>2, <3>1
  <2>4. proc'[victim].timer < timer'
    BY <1>1, <2>1, <2>2
  <2> QED
    BY <1>1, <1>3, <2>3, <2>4 DEF TickExpires, SettleOnTime, WaitBefore, Others
<1>4. CASE TickVacant
  <2>1. \A q \in Others(victim) : Asleep(q)' => proc'[q].timer < timer'
    BY <1>1, <1>4 DEF TickVacant, SettleOnTime, WaitBefore
  <2>2. proc'[victim].phase = "leading" => proc'[victim].timer < timer'
    BY <1>1, <1>4 DEF TickVacant, SettleOnTime
  <2> QED
    BY <1>1, <1>4, <2>1, <2>2 DEF TickVacant, SettleOnTime, WaitBefore, Others
<1>5. CASE TickTaken
  <2>1. \A q \in Others(victim) : proc'[q].phase # "granted"
    OBVIOUS
  <2>2. proc'[victim].phase = "leading" => proc'[victim].timer < timer'
    BY <1>1, <1>5 DEF TickTaken, SettleOnTime
  <2> QED
    BY <1>1, <1>5, <2>1, <2>2 DEF TickTaken, SettleOnTime, Others
<1> QED
  BY <1>2, <1>3, <1>4, <1>5

LEMMA LongTick ==
  ASSUME Elapses, LongOnTime
  PROVE  LongOnTime'
<1> USE ElapsesFields, TrialFields
<1>1. CASE TickHeld
  BY <1>1 DEF TickHeld, LongOnTime
<1>2. CASE TickExpires \/ TickVacant \/ TickTaken
  BY <1>2 DEF TickExpires, TickVacant, TickTaken, LongOnTime
<1> QED
  BY <1>1, <1>2

LEMMA BriefTick ==
  ASSUME Elapses, BriefArm, BriefOnTime
  PROVE  BriefOnTime'
<1> USE ElapsesFields, TrialFields
<1>1. Held /\ ~Vacant /\ ~Taken /\ Current.left \in 1 .. TTL
  BY SituationShows DEF BriefOnTime, Held
<1>2. /\ proc[victim].phase = "leading" /\ proc[victim].timer > 0 /\ Current.left > proc[victim].timer
      /\ proc'[victim].timer = proc[victim].timer - 1 /\ proc'[victim].phase = "leading"
  <2>1. arm.fault \in Survived
    BY CutArms DEF Survived
  <2>2. proc[victim].phase # "dead" /\ proc[victim].phase # "granted"
    BY <2>1 DEF Faulted, Situation, BriefOnTime
  <2> QED
    BY <1>1, <2>2 DEF Held, BriefOnTime
<1>3. TickHeld
  BY <1>1, <1>2 DEF TickExpires, TickVacant, TickTaken
<1>4. Held' /\ Current'.left = Current.left - 1
  BY <1>3 DEF TickHeld
<1>5. ASSUME step = "cut"
      PROVE  /\ \E m \in 1 .. TTL : (TTL - Current'.left) + proc'[victim].timer = m * RenewInterval
             /\ (TTL - Current'.left) + timer' <= arm.cut + RenewInterval
  <2>1. PICK m \in 1 .. TTL : (TTL - Current.left) + proc[victim].timer = m * RenewInterval
    BY <1>2, <1>5 DEF BriefOnTime
  <2>2. (TTL - Current'.left) + proc'[victim].timer = (TTL - Current.left) + proc[victim].timer
    BY <1>1, <1>2, <1>4
  <2>3. timer' = timer - 1 /\ (TTL - Current.left) + timer <= arm.cut + RenewInterval /\ arm.cut \in Nat
    BY <1>5, CutArms DEF BriefOnTime
  <2>4. (TTL - Current'.left) + timer' = (TTL - Current.left) + timer
    BY <1>1, <1>4, <2>3
  <2> QED
    BY <2>1, <2>2, <2>3, <2>4
<1>6. Current'.left > proc'[victim].timer
  BY <1>1, <1>2, <1>4
<1> QED
  BY <1>4, <1>5, <1>6 DEF BriefOnTime

-----------------------------------------------------------------------------
(***************************************************************************)
(* The harness keeps them, and sees what it expects.                        *)
(***************************************************************************)
LEMMA OnTimeStep ==
  ASSUME NEW p, Instant(p), OnTime
  PROVE  OnTime'
<1> USE InstantFields
<1>1. (LongArm' <=> LongArm) /\ (BriefArm' <=> BriefArm)
  BY DEF LongArm, BriefArm
<1> QED
  BY <1>1, PausedStep, SettleStep, LongStep, BriefStep DEF OnTime

LEMMA OnTimeTick ==
  ASSUME Elapses, OnTime
  PROVE  OnTime'
<1> USE ElapsesFields
<1>1. (LongArm' <=> LongArm) /\ (BriefArm' <=> BriefArm)
  BY DEF LongArm, BriefArm
<1> QED
  BY <1>1, PausedTick, SettleTick, LongTick, BriefTick DEF OnTime

LEMMA OnTimeWatched ==
  ASSUME Faulted, OnTime, Watches, Running'
  PROVE  OnTime'
<1>1. /\ UNCHANGED <<db, master, alive, proc, arm, victim>> /\ Trial
      /\ step \in {"settle", "submit", "drain"} /\ step' \in {"submit", "drain", "verdict"}
  BY WatchesFields DEF Faulted, Trial, Running, Situation, Early
<1>2. (LongArm' <=> LongArm) /\ (BriefArm' <=> BriefArm) /\ (Held' <=> Held) /\ Current' = Current
  BY <1>1, SituationsSame DEF LongArm, BriefArm, Current
<1>3. LongArm => LongOnTime'
  BY <1>1, <1>2 DEF OnTime, LongOnTime
<1>4. BriefArm => BriefOnTime'
  BY <1>1, <1>2 DEF OnTime, BriefOnTime
<1> QED
  BY <1>1, <1>2, <1>3, <1>4 DEF OnTime

LEMMA OnTimeFault ==
  ASSUME Trial, Timely, Situation, SignalLeader \/ CutLeader
  PROVE  OnTime'
<1> DEFINE h == LeaseOwner
<1> USE TrialFields, TimelyFields
<1>1. step = "before" /\ victim \notin Schedulers /\ FirstTerm
  BY DEF SignalLeader, CutLeader, At, Situation, Early
<1>2. /\ h \in Schedulers /\ Steady(h, 1) /\ Current.left \in 1 .. TTL /\ Current.left >= TTL - RenewInterval
      /\ proc[h].path = "up" /\ ~proc[h].stopped
  BY <1>1, OwnerLeads DEF Trial, Common, Calm, Others
<1>3. /\ LeaseKept /\ victim' = h => Held'
      /\ Freed => Vacant'
  BY FaultHits
<1>4. CASE SignalLeader
  <2>1. /\ victim' = h /\ UNCHANGED arm /\ step' \in {"paused", "submit"}
        /\ step' = "paused" => /\ arm.fault = "stop" /\ LeaseKept /\ proc'[h].stopped
                               /\ proc'[h].path = proc[h].path /\ timer' = arm.cut
        /\ arm.fault \in {"stop", "kill", "term"}
    BY <1>1, <1>4, SignalFields
  <2>2. ~LongArm' /\ ~BriefArm'
    BY <2>1 DEF LongArm, BriefArm
  <2>3. ASSUME step' = "paused" PROVE PausedOnTime'
    <3>1. timer' = PauseFor /\ Current'.left = Current.left /\ Held'
      BY <1>3, <2>1, <2>3, CutArms DEF LeaseKept
    <3>2. ~Vacant'
      BY <1>2, <2>1, <3>1, SituationShowsNext
    <3>3. Current'.left + Retry <= timer'
      BY <1>2, <3>1
    <3> QED
      BY <1>2, <2>1, <2>3, <3>2, <3>3 DEF PausedOnTime
  <2> QED
    BY <2>1, <2>2, <2>3 DEF OnTime
<1>5. CASE CutLeader
  <2>1. /\ victim' = h /\ UNCHANGED arm /\ step' = "cut" /\ arm.fault \in {"cut", "flap"}
        /\ LeaseKept /\ Survives(h) /\ proc'[h].path = "cut" /\ ~proc'[h].stopped
        /\ arm.fault = "cut" => timer' = arm.cut
    BY <1>1, <1>2, <1>5, CutFields
  <2>2. Held' /\ Current'.left = Current.left /\ (LongArm' <=> LongArm) /\ (BriefArm' <=> BriefArm)
    BY <1>3, <2>1 DEF LeaseKept, LongArm, BriefArm
  <2>3. ASSUME LongArm PROVE LongOnTime'
    <3>1. timer' = 2 * TTL /\ TTL >= 1
      BY <2>1, <2>3, CutArms
    <3> QED
      BY <1>2, <2>1, <2>2, <3>1 DEF LongOnTime
  <2>4. ASSUME BriefArm PROVE BriefOnTime'
    <3>1. timer' = arm.cut /\ arm.cut = TTL \div 2 /\ arm.cut \in Nat /\ TTL >= 1
      BY <2>1, <2>4, CutArms
    <3>2. proc'[h].timer = proc[h].timer /\ proc'[h].phase = proc[h].phase
      BY <2>1 DEF Survives
    <3>3. proc[h].phase = "leading" => Current.left + RenewInterval = proc[h].timer + TTL
      BY <1>2 DEF Steady
    <3>4. proc'[h].phase = "leading" =>
            /\ Current'.left > proc'[h].timer
            /\ (TTL - Current'.left) + proc'[h].timer = 1 * RenewInterval /\ 1 \in 1 .. TTL
      BY <1>2, <2>2, <3>1, <3>2, <3>3
    <3>5. (TTL - Current'.left) + timer' <= arm'.cut + RenewInterval
      BY <1>2, <2>1, <2>2, <3>1
    <3> QED
      BY <2>1, <2>2, <3>4, <3>5 DEF BriefOnTime
  <2> QED
    BY <2>1, <2>2, <2>3, <2>4 DEF OnTime
<1> QED
  BY <1>4, <1>5

\* When the pause is over, somebody else has the lease.
LEMMA SupersededInTime ==
  ASSUME Faulted, OnTime, step = "paused", timer = 0
  PROVE  Taken /\ LeaseMoved
<1> USE TrialFields
<1>1. Trial /\ PausedOnTime /\ victim \in Schedulers /\ arm.count = 2
  BY CutArms DEF OnTime, Faulted, PausedOnTime, Survived
<1>2. ~Held
  BY <1>1 DEF PausedOnTime, Held
<1>3. ~Vacant
  <2> SUFFICES ASSUME Vacant PROVE FALSE
    OBVIOUS
  <2>1. PICK o \in Others(victim) : Asleep(o)
    BY <1>1, SomebodyWaits DEF Faulted
  <2> QED
    BY <1>1, <2>1 DEF PausedOnTime, WaitBefore, Others
<1> QED
  BY <1>1, <1>2, <1>3, OneSituation DEF Faulted, Situation

\* When the observation is over, exactly one process leads: the victim, if its
\* lease lasted, or its successor.
LEMMA SettledInTime ==
  ASSUME Faulted, OnTime, step = "settle", timer = 0
  PROVE  /\ LeaderGauges = 1 /\ (Held \/ Taken)
<1> DEFINE leaders == {p \in Schedulers : Runs(p) /\ proc[p].phase = "leading"}
<1> USE TrialFields
<1>1. Trial /\ SettleOnTime /\ victim \in Schedulers /\ arm.count = 2
  BY CutArms DEF OnTime, Faulted, SettleOnTime
<1>2. ~Vacant
  <2> SUFFICES ASSUME Vacant PROVE FALSE
    OBVIOUS
  <2>1. PICK o \in Others(victim) : Asleep(o)
    BY <1>1, SomebodyWaits DEF Faulted
  <2> QED
    BY <1>1, <2>1 DEF SettleOnTime, WaitBefore, Others
<1>3. \E h : leaders = {h}
  <2>1. CASE Held
    <3>1. proc[victim].phase = "leading"
      BY <1>1, <2>1 DEF SettleOnTime, Held, Faulted, Situation
    <3>2. \A q \in Others(victim) : proc[q].phase # "leading"
      BY <2>1 DEF Held, Idle
    <3>3. leaders = {victim}
      BY <1>1, <3>1, <3>2 DEF Others, Runs, SettleOnTime
    <3> QED
      BY <3>3
  <2>2. CASE Taken
    <3>1. PICK o \in Others(victim) : TakenBy(o)
      BY <2>2 DEF Taken
    <3>2. o \in Schedulers /\ ~proc[o].stopped /\ proc[o].phase \in {"granted", "leading"}
      BY <1>1, <3>1 DEF Others, Trial, Common, Calm, TakenBy, Steady
    <3>3. proc[o].phase = "leading" /\ proc[victim].phase # "leading"
      BY <1>1, <2>2, <3>1, <3>2 DEF SettleOnTime
    <3>4. \A q \in Schedulers \ {o} : proc[q].phase # "leading"
      BY <3>1, <3>3 DEF TakenBy, Idle
    <3>5. leaders = {o}
      BY <3>2, <3>3, <3>4 DEF Runs
    <3> QED
      BY <3>5
  <2> QED
    BY <1>2, <2>1, <2>2 DEF Faulted, Situation
<1>4. LeaderGauges = 1
  BY <1>3, FS_Singleton DEF LeaderGauges
<1> QED
  BY <1>2, <1>4 DEF Faulted, Situation

\* The end of a pause or of a cut, and the next cut of the flapping.
LEMMA OnTimeTouched ==
  ASSUME Faulted, OnTime, Resume \/ Heal \/ FlapAgain, Running'
  PROVE  OnTime'
<1> USE TrialFields, TimelyFields
<1>1. /\ Trial /\ UNCHANGED <<db, master, alive, arm, victim>>
      /\ victim \in Schedulers /\ Running /\ timer = 0
      /\ \A q \in Others(victim) : proc'[q] = proc[q]
      /\ Survives(victim)
      /\ \/ /\ step = "paused" /\ LeaseMoved
            /\ step' = "settle" /\ timer' = Settle
            /\ ~proc'[victim].stopped /\ proc'[victim].path = proc[victim].path
         \/ /\ step = "cut"
            /\ step' = IF arm.fault = "flap" THEN "healed" ELSE "settle"
            /\ arm.fault # "flap" => timer' = Settle
            /\ proc'[victim].stopped = proc[victim].stopped /\ proc'[victim].path = "up"
         \/ /\ step = "healed"
            /\ \/ step' = "cut" /\ proc'[victim].path = "cut"
               \/ step' = "settle" /\ timer' = Settle /\ UNCHANGED proc
            /\ proc'[victim].stopped = proc[victim].stopped
  BY VictimFields DEF Faulted, Trial, Running
<1>2. /\ step = "paused" => PausedOnTime /\ Taken
      /\ step = "cut" => arm.fault \in {"cut", "flap"} /\ ~proc[victim].stopped
      /\ step = "healed" => arm.fault = "flap" /\ ~proc[victim].stopped /\ proc[victim].path = "up"
  BY <1>1, SupersededInTime DEF OnTime
<1>3. /\ Current' = Current
      /\ \A q \in Schedulers : /\ proc'[q].phase = proc[q].phase /\ proc'[q].epoch = proc[q].epoch
                               /\ proc'[q].timer = proc[q].timer
  BY <1>1 DEF Current, Survives, Others
<1>4. /\ Held' => Held
      /\ Vacant' => Vacant
      /\ Taken' => Taken
  <2>1. (Held => Held') /\ (Vacant => Vacant') /\ (Taken => Taken')
    BY <1>1, <1>2, VictimTouched, OneSituation
  <2>2. Held \/ Vacant \/ Taken
    BY <1>1 DEF Faulted, Situation
  <2> QED
    BY <1>1, <2>1, <2>2, SituationShows, SituationShowsNext
<1>5. ASSUME step' = "settle" PROVE SettleOnTime'
  <2>1. /\ arm'.fault \in Survived /\ ~proc'[victim].stopped /\ proc'[victim].path = "up" /\ timer' = Settle
    BY <1>1, <1>2, <1>5 DEF PausedOnTime, Survived
  <2>0. Settle \in Nat /\ RenewInterval < Settle /\ RenewInterval + Retry < Settle
    BY <1>1 DEF Faulted
  <2>2. Held' => (proc'[victim].phase = "leading" => proc'[victim].timer + Retry < Settle)
    BY <1>3, <1>4, <1>1, <2>0 DEF Held
  <2>3. Vacant' => /\ \A q \in Others(victim) : Asleep(q)' => proc'[q].timer < Settle
                   /\ proc'[victim].phase = "leading" => proc'[victim].timer < Settle
    <3>1. \A q \in Others(victim) : Asleep(q) => proc[q].timer <= Retry
      BY <1>1 DEF Trial, Common, Calm, Asleep
    <3> QED
      BY <1>1, <1>3, <1>4, <2>0, <3>1 DEF Vacant, Asleep, Others
  <2>4. Taken' => (proc'[victim].phase = "leading" => proc'[victim].timer < Settle)
    BY <1>1, <1>3, <1>4, <2>0 DEF Taken, TakenBy
  <2> QED
    BY <1>1, <2>1, <2>2, <2>3, <2>4, <2>0 DEF SettleOnTime, WaitBefore, Others
<1>6. (LongArm' <=> LongArm) /\ (BriefArm' <=> BriefArm)
  BY <1>1 DEF LongArm, BriefArm
<1>7. ASSUME LongArm PROVE LongOnTime'
  <2>1. step = "cut" /\ step' = "settle"
    BY <1>1, <1>2, <1>7, CutArms DEF PausedOnTime
  <2>2. ~Held
    BY <1>1, <1>7, <2>1 DEF OnTime, LongOnTime, Held
  <2> QED
    BY <1>4, <2>1, <2>2 DEF LongOnTime
<1>8. ASSUME BriefArm PROVE BriefOnTime'
  <2>1. step = "cut" /\ step' = "settle" /\ proc'[victim].path = "up"
    BY <1>1, <1>2, <1>8, CutArms DEF PausedOnTime
  <2>2. BriefOnTime
    BY <1>8 DEF OnTime
  <2>3. Held'
    BY <1>1, <1>2, <2>1, <2>2, VictimTouched, OneSituation DEF BriefOnTime
  <2> QED
    BY <1>1, <1>2, <1>3, <2>1, <2>2, <2>3 DEF BriefOnTime
<1>9. step' \notin {"paused"} /\ (step' \in {"cut", "healed"} => arm.fault \in {"cut", "flap"} /\ ~proc'[victim].stopped)
      /\ (step' = "healed" => arm.fault = "flap" /\ proc'[victim].path = "up")
  BY <1>1, <1>2
<1> QED
  BY <1>1, <1>5, <1>6, <1>7, <1>8, <1>9 DEF OnTime

-----------------------------------------------------------------------------
(***************************************************************************)
(* The elections of a trial, and who writes afterwards.                     *)
(***************************************************************************)
LEMMA TimesNext ==
  ASSUME TrialInv, Timely, TermsInv, TimesInv, [Next]_vars
  PROVE  TimesInv'
<1> SUFFICES ASSUME LeaderTrial', Running', victim' \in Schedulers PROVE OnTime'
  BY DEF TimesInv
<1>1. LeaderTrial
  BY ArmKept
<1>2. /\ Running /\ UNCHANGED arm
      /\ \/ Scheduler \/ Tick \/ Watches
         \/ SignalLeader \/ CutLeader \/ Resume \/ Heal \/ FlapAgain
         \/ UNCHANGED vars
  BY <1>1, RunningSteps
<1>3. Trial /\ Situation
  BY <1>1, <1>2 DEF TermsInv, Trial
<1>4. CASE SignalLeader \/ CutLeader
  BY <1>3, <1>4, OnTimeFault
<1>5. ASSUME ~SignalLeader, ~CutLeader PROVE victim' = victim /\ Faulted /\ OnTime
  <2>1. victim' = victim
    <3>1. CASE Scheduler \/ Tick \/ UNCHANGED vars
      BY <3>1 DEF Scheduler, harnessVars, Tick, vars
    <3>2. CASE Watches \/ Resume \/ Heal \/ FlapAgain
      BY <1>1, <3>2, WatchesFields, VictimFields
    <3> QED
      BY <1>2, <1>5, <3>1, <3>2
  <2> QED
    BY <1>1, <1>2, <1>3, <2>1 DEF Faulted, TimesInv
<1>6. CASE Scheduler /\ ~SignalLeader /\ ~CutLeader
  <2>1. PICK p \in Schedulers : ProcessStep(p)
    BY <1>1, <1>3, <1>6, SchedulerFields DEF Trial, Common
  <2>2. UNCHANGED <<arm, master, alive, step, timer, victim>>
    BY <1>1, <1>3, <1>6, SchedulerFields DEF Trial, Common, harnessVars
  <2>3. Instant(p)
    BY <1>5, <1>6, <2>1, <2>2 DEF Instant
  <2> QED
    BY <1>5, <1>6, <2>3, OnTimeStep
<1>7. CASE Tick /\ ~SignalLeader /\ ~CutLeader
  <2>1. ~FaultDue
    BY <1>7 DEF Tick, Quiet
  <2>2. Elapses
    BY <1>1, <1>5, <1>7, <2>1, TickFields DEF Elapses, Faulted, Trial
  <2> QED
    BY <1>5, <1>7, <2>2, OnTimeTick
<1>8. CASE Watches /\ ~SignalLeader /\ ~CutLeader
  BY <1>5, <1>8, OnTimeWatched
<1>9. CASE (Resume \/ Heal \/ FlapAgain) /\ ~SignalLeader /\ ~CutLeader
  BY <1>5, <1>9, OnTimeTouched
<1>10. CASE UNCHANGED vars /\ ~SignalLeader /\ ~CutLeader
  <2>1. UNCHANGED <<db, master, alive, proc, arm, victim, step, timer>>
    BY <1>10 DEF vars, storeVars, procVars, harnessVars
  <2>2. (Held' <=> Held) /\ (Vacant' <=> Vacant) /\ (Taken' <=> Taken) /\ Current' = Current
    BY <1>3, <2>1, SituationsSame DEF Current
  <2>3. (PausedOnTime' <=> PausedOnTime) /\ (SettleOnTime' <=> SettleOnTime)
    BY <2>1, <2>2 DEF PausedOnTime, SettleOnTime, WaitBefore, Asleep, Others
  <2>4. (LongOnTime' <=> LongOnTime) /\ (BriefOnTime' <=> BriefOnTime)
    BY <2>1, <2>2 DEF LongOnTime, BriefOnTime
  <2>5. (LongArm' <=> LongArm) /\ (BriefArm' <=> BriefArm)
    BY <2>1 DEF LongArm, BriefArm
  <2> QED
    BY <1>5, <1>10, <2>1, <2>3, <2>4, <2>5 DEF OnTime
<1> QED
  BY <1>2, <1>4, <1>6, <1>7, <1>8, <1>9, <1>10

\* After the fault, the trial knows its victim.
VictimKnown ==
  LeaderTrial /\ Running /\ step \notin Early =>
    \/ victim \in Schedulers
    \/ arm.fault = "none" /\ step \in {"submit", "drain", "verdict"}

LEMMA VictimKnownNext ==
  ASSUME TrialInv, TermsInv, VictimKnown, [Next]_vars
  PROVE  VictimKnown'
<1> SUFFICES ASSUME LeaderTrial', Running', step' \notin Early
             PROVE  \/ victim' \in Schedulers
                    \/ arm'.fault = "none" /\ step' \in {"submit", "drain", "verdict"}
  BY DEF VictimKnown, Early
<1>1. LeaderTrial
  BY ArmKept
<1>2. /\ Running /\ UNCHANGED arm
      /\ \/ Scheduler \/ Tick \/ Watches
         \/ SignalLeader \/ CutLeader \/ Resume \/ Heal \/ FlapAgain
         \/ UNCHANGED vars
  BY <1>1, RunningSteps
<1>3. CASE Scheduler \/ Tick \/ UNCHANGED vars
  <2>1. step' = step /\ victim' = victim
    BY <1>3 DEF Scheduler, harnessVars, Tick, vars
  <2> QED
    BY <1>1, <1>2, <2>1 DEF VictimKnown
<1>4. CASE Watches
  BY <1>1, <1>2, <1>4, WatchesFields DEF VictimKnown, Early, Running
<1>5. CASE SignalLeader \/ CutLeader
  <2>1. Trial /\ Situation
    BY <1>1, <1>2 DEF TermsInv, Trial
  <2> QED
    BY <1>5, <2>1, FaultHits
<1>6. CASE Resume \/ Heal \/ FlapAgain
  BY <1>1, <1>6, VictimFields
<1> QED
  BY <1>2, <1>3, <1>4, <1>5, <1>6

\* The judgements of a trial.
Judged ==
  /\ "unexpected" \in DOMAIN row /\ row.unexpected = FALSE
  /\ outcome \notin {"split", "unsuperseded"}
  /\ LeaderTrial /\ BriefArm => Current.counter <= 1

\* Only two steps can judge a trial so.
LEMMA OtherSteps ==
  ASSUME TrialInv, [Next]_vars, ~Settled, ~Resume
  PROVE  /\ outcome \notin {"split", "unsuperseded"} => outcome' \notin {"split", "unsuperseded"}
         /\ "unexpected" \in DOMAIN row => "unexpected" \in DOMAIN row' /\ row'.unexpected = row.unexpected
<1> USE DEF Check, Return, Goto
<1>1. CASE WindowEnds \/ ReadPromoted \/ Verdict \/ StoreVerdict
  <2>1. outcome \notin {"split", "unsuperseded"} => outcome' \notin {"split", "unsuperseded"}
    BY <1>1 DEF WindowEnds, ReadPromoted, Verdict, StoreVerdict
  <2>2. \/ \E x : row' = [row EXCEPT !.before = x]
        \/ \E x, y : row' = [row EXCEPT !.regressed = x, !.terms = y]
        \/ \E x : row' = [row EXCEPT !.inversions = x]
    BY <1>1 DEF WindowEnds, ReadPromoted, Verdict, StoreVerdict
  <2> QED
    BY <2>1, <2>2
<1>2. CASE GaugesRead \/ CutConfirmed \/ SubmitReturns \/ CollectResults
  BY <1>2 DEF GaugesRead, CutConfirmed, SubmitReturns, CollectResults
<1>3. CASE SignalLeader \/ CutLeader \/ Heal \/ FlapAgain
  BY <1>3 DEF SignalLeader, CutLeader, Heal, FlapAgain
<1>4. CASE ChurnLeader \/ ChurnAgain
  BY <1>4 DEF ChurnLeader, ChurnAgain, KillHolder
<1>5. CASE CtxExpires
  BY <1>5 DEF CtxExpires
<1>6. CASE LeaderSeen \/ StoreLeaderSeen \/ LoadStarts \/ ReelectionSeen
           \/ WatchPoll \/ StoreSubmitReturns \/ DrainReturns \/ ComponentsReady \/ LoadSubmitted
           \/ CompletionSeen \/ ComponentsStop \/ TasksExecuted \/ StoreFault \/ MasterDies \/ Failover
  BY <1>6 DEF LeaderSeen, StoreLeaderSeen, LoadStarts, ReelectionSeen, WatchPoll,
       StoreSubmitReturns, DrainReturns, ComponentsReady, LoadSubmitted, CompletionSeen,
       ComponentsStop, TasksExecuted, StoreFault, MasterDies, Failover, harnessVars
<1>7. CASE Scheduler \/ Replication \/ Repair \/ Tick \/ RunDeferred \/ Finish \/ UNCHANGED vars
  BY <1>7 DEF Scheduler, Replication, Repair, Tick, RunDeferred, Finish, vars, harnessVars
<1> QED
  BY <1>1, <1>2, <1>3, <1>4, <1>5, <1>6, <1>7 DEF Next, Harness

\* Settled finds one leader, and the failover that the arm expects.
LEMMA SettledAsExpected ==
  ASSUME Faulted, OnTime, Settled, "unexpected" \in DOMAIN row
  PROVE  /\ outcome' = outcome /\ "unexpected" \in DOMAIN row' /\ row'.unexpected = FALSE
<1>1. /\ Trial /\ victim \in Schedulers /\ step = "settle" /\ timer = 0
      /\ row' = [row EXCEPT !.unexpected = arm.fault = "cut" /\ LeaseMoved # arm.failover]
  BY DEF Settled, At, Faulted
<1>2. LeaderGauges = 1 /\ (Held \/ Taken)
  BY <1>1, SettledInTime
<1>3. outcome' = outcome
  BY <1>2 DEF Settled, Check, Goto
<1>4. ~(arm.fault = "cut" /\ LeaseMoved # arm.failover)
  <2> SUFFICES ASSUME arm.fault = "cut", LeaseMoved # arm.failover PROVE FALSE
    OBVIOUS
  <2>1. (LeaseMoved => ~arm.failover) /\ (~LeaseMoved => arm.failover) /\ (LongArm \/ BriefArm)
    BY <1>1, CutArms
  <2>2. LongArm => LeaseMoved
    BY <1>1, <1>2, OneSituation DEF OnTime, LongOnTime
  <2>3. BriefArm => ~LeaseMoved
    BY <1>1, OneSituation DEF OnTime, BriefOnTime
  <2> QED
    BY <2>1, <2>2, <2>3 DEF LongArm, BriefArm
<1>5. row' = [row EXCEPT !.unexpected = FALSE]
  BY <1>1, <1>4
<1> QED
  BY <1>3, <1>5

LEMMA JudgedNext ==
  ASSUME TrialInv, TrialInv', Timely, TermsInv, TermsInv', TimesInv, TimesInv', VictimKnown, Judged, [Next]_vars
  PROVE  Judged'
<1>1. ASSUME (LeaderTrial /\ BriefArm)' PROVE Current'.counter <= 1
  <2>1. LeaderTrial /\ BriefArm
    BY <1>1, ArmKept DEF BriefArm
  <2>2. CASE Running'
    <3>1. (Common /\ Situation)' /\ (victim' \in Schedulers => OnTime')
      BY <1>1, <2>2 DEF TermsInv, TimesInv
    <3>2. CASE victim' \in Schedulers
      BY <1>1, <3>1, <3>2, SituationShowsNext DEF OnTime, BriefOnTime
    <3>3. CASE victim' \notin Schedulers
      BY <3>1, <3>3 DEF Situation, NoTermYet, FirstTerm, Steady
    <3> QED
      BY <3>2, <3>3
  <2>3. CASE ~Running'
    BY <2>1, <2>3, ReturnedSteps DEF Judged, Current
  <2> QED
    BY <2>2, <2>3
<1>2. CASE ~Settled /\ ~Resume
  BY <1>1, <1>2, OtherSteps DEF Judged
<1>3. ASSUME Settled \/ Resume PROVE LeaderTrial /\ Faulted /\ OnTime
  <2>1. step \in {"settle", "paused"} /\ Running
    BY <1>3 DEF Settled, Resume, At, Running
  <2>2. LeaderTrial
    BY <2>1, ArmKinds DEF TrialInv, StepTyped, StoreSteps, BenchSteps
  <2>3. Trial /\ Situation
    BY <2>1, <2>2 DEF TermsInv, Trial
  <2>4. victim \in Schedulers
    BY <2>1, <2>2 DEF VictimKnown, Early
  <2> QED
    BY <2>1, <2>2, <2>3, <2>4 DEF TimesInv, Faulted
<1>4. CASE Settled
  BY <1>1, <1>3, <1>4, SettledAsExpected DEF Judged
<1>5. CASE Resume
  <2>1. step = "paused" /\ timer = 0 /\ UNCHANGED row
    BY <1>5 DEF Resume, At
  <2>2. LeaseMoved
    BY <1>3, <1>5, <2>1, SupersededInTime
  <2>3. outcome' = outcome
    BY <1>5, <2>2 DEF Resume, Check, Goto
  <2> QED
    BY <1>1, <2>1, <2>3 DEF Judged
<1> QED
  BY <1>2, <1>4, <1>5

TimedInv == TrialInv /\ CleanupInv /\ TermsInv /\ TimesInv /\ VictimKnown /\ Judged

LEMMA TimesInvariant == Timely => (Spec => []TimedInv)
<1> SUFFICES ASSUME Timely PROVE Spec => []TimedInv
  OBVIOUS
<1>1. Init => TimesInv /\ VictimKnown /\ Judged
  <2> SUFFICES ASSUME Init PROVE TimesInv /\ VictimKnown /\ Judged
    OBVIOUS
  <2>1. TimesInv
    BY NobodyIsNobody DEF Init, TimesInv
  <2>2. VictimKnown
    BY DEF Init, VictimKnown, Early
  <2>3. "unexpected" \in DOMAIN row /\ row.unexpected = FALSE /\ outcome = "running"
    BY DEF Init, NewRow
  <2>4. LeaderTrial => Current.counter = 0
    BY TermsInit
  <2> QED
    BY <2>1, <2>2, <2>3, <2>4 DEF Judged
<1>2. /\ TrialInv /\ TrialInv' /\ TermsInv /\ TermsInv' /\ TimesInv /\ VictimKnown /\ Judged /\ [Next]_vars
      => TimesInv' /\ VictimKnown' /\ Judged'
  BY TimesNext, VictimKnownNext, JudgedNext
<1>3. MaxEpoch >= 2
  BY TimelyFields
<1> QED
  BY <1>1, <1>2, <1>3, TermsInvariant, PTL DEF Spec, TimedInv

\* expectFailover "is an assertion, not a description", and holds in every
\* trial: with intervals that are Timely, a cut of half a lease never costs the
\* leader its term, one of two leases always does, and no fault of the leader
\* costs more than one.
THEOREM ElectionsHold == Timely => (Spec => []ElectionsAsExpected)
<1> SUFFICES ASSUME Timely PROVE Spec => []ElectionsAsExpected
  OBVIOUS
<1>1. TimedInv /\ (~StoreTrial => Current.counter <= 2) => ElectionsAsExpected
  <2> SUFFICES ASSUME TimedInv, ~StoreTrial => Current.counter <= 2 PROVE ElectionsAsExpected
    OBVIOUS
  <2>1. Judged /\ TrialInv
    BY DEF TimedInv
  <2>2. arm.fault = "cut" => LeaderTrial
    BY <2>1, ArmKinds
  <2> QED
    BY <2>1, <2>2 DEF Judged, ElectionsAsExpected, BriefArm
<1> QED
  BY <1>1, TimesInvariant, OneFaultOneElection, PTL

\* A leader that was stopped or cut off and returns is not counted beside its
\* successor when the observation ends, a pause ends with a successor, and no
\* record shows a dispatch of the old leader after one of the new.
THEOREM ReturnsAreHarmless == Timely => (Spec => []OneWriterAfterReturn)
<1> SUFFICES ASSUME Timely PROVE Spec => []OneWriterAfterReturn
  OBVIOUS
<1>1. TimedInv /\ Inversions = 0 /\ outcome # "inverted" => OneWriterAfterReturn
  BY DEF TimedInv, Judged, OneWriterAfterReturn
<1> QED
  BY <1>1, TimesInvariant, RecordNeverInverted, PTL

-----------------------------------------------------------------------------
(***************************************************************************)
(* The outage.                                                              *)
(***************************************************************************)
MeasuredArm == arm.count = 2 /\ arm.fault \in {"kill", "stop", "cut", "term"}

\* The longest and the shortest outage that an arm can measure.
Longest ==
  IF arm.fault = "term" THEN Retry + 1 ELSE IF BriefArm THEN arm.cut + 2 ELSE TTL + Retry + 1

Shortest == IF arm.fault \in {"kill", "stop"} THEN TTL - RenewInterval ELSE 0

\* The load has not caught up with the last dispatch yet, or tasks wait.
New == gap <= 1 /\ Submitting /\ submit.left >= 1

Waited == New \/ (backlog /\ gap >= 1)

\* The gap and what the lease has left are at most a lease together,
HeldGap ==
  Held => gap + Current.left >= Shortest /\ (~BriefArm => gap + Current.left <= TTL + 1)

LostGap == ~Held => gap >= Shortest

\* the gap and what the next candidate has left of its sleep at most the bound,
VacantGap == Vacant => \A q \in Others(victim) : Asleep(q) => gap + proc[q].timer <= Longest

\* and the successor dispatches at once.
TakenGap ==
  Taken => New \/ (gap <= Longest /\ \A o \in Others(victim) : proc[o].phase = "leading" => proc[o].due)

\* After a brief cut the victim itself does, in the unit that follows.
BriefGap ==
  BriefArm =>
    /\ step = "cut" => gap + timer <= arm.cut + 1
    /\ step # "cut" => \/ gap <= arm.cut + 1
                       \/ gap <= arm.cut + 2 /\ proc[victim].phase = "leading" /\ proc[victim].due

\* waitForDrain does not give up before.
DrainGap == (step = "drain" => gap + timer > IdleLimit) /\ step # "verdict"

OpenMeasure == Waited /\ HeldGap /\ LostGap /\ VacantGap /\ TakenGap /\ BriefGap /\ DrainGap

ClosedMeasure == outage \in Shortest .. Longest

\* A paused leader is continued after it was superseded; one that is told to
\* terminate has released its lease.
FaultKind ==
  /\ arm.fault = "stop" => step = "paused" \/ Taken
  /\ arm.fault = "term" => ~Held

\* The setting of the lemmas below.
Measuring == Faulted /\ OnTime /\ Measured /\ MeasuredArm /\ FaultKind

LEMMA MeasuringFields ==
  ASSUME Trial, Measured, MeasuredArm
  PROVE  /\ gap \in Nat /\ gap <= MaxGap /\ backlog \in BOOLEAN /\ submit.left \in Nat
         /\ Retry >= 1 /\ IdleLimit \in Nat /\ IdleLimit > TTL + Retry /\ MaxGap \in Nat /\ MaxGap > TTL + Retry + 1
         /\ Longest \in Nat /\ 2 <= Longest /\ Longest <= TTL + Retry + 1
         /\ ~BriefArm => Retry + 1 <= Longest
         /\ ~BriefArm /\ arm.fault # "term" => Longest = TTL + Retry + 1
         /\ BriefArm => Longest = arm.cut + 2 /\ arm.fault = "cut" /\ arm.cut \in Nat
         /\ Shortest \in Nat /\ Shortest <= TTL
         /\ Shortest # 0 => arm.fault \in {"kill", "stop"}
<1>1. /\ Retry \in Nat /\ TTL \in Nat /\ RenewInterval \in Nat /\ RenewInterval < TTL
      /\ IdleLimit \in Nat /\ MaxGap \in Nat
  BY TrialFields, DurationsNat
<1>2. Retry >= 1 /\ IdleLimit > TTL + Retry /\ MaxGap > TTL + Retry + 1
  BY DEF Measured
<1>3. gap \in 0 .. MaxGap /\ backlog \in BOOLEAN
  BY DEF Trial, TrialInv, WorldInv, World, MeasuresTyped
<1>4. submit.left \in Nat
  BY DEF Trial, TrialInv, HarnessTyped
<1>5. BriefArm => arm.fault = "cut" /\ arm.cut \in Nat /\ arm.cut <= TTL
  <2>1. BriefArm => arm.fault = "cut" /\ arm.cut = TTL \div 2
    BY CutArms
  <2>2. TTL \div 2 \in Nat /\ TTL \div 2 <= TTL
    BY <1>1
  <2> QED
    BY <2>1, <2>2
<1>6. CASE BriefArm
  BY <1>1, <1>2, <1>3, <1>4, <1>5, <1>6 DEF Longest, Shortest
<1>7. CASE ~BriefArm
  BY <1>1, <1>2, <1>3, <1>4, <1>7 DEF Longest, Shortest
<1> QED
  BY <1>6, <1>7

\* Until the lease has run out, the victim neither renews it nor, when it is
\* dead or stopped, dispatches.
LEMMA HeldVictim ==
  ASSUME Measuring, Held
  PROVE  /\ ~BriefArm => proc[victim].phase = "dead" \/ proc[victim].stopped \/ proc[victim].path = "cut"
         /\ arm.fault \in {"kill", "stop"} => ~Runs(victim)
<1>1. Trial /\ victim \in Schedulers /\ Situation /\ ~Taken
  BY OneSituation DEF Measuring, Faulted
<1>2. arm.fault = "kill" => proc[victim].phase = "dead"
  BY <1>1 DEF Situation, Survived
<1>3. arm.fault = "stop" => proc[victim].stopped
  BY <1>1 DEF Measuring, FaultKind, OnTime, PausedOnTime
<1>4. arm.fault = "cut" /\ ~BriefArm => proc[victim].path = "cut"
  <2> SUFFICES ASSUME arm.fault = "cut", ~BriefArm PROVE proc[victim].path = "cut"
    OBVIOUS
  <2>1. LongArm
    BY <1>1, CutArms
  <2> QED
    BY <2>1 DEF Measuring, OnTime, LongOnTime
<1>5. arm.fault # "term"
  BY DEF Measuring, FaultKind
<1> QED
  BY <1>2, <1>3, <1>4, <1>5 DEF Measuring, MeasuredArm, Runs

LEMMA GapBounded ==
  ASSUME Measuring, OpenMeasure
  PROVE  gap <= Longest
<1>1. Trial /\ victim \in Schedulers /\ Situation /\ Measured /\ MeasuredArm
  BY DEF Measuring, Faulted
<1> USE TrialFields, MeasuringFields
<1>2. CASE BriefArm
  BY <1>1, <1>2 DEF OpenMeasure, BriefGap
<1>3. CASE ~BriefArm /\ Held
  <2>1. arm.fault # "term"
    BY <1>3 DEF Measuring, FaultKind
  <2>2. gap + Current.left <= TTL + 1 /\ Current.left >= 1
    BY <1>1, <1>3 DEF OpenMeasure, HeldGap, Held
  <2> QED
    BY <1>1, <1>3, <2>1, <2>2
<1>4. CASE Vacant
  <2>1. PICK o \in Others(victim) : Asleep(o)
    BY <1>1, <1>4, SomebodyWaits DEF MeasuredArm
  <2>2. gap + proc[o].timer <= Longest /\ proc[o].timer \in Nat
    BY <1>1, <1>4, <2>1 DEF OpenMeasure, VacantGap, Others
  <2> QED
    BY <1>1, <2>2
<1>5. CASE Taken
  BY <1>1, <1>5 DEF OpenMeasure, TakenGap, New
<1> QED
  BY <1>1, <1>2, <1>3, <1>4, <1>5 DEF Situation

\* A dispatch closes the measurement; nothing else a process does changes it.
LEMMA StepMeasures ==
  ASSUME NEW p, Instant(p), backlog \in BOOLEAN
  PROVE  MeasureKept \/ (Passes(p) /\ backlog)
<1>1. Trial /\ p \in Schedulers /\ ProcessStep(p)
  BY DEF Instant, Faulted
<1>2. Fenced(p) => MeasureKept
  BY <1>1, FencedLost DEF Rejected, StandsDown
<1>3. Passes(p) /\ ~backlog => MeasureKept
  BY DEF Passes, MeasureKept
<1> QED
  BY <1>1, <1>2, <1>3 DEF ProcessStep, Wins, Retries, Loses, StandsDown, Begins, Extends, Misses, Fails

LEMMA OpenStep ==
  ASSUME NEW p, Instant(p), Measuring, OpenMeasure, outage = Open, UNCHANGED submit
  PROVE  (outage' = Open /\ OpenMeasure') \/ ClosedMeasure'
<1>1. /\ Trial /\ Measured /\ MeasuredArm /\ victim \in Schedulers
      /\ arm' = arm /\ victim' = victim /\ step' = step /\ timer' = timer
  BY InstantFields DEF Measuring, Faulted
<1>2. /\ Longest' = Longest /\ Shortest' = Shortest /\ (BriefArm' <=> BriefArm)
  BY <1>1 DEF Longest, Shortest, BriefArm
<1> USE InstantFields, TrialFields, MeasuringFields
<1>3. (Held => ~Vacant /\ ~Taken) /\ (Vacant => ~Taken)
  BY <1>1, OneSituation
<1>4. CASE Passes(p) /\ backlog
  <2>1. outage' = gap /\ gap <= Longest /\ proc[p].phase = "leading" /\ Runs(p)
    BY <1>4, GapBounded DEF Passes, Goes
  <2>2. gap >= Shortest
    <3>1. CASE Held
      <4>1. p = victim
        BY <1>3, <2>1, <3>1 DEF StepHeld, StepVacant, StepTakes, StepTaken, Retries
      <4>2. Shortest = 0
        BY <1>1, <2>1, <3>1, <4>1, HeldVictim
      <4> QED
        BY <1>1, <4>2
    <3>2. CASE ~Held
      BY <3>2 DEF OpenMeasure, LostGap
    <3> QED
      BY <3>1, <3>2
  <2> QED
    BY <1>1, <1>2, <2>1, <2>2 DEF ClosedMeasure
<1>5. CASE MeasureKept
  <2>1. gap' = gap /\ backlog' = backlog /\ outage' = Open
    BY <1>5 DEF MeasureKept
  <2>2. (New' <=> New) /\ Waited'
    BY <2>1 DEF OpenMeasure, Waited, New, Submitting
  <2>3. DrainGap'
    BY <1>1, <2>1 DEF OpenMeasure, DrainGap
  <2>4. HeldGap'
    <3> SUFFICES ASSUME Held'
                 PROVE  gap + Current'.left >= Shortest /\ (~BriefArm => gap + Current'.left <= TTL + 1)
      BY <1>2, <2>1 DEF HeldGap
    <3>1. StepHeld(p) /\ Held
      BY DEF StepHeld, StepVacant, StepTakes, StepTaken
    <3>2. CASE LeaseKept
      BY <3>1, <3>2 DEF OpenMeasure, HeldGap, LeaseKept
    <3>3. CASE ~LeaseKept
      <4>1. p = victim /\ Extends(p)
        BY <3>1, <3>3 DEF StepHeld, Retries, StandsDown, Begins, Misses, Passes, Fails
      <4>2. BriefArm
        BY <3>1, <4>1, HeldVictim DEF Extends, Goes, Runs
      <4>3. Current'.left = TTL
        BY <4>1 DEF Extends
      <4> QED
        BY <1>1, <4>2, <4>3
    <3> QED
      BY <3>2, <3>3
  <2>5. LostGap'
    <3> SUFFICES ASSUME ~Held' PROVE gap >= Shortest
      BY <1>2, <2>1 DEF LostGap
    <3>1. ~Held
      BY <1>3 DEF StepHeld, StepVacant, StepTakes, StepTaken
    <3> QED
      BY <3>1 DEF OpenMeasure, LostGap
  <2>6. VacantGap'
    <3> SUFFICES ASSUME Vacant', NEW q \in Others(victim), Asleep(q)'
                 PROVE  gap + proc'[q].timer <= Longest
      BY <1>1, <1>2, <2>1 DEF VacantGap, Others
    <3>1. Vacant /\ p = victim
      BY DEF StepHeld, StepVacant, StepTakes, StepTaken
    <3>2. proc'[q] = proc[q]
      BY <3>1 DEF Others
    <3> QED
      BY <3>1, <3>2 DEF OpenMeasure, VacantGap, Asleep
  <2>7. TakenGap'
    <3> SUFFICES ASSUME Taken', ~New
                 PROVE  gap <= Longest /\ \A o \in Others(victim) : proc'[o].phase = "leading" => proc'[o].due
      BY <1>1, <1>2, <2>1, <2>2 DEF TakenGap, Others
    <3>1. gap <= Longest
      BY GapBounded
    <3>2. backlog
      BY DEF OpenMeasure, Waited
    <3>3. CASE StepTakes(p)
      <4>1. \A o \in Others(victim) : proc[o].phase # "leading"
        BY <3>3 DEF StepTakes, Vacant, Idle
      <4>2. proc'[p].phase = "granted"
        BY <3>3 DEF StepTakes, Wins
      <4> QED
        BY <3>1, <4>1, <4>2 DEF Others
    <3>4. CASE StepTaken(p)
      <4>1. \A o \in Others(victim) : proc[o].phase = "leading" => proc[o].due
        BY <3>4 DEF StepTaken, OpenMeasure, TakenGap
      <4>2. p # victim => (proc'[p].phase = "leading" => proc'[p].due)
        <5> SUFFICES ASSUME p # victim, proc'[p].phase = "leading" PROVE proc'[p].due
          OBVIOUS
        <5>1. Begins(p) \/ Extends(p) \/ Passes(p)
          BY <3>4 DEF StepTaken, Retries, StandsDown
        <5>2. ~Passes(p)
          BY <2>1, <3>2 DEF Passes
        <5>3. CASE Extends(p)
          BY <4>1, <5>3 DEF Extends, Goes, Others
        <5> QED
          BY <5>1, <5>2, <5>3 DEF Begins
      <4> QED
        BY <3>1, <4>1, <4>2 DEF Others
    <3> QED
      BY <3>3, <3>4 DEF StepHeld, StepVacant
  <2>8. BriefGap'
    <3> SUFFICES ASSUME BriefArm, step # "cut", gap > arm.cut + 1
                 PROVE  gap <= arm.cut + 2 /\ proc'[victim].phase = "leading" /\ proc'[victim].due
      BY <1>1, <1>2, <2>1 DEF OpenMeasure, BriefGap
    <3>1. gap <= arm.cut + 2 /\ proc[victim].phase = "leading" /\ proc[victim].due
      BY <1>1 DEF OpenMeasure, BriefGap
    <3>2. Held /\ proc[victim].path = "up"
      BY DEF Measuring, OnTime, BriefOnTime
    <3>3. backlog
      BY <1>1 DEF OpenMeasure, Waited, New
    <3>4. StepHeld(p)
      BY <1>3, <3>2 DEF StepVacant, StepTakes, StepTaken
    <3>5. CASE p = victim
      <4>1. Extends(p)
        BY <2>1, <3>1, <3>2, <3>3, <3>4, <3>5 DEF StepHeld, Begins, Misses, Fails, Passes
      <4> QED
        BY <3>1, <3>5, <4>1 DEF Extends, Goes
    <3> QED
      BY <3>1, <3>5
  <2> QED
    BY <2>1, <2>2, <2>3, <2>4, <2>5, <2>6, <2>7, <2>8 DEF OpenMeasure
<1> QED
  BY <1>1, <1>4, <1>5, StepMeasures

\* What a unit of time does to the measurement.
MeasureAges ==
  /\ gap' = IF outage < 0 /\ gap < MaxGap THEN gap + 1 ELSE gap
  /\ backlog' <=> backlog \/ (Submitting /\ submit.left > 0)
  /\ ~Submitting => submit' = submit
  /\ Submitting /\ submit.left > 0 =>
       submit'.state = "running" /\ submit'.left = submit.left - 1

LEMMA TickMeasures ==
  ASSUME Trial, Tick
  PROVE  MeasureAges
<1>1. submit \in [state : {"idle", "running", "done", "failed"}, left : Nat] /\ ~StoreTrial
  BY DEF Trial, TrialInv, HarnessTyped, LeaderTrial
<1>2. Accepted <=> Submitting
  BY LeaderWorld DEF Trial, Common, Accepted
<1>3. gap' = IF outage < 0 /\ gap < MaxGap THEN gap + 1 ELSE gap
  BY <1>1 DEF Tick
<1>4. backlog' <=> backlog \/ (Submitting /\ submit.left > 0)
  BY <1>2 DEF Tick
<1>5. ASSUME ~Submitting PROVE submit' = submit
  BY <1>2, <1>5 DEF Tick
<1>6. ASSUME Submitting, submit.left > 0
      PROVE  submit'.state = "running" /\ submit'.left = submit.left - 1
  <2>1. submit' = [submit EXCEPT !.left = @ - 1]
    <3>1. /\ ~(~Submitting) /\ ~(Submitting /\ ~Accepted)
          /\ Accepted /\ submit.left > 0 /\ submit.left # 0
      BY <1>1, <1>2, <1>6
    <3> QED
      BY <3>1, Zenon DEF Tick
  <2> QED
    BY <1>1, <1>6, <2>1 DEF Submitting
<1> QED
  BY <1>3, <1>4, <1>5, <1>6 DEF MeasureAges

LEMMA OpenTick ==
  ASSUME Elapses, Measuring, OpenMeasure, OnTime', MeasureAges, outage = Open, outage' = outage
  PROVE  OpenMeasure'
<1>1. /\ Trial /\ Measured /\ MeasuredArm /\ victim \in Schedulers
      /\ arm' = arm /\ victim' = victim /\ step' = step
  BY ElapsesFields DEF Measuring, Faulted
<1>2. /\ Longest' = Longest /\ Shortest' = Shortest /\ (BriefArm' <=> BriefArm)
  BY <1>1 DEF Longest, Shortest, BriefArm
<1> USE ElapsesFields, TrialFields, MeasuringFields
<1>3. gap <= Longest /\ gap < MaxGap /\ gap' = gap + 1
  <2>1. gap <= Longest
    BY GapBounded
  <2>2. outage < 0
    BY DEF Open
  <2> QED
    BY <1>1, <2>1, <2>2 DEF MeasureAges
<1>4. backlog' /\ Waited'
  <2>1. backlog'
    BY <1>1 DEF OpenMeasure, Waited, New, MeasureAges
  <2> QED
    BY <1>1, <1>3, <2>1 DEF Waited
<1>5. HeldGap'
  <2> SUFFICES ASSUME Held'
               PROVE  gap' + Current'.left >= Shortest /\ (~BriefArm => gap' + Current'.left <= TTL + 1)
    BY <1>2 DEF HeldGap
  <2>1. TickHeld
    BY DEF TickExpires, TickVacant, TickTaken
  <2>2. Held /\ Current.left > 1 /\ Current'.left = Current.left - 1
    BY <2>1 DEF TickHeld
  <2> QED
    BY <1>1, <1>3, <2>2 DEF OpenMeasure, HeldGap
<1>6. LostGap'
  <2> SUFFICES ASSUME ~Held' PROVE gap' >= Shortest
    BY <1>2 DEF LostGap
  <2>1. CASE Held
    <3>1. Current.left = 1
      BY <1>1, <2>1, OneSituation DEF TickHeld, TickExpires, TickVacant, TickTaken
    <3> QED
      BY <1>1, <1>3, <2>1, <3>1 DEF OpenMeasure, HeldGap
  <2>2. CASE ~Held
    BY <1>1, <1>3, <2>2 DEF OpenMeasure, LostGap
  <2> QED
    BY <2>1, <2>2
<1>7. VacantGap'
  <2> SUFFICES ASSUME Vacant', NEW q \in Others(victim), Asleep(q)'
               PROVE  gap' + proc'[q].timer <= Longest
    BY <1>1, <1>2 DEF VacantGap, Others
  <2>1. q \in Schedulers /\ Asleep(q) /\ proc[q].timer > 0 /\ proc'[q].timer = proc[q].timer - 1
        /\ proc[q].timer \in Nat
    BY <1>1 DEF Others
  <2>2. CASE TickExpires
    <3>1. Held /\ Current.left = 1 /\ proc'[q].timer < Retry /\ ~Held'
      BY <2>2 DEF TickExpires
    <3>2. ~BriefArm
      BY <1>2, <3>1 DEF OnTime, BriefOnTime
    <3>3. arm.fault # "term"
      BY <3>1 DEF Measuring, FaultKind
    <3>4. gap + 1 <= TTL + 1
      BY <1>1, <3>1, <3>2 DEF OpenMeasure, HeldGap
    <3> QED
      BY <1>1, <1>3, <2>1, <3>1, <3>2, <3>3, <3>4
  <2>3. CASE TickVacant
    <3>1. gap + proc[q].timer <= Longest
      BY <2>1, <2>3 DEF TickVacant, OpenMeasure, VacantGap
    <3> QED
      BY <1>1, <1>3, <2>1, <3>1
  <2> QED
    BY <2>2, <2>3 DEF TickHeld, TickTaken
<1>8. TakenGap'
  <2> SUFFICES ASSUME Taken'
               PROVE  gap' <= Longest /\ \A o \in Others(victim) : proc'[o].phase = "leading" => proc'[o].due
    BY <1>1, <1>2 DEF TakenGap, Others
  <2>1. TickTaken
    BY DEF TickHeld, TickExpires, TickVacant
  <2>2. New
    <3>1. PICK o \in Others(victim) : proc[o].phase = "leading" /\ ~proc[o].due
      BY <2>1 DEF TickTaken
    <3> QED
      BY <2>1, <3>1 DEF TickTaken, OpenMeasure, TakenGap
  <2>3. \A o \in Others(victim) : proc'[o].phase = "leading" => proc'[o].due
    BY DEF Elapses, AllAge, Others
  <2> QED
    BY <1>1, <1>3, <2>2, <2>3 DEF New
<1>9. BriefGap'
  <2> SUFFICES ASSUME BriefArm
               PROVE  /\ step = "cut" => gap' + timer' <= arm.cut + 1
                      /\ step # "cut" =>
                           gap' <= arm.cut + 2 /\ proc'[victim].phase = "leading" /\ proc'[victim].due
    BY <1>1, <1>2 DEF BriefGap
  <2>1. ASSUME step = "cut" PROVE gap' + timer' <= arm.cut + 1
    <3>1. timer > 0 /\ timer' = timer - 1
      BY <2>1
    <3>2. gap + timer <= arm.cut + 1
      BY <2>1 DEF OpenMeasure, BriefGap
    <3> QED
      BY <1>1, <1>3, <3>1, <3>2
  <2>2. ASSUME step # "cut"
        PROVE  gap' <= arm.cut + 2 /\ proc'[victim].phase = "leading" /\ proc'[victim].due
    <3>1. Held /\ ~proc[victim].stopped
      BY DEF Measuring, OnTime, BriefOnTime
    <3>2. proc[victim].phase # "dead"
      BY <1>1 DEF Measuring, Faulted, Situation, Survived
    <3>3. proc[victim].phase = "leading" /\ ~proc[victim].due
      BY <3>1, <3>2 DEF Held
    <3>4. proc'[victim].phase = "leading" /\ proc'[victim].due
      BY <1>1, <3>3 DEF Elapses, AllAge
    <3>5. gap <= arm.cut + 1
      BY <2>2, <3>3 DEF OpenMeasure, BriefGap
    <3> QED
      BY <1>1, <1>3, <3>4, <3>5
  <2> QED
    BY <2>1, <2>2
<1>10. DrainGap'
  <2>1. ASSUME step = "drain" PROVE gap' + timer' > IdleLimit
    <3>1. gap + timer > IdleLimit
      BY <2>1 DEF OpenMeasure, DrainGap
    <3>2. timer > 0 /\ timer' = timer - 1
      BY <1>1, <1>3, <3>1
    <3> QED
      BY <1>1, <1>3, <3>1, <3>2
  <2> QED
    BY <1>1, <2>1 DEF OpenMeasure, DrainGap
<1> QED
  BY <1>4, <1>5, <1>6, <1>7, <1>8, <1>9, <1>10 DEF OpenMeasure

LEMMA KindStep ==
  ASSUME NEW p, Instant(p), FaultKind
  PROVE  FaultKind'
<1> USE InstantFields
<1>1. (Held' => Held) /\ (Taken => Taken')
  BY OneSituation DEF StepHeld, StepVacant, StepTakes, StepTaken
<1> QED
  BY <1>1 DEF FaultKind

LEMMA KindTick ==
  ASSUME Elapses, FaultKind
  PROVE  FaultKind'
<1> USE ElapsesFields
<1>1. (Held' => Held) /\ (Taken => Taken')
  BY OneSituation DEF TickHeld, TickExpires, TickVacant, TickTaken
<1> QED
  BY <1>1 DEF FaultKind

\* The harness looks on.
LEMMA OpenWatched ==
  ASSUME Measuring, Watches, Running'
  PROVE  FaultKind' /\ outage' = outage /\ arm' = arm /\ (OpenMeasure => OpenMeasure')
<1>1. /\ Trial /\ Measured /\ MeasuredArm /\ victim \in Schedulers
      /\ UNCHANGED <<db, master, alive, proc, arm, victim, backlog, gap, outage>>
      /\ \/ step = "settle" /\ step' = "submit"
         \/ step = "submit" /\ step' = "drain"
         \/ step = "drain" /\ step' = "verdict"
  BY WatchesFields DEF Measuring, Faulted, Trial, Running, Situation, Early
<1>2. /\ Longest' = Longest /\ Shortest' = Shortest /\ (BriefArm' <=> BriefArm)
      /\ (Held' <=> Held) /\ (Vacant' <=> Vacant) /\ (Taken' <=> Taken) /\ Current' = Current
  BY <1>1, SituationsSame DEF Longest, Shortest, BriefArm, Current
<1>3. FaultKind'
  BY <1>1, <1>2 DEF Measuring, FaultKind
<1>4. ASSUME OpenMeasure PROVE OpenMeasure'
  <2> USE TrialFields, MeasuringFields
  <2>1. submit' = submit
    BY <1>1 DEF Watches, LeaderSeen, GaugesRead, LoadStarts, At, Settled, SubmitReturns, DrainReturns, Verdict
  <2>2. (New' <=> New) /\ Waited'
    BY <1>1, <1>4, <2>1 DEF OpenMeasure, Waited, New, Submitting
  <2>3. HeldGap' /\ LostGap'
    BY <1>1, <1>2, <1>4 DEF OpenMeasure, HeldGap, LostGap
  <2>4. VacantGap' /\ TakenGap'
    BY <1>1, <1>2, <1>4, <2>2 DEF OpenMeasure, VacantGap, TakenGap, Asleep, Others
  <2>5. BriefGap'
    BY <1>1, <1>2, <1>4 DEF OpenMeasure, BriefGap
  <2>6. DrainGap'
    <3>1. ASSUME step = "submit" PROVE gap' + timer' > IdleLimit
      <4>1. SubmitReturns
        BY <3>1 DEF Watches, LeaderSeen, GaugesRead, LoadStarts, At, Settled, SubmitReturns, DrainReturns, Verdict
      <4>2. ~Submitting /\ timer' = IdleLimit
        BY <1>1, <3>1, <4>1 DEF SubmitReturns, Check, Goto, Return, Submitting
      <4> QED
        BY <1>1, <1>4, <4>2 DEF OpenMeasure, Waited, New
    <3>2. step # "drain"
      <4> SUFFICES ASSUME step = "drain" PROVE FALSE
        OBVIOUS
      <4>1. DrainReturns
        BY DEF Watches, LeaderSeen, GaugesRead, LoadStarts, At, Settled, SubmitReturns, DrainReturns, Verdict
      <4>2. timer # 0
        BY <1>1, <1>4, GapBounded DEF OpenMeasure, DrainGap
      <4>3. submit.state = "done" /\ ~backlog
        BY <4>1, <4>2 DEF DrainReturns, Drained
      <4> QED
        BY <1>4, <4>3 DEF OpenMeasure, Waited, New, Submitting
    <3> QED
      BY <1>1, <3>1, <3>2 DEF DrainGap
  <2> QED
    BY <2>2, <2>3, <2>4, <2>5, <2>6 DEF OpenMeasure
<1> QED
  BY <1>1, <1>3, <1>4

\* The victim is continued or its path healed.
LEMMA OpenTouched ==
  ASSUME Measuring, Resume \/ Heal \/ FlapAgain, Running'
  PROVE  FaultKind' /\ outage' = outage /\ arm' = arm /\ (OpenMeasure => OpenMeasure')
<1>1. Trial /\ TrialInv /\ LeaderTrial /\ Measured /\ MeasuredArm /\ victim \in Schedulers /\ Situation
  BY DEF Measuring, Faulted, Trial
<1>2. /\ UNCHANGED <<db, master, alive, arm, victim, backlog, gap, outage, submit>>
      /\ timer = 0 /\ Survives(victim) /\ \A q \in Others(victim) : proc'[q] = proc[q]
      /\ step \in {"paused", "cut"} /\ step' = "settle"
      /\ step = "paused" => LeaseMoved
      /\ step = "cut" => proc'[victim].stopped = proc[victim].stopped
  <2>1. arm.fault # "flap"
    BY <1>1 DEF MeasuredArm
  <2>2. step # "healed"
    BY <1>1, <2>1 DEF Measuring, OnTime
  <2> QED
    BY <1>1, <2>1, <2>2, VictimFields DEF Running
<1>3. step = "paused" => Taken
  BY <1>1, <1>2, OneSituation DEF Situation
<1>4. /\ Taken => Taken'
      /\ ~Taken => (Held => Held') /\ (Vacant => Vacant')
  BY <1>1, <1>2, <1>3, VictimTouched
<1>5. /\ Longest' = Longest /\ Shortest' = Shortest /\ (BriefArm' <=> BriefArm) /\ Current' = Current
  BY <1>2 DEF Longest, Shortest, BriefArm, Current
<1>6. /\ (Held' <=> Held) /\ (Vacant' <=> Vacant) /\ (Taken' <=> Taken)
  <2>1. (Held' => ~Vacant' /\ ~Taken') /\ (Vacant' => ~Taken') /\ (Held => ~Vacant /\ ~Taken) /\ (Vacant => ~Taken)
    BY <1>1, <1>2, OneSituation, SituationShowsNext
  <2> QED
    BY <1>1, <1>4, <2>1 DEF Situation
<1>7. FaultKind'
  BY <1>2, <1>3, <1>6 DEF Measuring, FaultKind
<1>8. ASSUME OpenMeasure PROVE OpenMeasure'
  <2> USE TrialFields, MeasuringFields
  <2>1. (New' <=> New) /\ Waited'
    BY <1>2, <1>8 DEF OpenMeasure, Waited, New, Submitting
  <2>2. HeldGap' /\ LostGap'
    BY <1>2, <1>5, <1>6, <1>8 DEF OpenMeasure, HeldGap, LostGap
  <2>3. VacantGap' /\ TakenGap'
    BY <1>2, <1>5, <1>6, <1>8, <2>1 DEF OpenMeasure, VacantGap, TakenGap, Asleep, Others
  <2>4. BriefGap'
    <3>1. BriefArm => step = "cut"
      BY <1>1, <1>2 DEF Measuring, OnTime, PausedOnTime, BriefArm
    <3>2. BriefArm => gap + timer <= arm.cut + 1
      BY <1>8, <3>1 DEF OpenMeasure, BriefGap
    <3> QED
      BY <1>1, <1>2, <1>5, <3>2 DEF BriefGap
  <2>5. DrainGap'
    BY <1>2 DEF DrainGap
  <2> QED
    BY <2>1, <2>2, <2>3, <2>4, <2>5 DEF OpenMeasure
<1> QED
  BY <1>2, <1>7, <1>8

\* Before the fault: as soon as the load runs, every unit of time brings tasks,
\* and the leader dispatches them in the next one.
Fed == backlog /\ \A p \in Schedulers : proc[p].phase = "leading" => proc[p].due

Loaded ==
  /\ Submitting
  /\ SubmitFor + timer >= submit.left + FaultAfter
  /\ submit.left + FaultAfter + RenewInterval > SubmitFor + timer
  /\ \/ submit.left = SubmitFor
     \/ gap = 0
     \/ Fed /\ (gap = 1 \/ submit.left + 1 = SubmitFor)

BeforeMeasure ==
  /\ outage = NoFault
  /\ step \in {"elect", "gauges", "load"} => submit.left = SubmitFor
  /\ step = "before" => Loaded

LEMMA LoadFields ==
  ASSUME Measured
  PROVE  /\ FaultAfter \in Nat /\ SubmitFor \in Nat /\ RenewInterval \in Nat
         /\ FaultAfter >= 2 /\ SubmitFor >= FaultAfter + RenewInterval
BY DurationsNat DEF Measured

\* The fault comes right after a dispatch, or a unit after one.
LEMMA OpenFault ==
  ASSUME Trial, Situation, Measured, MeasuredArm, BeforeMeasure, SignalLeader \/ CutLeader
  PROVE  outage' = Open /\ OpenMeasure' /\ FaultKind'
<1> DEFINE h == LeaseOwner
<1> USE TrialFields, MeasuringFields, LoadFields
<1>1. step = "before" /\ timer = 0 /\ victim \notin Schedulers /\ FirstTerm
  BY DEF SignalLeader, CutLeader, At, Situation, Early
<1>2. gap <= 1 /\ Submitting /\ submit.left >= 1
  BY <1>1 DEF BeforeMeasure, Loaded
<1>3. /\ h \in Schedulers /\ Current.left \in 1 .. TTL /\ Current.left >= TTL - RenewInterval
  BY <1>1, OwnerLeads
<1>4. /\ victim' = h /\ UNCHANGED <<arm, gap, submit, backlog>> /\ outage' = Open
      /\ \A q \in Others(h) : proc'[q] = proc[q]
      /\ arm.fault = "stop" => step' = "paused"
      /\ arm.fault = "cut" => step' = "cut" /\ timer' = arm.cut
      /\ step' \in {"paused", "cut", "submit"}
      /\ \/ LeaseKept /\ arm.fault # "term"
         \/ Freed /\ arm.fault = "term"
  <2>1. CASE SignalLeader
    BY <1>1, <2>1, SignalFields
  <2>2. CASE CutLeader
    BY <1>1, <2>2, CutFields
  <2> QED
    BY <2>1, <2>2
<1>5. (LeaseKept => Held') /\ (Freed => Vacant')
  BY <1>4, FaultHits
<1> HIDE DEF h
<1>6. (Held' => ~Vacant' /\ ~Taken') /\ (Vacant' => ~Taken')
  BY <1>3, <1>4, SituationShowsNext
<1>7. /\ Longest' = Longest /\ Shortest' = Shortest /\ (BriefArm' <=> BriefArm)
  BY <1>4 DEF Longest, Shortest, BriefArm
<1>8. New' /\ Waited' /\ TakenGap'
  BY <1>2, <1>4 DEF New, Waited, TakenGap, Submitting
<1>9. HeldGap'
  <2> SUFFICES ASSUME Held'
               PROVE  gap + Current'.left >= Shortest /\ (~BriefArm => gap + Current'.left <= TTL + 1)
    BY <1>4, <1>7 DEF HeldGap
  <2>1. Current'.left = Current.left
    BY <1>4, <1>5, <1>6 DEF LeaseKept
  <2>2. Shortest \in {0, TTL - RenewInterval}
    BY DEF Shortest
  <2> QED
    BY <1>2, <1>3, <2>1, <2>2
<1>10. LostGap'
  <2>1. ~Held' => Shortest = 0
    BY <1>4, <1>5
  <2> QED
    BY <1>4, <1>7, <2>1 DEF LostGap
<1>11. VacantGap'
  <2> SUFFICES ASSUME Vacant', NEW q \in Others(h), Asleep(q)' PROVE gap + proc'[q].timer <= Longest
    BY <1>4, <1>7 DEF VacantGap, Others
  <2>1. ~BriefArm
    BY <1>4, <1>5, <1>6 DEF BriefArm
  <2>2. proc'[q] = proc[q] /\ q \in Others(victim) /\ q \in Schedulers /\ proc[q].phase = "standby"
    BY <1>1, <1>4 DEF Others, Asleep
  <2>3. proc[q].timer <= Retry /\ proc[q].timer \in Nat
    BY <2>2 DEF Trial, Common, Calm
  <2> QED
    BY <1>2, <2>1, <2>2, <2>3
<1>12. BriefGap'
  BY <1>2, <1>4, <1>7 DEF BriefGap, BriefArm
<1>13. DrainGap'
  BY <1>4 DEF DrainGap
<1>14. FaultKind'
  BY <1>4, <1>5, <1>6 DEF FaultKind
<1> QED
  BY <1>4, <1>8, <1>9, <1>10, <1>11, <1>12, <1>13, <1>14 DEF OpenMeasure

LEMMA BeforeStep ==
  ASSUME Trial, Measured, MeasuredArm, BeforeMeasure, victim \notin Schedulers,
         NEW p \in Schedulers, ProcessStep(p), UNCHANGED <<step, timer, submit>>
  PROVE  BeforeMeasure'
<1> USE TrialFields, MeasuringFields
<1>1. MeasureKept \/ (Passes(p) /\ backlog)
  <2>1. Fenced(p) => MeasureKept
    BY FencedLost DEF Rejected, StandsDown
  <2>2. Passes(p) /\ ~backlog => MeasureKept
    BY DEF Passes, MeasureKept
  <2> QED
    BY <2>1, <2>2 DEF ProcessStep, Wins, Retries, Loses, StandsDown, Begins, Extends, Misses, Fails
<1>2. outage = NoFault /\ outage' = NoFault
  BY <1>1 DEF BeforeMeasure, MeasureKept, Passes, Open, NoFault
<1>3. ASSUME step = "before" PROVE Loaded'
  <2>1. Loaded
    BY <1>3 DEF BeforeMeasure
  <2>2. CASE Passes(p) /\ backlog
    <3>1. gap' = 0
      BY <2>2 DEF Passes
    <3> QED
      BY <2>1, <3>1 DEF Loaded, Submitting
  <2>3. CASE MeasureKept
    <3>1. gap' = gap /\ backlog' = backlog
      BY <2>3 DEF MeasureKept
    <3>2. ASSUME Fed PROVE Fed'
      <4>1. backlog /\ backlog'
        BY <3>1, <3>2 DEF Fed
      <4>2. ~Passes(p) /\ ~Fails(p) /\ ~Misses(p)
        BY <4>1 DEF Passes, Fails, Misses, Trial, Common, Calm, Others
      <4>3. proc'[p].phase = "leading" => Begins(p) \/ Extends(p)
        BY <4>2, FencedLost DEF ProcessStep, Wins, Retries, Loses, Rejected, StandsDown
      <4>4. proc'[p].phase = "leading" => proc'[p].due
        BY <3>2, <4>3 DEF Fed, Begins, Extends, Goes
      <4>5. \A q \in Others(p) : proc'[q] = proc[q]
        BY DEF ProcessStep, Moves
      <4> QED
        BY <3>2, <4>1, <4>4, <4>5 DEF Fed, Others
    <3> QED
      BY <2>1, <3>1, <3>2 DEF Loaded, Submitting
  <2> QED
    BY <1>1, <2>2, <2>3
<1> QED
  BY <1>2, <1>3 DEF BeforeMeasure

LEMMA BeforeTick ==
  ASSUME Trial, Situation, Measured, MeasuredArm, BeforeMeasure, victim \notin Schedulers,
         AllWait, AllAge, MeasureAges, ~FaultDue, timer' = Down(timer), UNCHANGED <<step, outage>>,
         ProducerBounded
  PROVE  BeforeMeasure'
<1> USE TrialFields, MeasuringFields, LoadFields
<1>1. outage' = NoFault /\ outage < 0
  BY DEF BeforeMeasure, NoFault
<1>2. step \in {"elect", "gauges", "load"} => submit' = submit
  BY DEF ProducerBounded, MeasureAges, Submitting
<1>3. ASSUME step = "before" PROVE Loaded'
  <2>1. Loaded /\ FirstTerm
    BY <1>3 DEF BeforeMeasure, Situation, Early
  <2>2. timer > 0 /\ timer' = timer - 1
    <3>1. LeaderFound /\ LeaderTrial
      BY <2>1, OwnerLeads DEF Trial
    <3> QED
      BY <1>3, <3>1 DEF FaultDue, At, Down
  <2>3. submit.left > 0 /\ submit'.state = "running" /\ submit'.left = submit.left - 1 /\ backlog'
    <3>1. submit.left > 0 /\ Submitting
      BY <2>1, <2>2 DEF Loaded
    <3> QED
      BY <3>1 DEF MeasureAges
  <2>4. Fed'
    BY <2>3 DEF Fed, AllAge
  <2>5. ~Fed
    <3>1. PICK h \in Schedulers : proc[h].phase \in {"granted", "leading"}
      BY <2>1, OwnerLeads
    <3>2. ~proc[h].stopped
      BY <3>1 DEF Trial, Common, Calm, Others
    <3> QED
      BY <3>1, <3>2 DEF AllWait, Fed
  <2>6. submit'.left + 1 = SubmitFor \/ gap' = 1
    <3>1. CASE submit.left = SubmitFor
      BY <2>3, <3>1
    <3>2. CASE gap = 0
      BY <1>1, <3>2 DEF MeasureAges
    <3> QED
      BY <2>1, <2>5, <3>1, <3>2 DEF Loaded
  <2>7. /\ SubmitFor + timer' >= submit'.left + FaultAfter
        /\ submit'.left + FaultAfter + RenewInterval > SubmitFor + timer'
    BY <2>1, <2>2, <2>3 DEF Loaded
  <2> QED
    BY <2>3, <2>4, <2>6, <2>7 DEF Loaded, Submitting
<1> QED
  BY <1>1, <1>2, <1>3 DEF BeforeMeasure

LEMMA BeforeWatched ==
  ASSUME Trial, Situation, Measured, MeasuredArm, BeforeMeasure, Watches, Running',
         VictimKnown, victim \notin Schedulers
  PROVE  BeforeMeasure'
<1> USE TrialFields, MeasuringFields, LoadFields
<1>1. /\ UNCHANGED <<outage, gap>> /\ TrialInv /\ LeaderTrial
      /\ \/ step = "elect" /\ step' = "gauges"
         \/ step = "gauges" /\ step' = "load"
         \/ step = "load" /\ step' = "before"
  BY WatchesFields DEF Trial, Running, MeasuredArm, VictimKnown, Early
<1>2. CASE step \in {"elect", "gauges"}
  <2>1. submit' = submit
    BY <1>2 DEF Watches, LeaderSeen, GaugesRead, LoadStarts, At, Settled, SubmitReturns, DrainReturns, Verdict
  <2> QED
    BY <1>1, <1>2, <2>1 DEF BeforeMeasure
<1>3. CASE step = "load"
  <2>1. LoadStarts
    BY <1>3 DEF Watches, LeaderSeen, GaugesRead, LoadStarts, At, Settled, SubmitReturns, DrainReturns, Verdict
  <2>2. PICK phase \in Jitter : timer' = FaultAfter + phase /\ step' = "before"
    BY <2>1 DEF LoadStarts, Goto, MeasuredArm
  <2>3. phase \in 0 .. RenewInterval - 1
    BY <1>1, LeaderWorld DEF Jitter, LeaderTrial
  <2>4. submit'.state = "running" /\ submit'.left = submit.left /\ submit.left = SubmitFor
    <3>1. submit' = [submit EXCEPT !.state = "running"]
      BY <2>1 DEF LoadStarts
    <3>2. submit \in [state : {"idle", "running", "done", "failed"}, left : Nat]
      BY <1>1 DEF TrialInv, HarnessTyped
    <3> QED
      BY <1>3, <3>1, <3>2 DEF BeforeMeasure
  <2>5. Loaded'
    BY <2>2, <2>3, <2>4 DEF Loaded, Submitting
  <2> QED
    BY <1>1, <1>3, <2>5 DEF BeforeMeasure
<1> QED
  BY <1>1, <1>2, <1>3

MeasureInv ==
  LeaderTrial /\ MeasuredArm =>
    /\ Running /\ victim \notin Schedulers => BeforeMeasure
    /\ Running /\ victim \in Schedulers =>
         FaultKind /\ ((outage = Open /\ OpenMeasure) \/ ClosedMeasure)
    /\ outcome = "ok" => ClosedMeasure

\* A trial that returns its row has come to its verdict.
LEMMA OkReturns ==
  ASSUME TrialInv, CleanupInv, CleanupInv', LeaderTrial, [Next]_vars, outcome' = "ok"
  PROVE  ~Running' /\ (outcome = "ok" \/ (Running /\ step = "verdict"))
<1>1. ~Running'
  BY DEF CleanupInv, ResultLast
<1>2. CASE UNCHANGED outcome
  BY <1>1, <1>2
<1>3. CASE Scheduler \/ Tick \/ CtxExpires \/ RunDeferred \/ Finish \/ UNCHANGED vars
  BY <1>1, <1>3 DEF Scheduler, Tick, CtxExpires, Return, RunDeferred, Finish, vars, harnessVars
<1>4. CASE SignalLeader \/ CutLeader \/ Resume \/ Heal \/ FlapAgain
  BY <1>1, <1>4 DEF SignalLeader, CutLeader, Resume, Heal, FlapAgain, Check, Return
<1>5. CASE Watches
  <2>1. LeaderSeen \/ LoadStarts \/ DrainReturns => UNCHANGED outcome
    BY DEF LeaderSeen, LoadStarts, DrainReturns
  <2>2. GaugesRead \/ Settled \/ SubmitReturns => UNCHANGED outcome
    BY DEF GaugesRead, Settled, SubmitReturns, Check, Return
  <2>3. Verdict => Running /\ step = "verdict"
    BY DEF Verdict, At, Running
  <2> QED
    BY <1>1, <1>5, <2>1, <2>2, <2>3 DEF Watches
<1> QED
  BY <1>1, <1>2, <1>3, <1>4, <1>5, TrialSteps

LEMMA ClosedStays ==
  ASSUME Trial, Measured, MeasuredArm, UNCHANGED arm
  PROVE  /\ ClosedMeasure => outage # Open /\ outage # NoFault
         /\ ClosedMeasure /\ outage' = outage => ClosedMeasure'
         /\ MeasuredArm'
BY MeasuringFields DEF ClosedMeasure, Longest, Shortest, BriefArm, MeasuredArm, Open, NoFault

LEMMA MeasureRuns ==
  ASSUME TrialInv, CleanupInv, Timely, Measured, TermsInv, TimesInv, TimesInv', VictimKnown, MeasureInv,
         [Next]_vars, LeaderTrial, MeasuredArm, Running'
  PROVE  /\ victim' \notin Schedulers => BeforeMeasure'
         /\ victim' \in Schedulers =>
              FaultKind' /\ ((outage' = Open /\ OpenMeasure') \/ ClosedMeasure')
<1>1. /\ Running /\ UNCHANGED arm
      /\ \/ Scheduler \/ Tick \/ Watches
         \/ SignalLeader \/ CutLeader \/ Resume \/ Heal \/ FlapAgain
         \/ UNCHANGED vars
  BY RunningSteps
<1>2. Trial /\ Situation
  BY <1>1 DEF TermsInv, Trial
<1>3. /\ ClosedMeasure => outage # Open
      /\ ClosedMeasure /\ outage' = outage => ClosedMeasure'
  BY <1>1, <1>2, ClosedStays
<1>4. CASE SignalLeader \/ CutLeader
  <2>1. victim' \in Schedulers /\ step = "before"
    BY <1>2, <1>4, FaultHits DEF SignalLeader, CutLeader, At
  <2>2. victim \notin Schedulers
    BY <1>2, <2>1 DEF Situation, Early
  <2>3. BeforeMeasure
    BY <1>1, <2>2 DEF MeasureInv
  <2> QED
    BY <1>2, <1>4, <2>1, <2>3, OpenFault
<1>5. CASE Resume \/ Heal \/ FlapAgain
  <2>1. victim \in Schedulers /\ victim' = victim
    BY <1>5, VictimFields
  <2>2. Measuring /\ ((outage = Open /\ OpenMeasure) \/ ClosedMeasure)
    BY <1>1, <1>2, <2>1 DEF Measuring, Faulted, TimesInv, MeasureInv
  <2> QED
    BY <1>3, <1>5, <2>1, <2>2, OpenTouched
<1>6. CASE Scheduler
  <2>1. PICK p \in Schedulers : ProcessStep(p)
    BY <1>2, <1>6, SchedulerFields DEF Trial, Common
  <2>2. UNCHANGED <<arm, master, alive, step, timer, victim, submit>>
    BY <1>2, <1>6, SchedulerFields DEF Trial, Common, harnessVars
  <2>3. CASE victim \notin Schedulers
    <3>1. BeforeMeasure
      BY <1>1, <2>3 DEF MeasureInv
    <3> QED
      BY <1>2, <2>1, <2>2, <2>3, <3>1, BeforeStep
  <2>4. CASE victim \in Schedulers
    <3>1. Measuring /\ ((outage = Open /\ OpenMeasure) \/ ClosedMeasure)
      BY <1>1, <1>2, <2>4 DEF Measuring, Faulted, TimesInv, MeasureInv
    <3>2. Instant(p)
      BY <2>1, <2>2, <3>1 DEF Instant, Measuring
    <3>3. FaultKind'
      BY <3>1, <3>2, KindStep DEF Measuring
    <3>4. ASSUME ClosedMeasure PROVE outage' = outage
      <4>1. backlog \in BOOLEAN /\ outage # Open
        BY <1>2, <1>3, <3>4, MeasuringFields
      <4> QED
        BY <3>2, <4>1, StepMeasures DEF MeasureKept, Passes
    <3> QED
      BY <1>3, <2>2, <2>4, <3>1, <3>2, <3>3, <3>4, OpenStep
  <2> QED
    BY <2>3, <2>4
<1>7. CASE Tick
  <2>1. /\ AllWait /\ AllAge /\ LeaseAges /\ timer' = Down(timer) /\ ~FaultDue /\ MeasureAges
        /\ UNCHANGED <<arm, master, alive, outage, step, victim>>
    BY <1>2, <1>7, TickFields, TickMeasures DEF Tick, Quiet
  <2>2. CASE victim \notin Schedulers
    <3>1. BeforeMeasure /\ ProducerBounded
      BY <1>1, <2>2 DEF MeasureInv, CleanupInv
    <3> QED
      BY <1>2, <2>1, <2>2, <3>1, BeforeTick
  <2>3. CASE victim \in Schedulers
    <3>1. Measuring /\ ((outage = Open /\ OpenMeasure) \/ ClosedMeasure)
      BY <1>1, <1>2, <2>3 DEF Measuring, Faulted, TimesInv, MeasureInv
    <3>2. Elapses /\ FaultKind /\ outage' = outage
      BY <2>1, <3>1 DEF Elapses, Measuring
    <3>3. OnTime'
      <4>1. LeaderTrial'
        BY ArmKept
      <4> QED
        BY <2>1, <2>3, <4>1 DEF TimesInv
    <3> QED
      BY <1>3, <2>1, <2>3, <3>1, <3>2, <3>3, KindTick, OpenTick
  <2> QED
    BY <2>2, <2>3
<1>8. CASE Watches
  <2>1. victim' = victim
    BY <1>8, WatchesFields
  <2>2. CASE victim \notin Schedulers
    <3>1. BeforeMeasure
      BY <1>1, <2>2 DEF MeasureInv
    <3> QED
      BY <1>2, <1>8, <2>1, <2>2, <3>1, BeforeWatched
  <2>3. CASE victim \in Schedulers
    <3>1. Measuring /\ ((outage = Open /\ OpenMeasure) \/ ClosedMeasure)
      BY <1>1, <1>2, <2>3 DEF Measuring, Faulted, TimesInv, MeasureInv
    <3> QED
      BY <1>3, <1>8, <2>1, <2>3, <3>1, OpenWatched
  <2> QED
    BY <2>2, <2>3
<1>9. CASE UNCHANGED vars
  <2>1. UNCHANGED <<db, master, alive, proc, arm, victim, step, timer, submit, backlog, gap, outage>>
    BY <1>9 DEF vars, storeVars, procVars, harnessVars
  <2>2. (Held' <=> Held) /\ (Vacant' <=> Vacant) /\ (Taken' <=> Taken) /\ Current' = Current
    BY <1>2, <2>1, SituationsSame DEF Current
  <2>3. (New' <=> New) /\ (Fed' <=> Fed) /\ (BriefArm' <=> BriefArm) /\ Longest' = Longest /\ Shortest' = Shortest
    BY <2>1 DEF New, Fed, BriefArm, Longest, Shortest, Submitting
  <2>4. BeforeMeasure => BeforeMeasure'
    BY <2>1, <2>3 DEF BeforeMeasure, Loaded, Submitting
  <2>5. FaultKind => FaultKind'
    BY <2>1, <2>2 DEF FaultKind
  <2>6. OpenMeasure => (Waited /\ HeldGap /\ LostGap /\ DrainGap /\ BriefGap)'
    BY <2>1, <2>2, <2>3 DEF OpenMeasure, Waited, HeldGap, LostGap, DrainGap, BriefGap
  <2>7. OpenMeasure => (VacantGap /\ TakenGap)'
    BY <2>1, <2>2, <2>3 DEF OpenMeasure, VacantGap, TakenGap, Asleep, Others
  <2> QED
    BY <1>1, <1>3, <2>1, <2>4, <2>5, <2>6, <2>7 DEF MeasureInv, OpenMeasure
<1> QED
  BY <1>1, <1>4, <1>5, <1>6, <1>7, <1>8, <1>9

LEMMA MeasureNext ==
  ASSUME TrialInv, CleanupInv, CleanupInv', Timely, Measured, TermsInv, TimesInv, TimesInv', VictimKnown,
         MeasureInv, [Next]_vars
  PROVE  MeasureInv'
<1> SUFFICES ASSUME LeaderTrial', MeasuredArm'
             PROVE  /\ (Running /\ victim \notin Schedulers => BeforeMeasure)'
                    /\ (Running /\ victim \in Schedulers =>
                          FaultKind /\ ((outage = Open /\ OpenMeasure) \/ ClosedMeasure))'
                    /\ (outcome = "ok" => ClosedMeasure)'
  BY DEF MeasureInv
<1>1. LeaderTrial /\ MeasuredArm /\ UNCHANGED arm
  BY ArmKept DEF MeasuredArm
<1>2. ASSUME outcome' = "ok" PROVE ClosedMeasure'
  <2>1. ~Running' /\ (outcome = "ok" \/ (Running /\ step = "verdict"))
    BY <1>1, <1>2, OkReturns
  <2>2. outage' = outage
    BY <1>1, <2>1, ReturnedSteps
  <2>3. ClosedMeasure
    <3>1. CASE Running /\ step = "verdict"
      <4>1. victim \in Schedulers
        BY <1>1, <3>1 DEF VictimKnown, MeasuredArm, Early
      <4> QED
        BY <1>1, <3>1, <4>1 DEF MeasureInv, OpenMeasure, DrainGap
    <3> QED
      BY <1>1, <2>1, <3>1 DEF MeasureInv
  <2> QED
    BY <1>1, <2>2, <2>3 DEF ClosedMeasure, Longest, Shortest, BriefArm
<1>3. CASE Running'
  BY <1>1, <1>2, <1>3, MeasureRuns
<1>4. CASE ~Running'
  BY <1>2, <1>4
<1> QED
  BY <1>3, <1>4

\* The outage a trial measures is the one that the failover analysis predicts,
\* whatever the phase of the fault in the lease, in the renewals and in the
\* retries: at most a lease and a retry, no less than what a crashed or paused
\* leader has left of its lease, a retry after a graceful stop, and the cut
\* itself when the cut is brief.
THEOREM OutagesArePredicted == Timely /\ Measured => (Spec => []OutageWithinEnvelope)
<1> SUFFICES ASSUME Timely, Measured PROVE Spec => []OutageWithinEnvelope
  OBVIOUS
<1>1. Init => MeasureInv
  <2> SUFFICES ASSUME Init PROVE MeasureInv
    OBVIOUS
  <2>1. victim \notin Schedulers /\ outcome = "running"
    BY NobodyIsNobody DEF Init
  <2>2. BeforeMeasure
    BY DEF Init, SteadySpecs, BeforeMeasure
  <2> QED
    BY <2>1, <2>2 DEF MeasureInv
<1>2. /\ TimedInv /\ TimedInv' /\ MeasureInv /\ [Next]_vars => MeasureInv'
  BY MeasureNext DEF TimedInv
<1>3. TimedInv /\ MeasureInv => OutageWithinEnvelope
  <2> SUFFICES ASSUME TrialInv, MeasureInv PROVE OutageWithinEnvelope
    BY DEF TimedInv
  <2>1. ASSUME Completed({"kill", "stop", "cut", "term"})
        PROVE  /\ outage \in 0 .. TTL + Retry + 1
               /\ arm.fault \in {"kill", "stop"} => outage >= TTL - RenewInterval
               /\ arm.fault = "term" => outage \in 0 .. Retry + 1
               /\ arm.fault = "cut" /\ ~arm.failover => outage \in 0 .. arm.cut + 2
    <3>1. LeaderTrial
      BY <2>1, ArmKinds DEF Completed
    <3>2. arm.count = 2
      BY <2>1, <3>1, LeaderWorld, LeaderArmTimes DEF Completed
    <3>3. ClosedMeasure
      BY <2>1, <3>1, <3>2 DEF MeasureInv, MeasuredArm, Completed
    <3>4. /\ TTL \in Nat /\ Retry \in Nat /\ Retry >= 1 /\ RenewInterval \in Nat /\ RenewInterval < TTL
          /\ arm.fault \in {"kill", "stop", "cut", "term"}
      BY <2>1, <3>1, LeaderWorld DEF Completed, Measured
    <3>5. arm.fault = "cut" /\ ~arm.failover => arm.cut = TTL \div 2
      BY <3>1, LeaderWorld, LeaderArmTimes
    <3>6. TTL \div 2 \in Nat /\ TTL \div 2 <= TTL
      BY <3>4
    <3>7. CASE arm.fault = "cut" /\ ~arm.failover
      BY <3>3, <3>4, <3>5, <3>6, <3>7 DEF ClosedMeasure, Longest, Shortest, BriefArm
    <3>8. CASE ~(arm.fault = "cut" /\ ~arm.failover)
      BY <3>3, <3>4, <3>8 DEF ClosedMeasure, Longest, Shortest, BriefArm
    <3> QED
      BY <3>7, <3>8
  <2> QED
    BY <2>1 DEF OutageWithinEnvelope, Completed
<1> QED
  BY <1>1, <1>2, <1>3, TimesInvariant, PTL DEF Spec

-----------------------------------------------------------------------------
(***************************************************************************)
(* What a leader trial leaves behind.                                       *)
(***************************************************************************)
\* At the fault there is a leader to hit.
HitsSomebody == LeaderTrial => outcome # "nobody"

LEMMA HitsNext ==
  ASSUME TrialInv, TermsInv, HitsSomebody, [Next]_vars
  PROVE  HitsSomebody'
<1> SUFFICES ASSUME LeaderTrial' PROVE outcome' # "nobody"
  BY DEF HitsSomebody
<1>1. LeaderTrial /\ outcome # "nobody"
  BY ArmKept DEF HitsSomebody
<1>2. CASE SignalLeader
  <2>1. Trial /\ Situation /\ step = "before"
    BY <1>1, <1>2 DEF SignalLeader, At, TermsInv, Trial, Running
  <2>2. LeaderFound
    BY <2>1, OwnerLeads DEF Situation, Early
  <2> QED
    BY <1>1, <1>2, <2>2 DEF SignalLeader
<1>3. CASE CutLeader \/ Resume \/ Heal \/ FlapAgain
  BY <1>1, <1>3 DEF CutLeader, Resume, Heal, FlapAgain, Check, Return
<1>4. CASE Watches
  BY <1>1, <1>4 DEF Watches, LeaderSeen, GaugesRead, LoadStarts, Settled, SubmitReturns, DrainReturns, Verdict,
       Check, Return
<1>5. CASE Scheduler \/ Tick \/ CtxExpires \/ RunDeferred \/ Finish \/ UNCHANGED vars
  BY <1>1, <1>5 DEF Scheduler, Tick, CtxExpires, Return, RunDeferred, Finish, vars, harnessVars
<1> QED
  BY <1>1, <1>2, <1>3, <1>4, <1>5, TrialSteps

\* When a trial has ended, its namespace is empty and nothing runs that could
\* fill it again.  The three errors that would return while the producer still
\* submits, and that TrialsLeaveNothing leaves out, cannot occur: there is a
\* leader to hit, a pause ends with a successor, and one leader is counted.
THEOREM NothingIsLeft == Timely => (Spec => []TrialLeavesNothing)
<1> SUFFICES ASSUME Timely PROVE Spec => []TrialLeavesNothing
  OBVIOUS
<1>1. Init => HitsSomebody
  BY DEF Init, HitsSomebody
<1>2. TimedInv /\ HitsSomebody /\ [Next]_vars => HitsSomebody'
  BY HitsNext DEF TimedInv
<1>3. TimedInv /\ HitsSomebody => ~EarlyError
  BY DEF TimedInv, Judged, HitsSomebody, EarlyError
<1> QED
  BY <1>1, <1>2, <1>3, TimesInvariant, TrialsLeaveNothing, PTL DEF Spec
=============================================================================
