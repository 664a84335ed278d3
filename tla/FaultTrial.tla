----------------------------- MODULE FaultTrial -----------------------------
(***************************************************************************)
(* One trial of the fault experiments: runTrial of cmd/failoverbench,       *)
(* cmd/partitionbench and cmd/storefaultbench.  The harness starts the      *)
(* scheduler processes, waits for a leader, submits load, injects the fault *)
(* of its arm, watches what happens, reads the record back and cleans up.   *)
(* An experiment of internal/bench (runOne) is a trial without a fault      *)
(* whose components all run inside the harness.                             *)
(*                                                                          *)
(* Time is discrete, in units of about 0.7 s with the shipped defaults.  It  *)
(* passes only when nothing is due: calls and polls take no time, and what  *)
(* happens in one unit is interleaved.  Sentinel repairing the cut and the  *)
(* trial's limit have no timer.  The calls of the cleanup take no time, but  *)
(* whoever still runs writes in between.                                    *)
(***************************************************************************)
EXTENDS TimedReplicas

CONSTANTS
  TTL, RenewInterval,            \* the lease of failoverbench and partitionbench
  StoreTTL, StoreRenew,          \* the shorter lease of storefaultbench
  FaultAfter,                    \* earliest fault, from the start of load
  SubmitFor,                     \* how long the producer submits
  PauseFor, Settle,              \* pause of the leader, observation afterwards
  HalfPeriod,                    \* cut/heal half period of the flapping arm
  CutLimit,                      \* waitReplicationDown gives up
  Window,                        \* how long replication stays cut
  DownAfter,                     \* Sentinel's failure detection
  IdleLimit,                     \* waitForDrain gives up
  MaxGap                         \* bound on the measured gap

ASSUME TrialAssumption ==
  /\ {TTL, RenewInterval, StoreTTL, StoreRenew, FaultAfter, SubmitFor, PauseFor, Settle,
      HalfPeriod, CutLimit, Window, DownAfter, IdleLimit, MaxGap} \subseteq Nat
  /\ DownAfter > 0
  /\ RenewInterval < TTL /\ StoreRenew < StoreTTL
  /\ PauseFor > TTL
  /\ Cardinality(Schedulers) >= 3
  /\ NoGrant.owner \notin Schedulers

VARIABLES
  step,      \* where runTrial is
  timer,     \* time left in its current wait
  flapLeft,  \* time left of the flapping
  victim,    \* the process the fault hits
  submit,    \* the producer's goroutine and what it has left to submit
  workers,   \* the in-process workers, of an experiment all components, run
  watch,     \* the epoch watch: last holder, epochs seen, a reuse reported
  row,       \* the parts of the result that are judgements
  outcome,   \* "running", "ok", or the error runTrial returns
  defers     \* the deferred calls still to run, the last registered first

harnessVars == <<step, timer, flapLeft, victim, submit, workers, watch, row, outcome, defers>>
vars == <<storeVars, arm, procVars, harnessVars>>

-----------------------------------------------------------------------------
(***************************************************************************)
(* The arms.                                                                *)
(***************************************************************************)
LeaderArm(name, count, fault, cut, failover) ==
  [name |-> name, count |-> count, fault |-> fault, cut |-> cut, failover |-> failover,
   ttl |-> TTL, renew |-> RenewInterval, nodes |-> 0, min |-> 0, wait |-> 0]

FailoverArms ==
  {LeaderArm("none", 2, "none", 0, FALSE),
   LeaderArm("graceful", 2, "term", 0, TRUE),
   LeaderArm("crash", 2, "kill", 0, TRUE),
   LeaderArm("single", 1, "kill", 0, TRUE),
   LeaderArm("pause", 2, "stop", PauseFor, TRUE)}

PartitionArms ==
  {LeaderArm("brief", 2, "cut", TTL \div 2, FALSE),
   LeaderArm("long", 2, "cut", 2 * TTL, TRUE),
   LeaderArm("flapping", 2, "flap", 3 * TTL, FALSE)}

StoreArm(name, fault, min, wait) ==
  [name |-> name, count |-> 3, fault |-> fault, cut |-> Window, failover |-> TRUE,
   ttl |-> StoreTTL, renew |-> StoreRenew, nodes |-> 2, min |-> min, wait |-> wait]

StoreArms ==
  {StoreArm("clean", "crash", 0, 0),
   StoreArm("lagging", "stall", 0, 0),
   StoreArm("epochwait", "stall", 0, 1),
   StoreArm("guarded", "stall", 1, 1)}

\* A cell of the benchmark's matrix starts no process: its engine runs in the
\* harness without a lease; in the control arm there is none, and the workers
\* read the ingress stream themselves.
BenchArms ==
  {LeaderArm(name, 0, "none", 0, FALSE) : name \in {"benchmark", "control"}}

StoreTrial == arm \in StoreArms

Bench == arm \in BenchArms

LeaderTrial == ~StoreTrial /\ ~Bench

\* Defect: the namespace is reset before the processes are stopped.
DefectDeferred == <<"continue", "workers", "reset", "schedulers", "cancel">>

\* The deferred calls of runTrial, in the order they run.
Deferred == <<"continue", "workers", "schedulers", "reset", "cancel">>

\* A store trial has a cluster of its own and deletes that.
StoreDeferred == <<"workers", "schedulers", "cluster", "cancel">>

\* runOne cancels and awaits its components before every return; the deferred
\* Reset follows.
BenchDeferred == <<"components", "reset">>

-----------------------------------------------------------------------------
\* How far into its retry sleep each process is at the start.
Offsets ==
  {o \in [Schedulers -> 0 .. Retry] :
     Cardinality({p \in Schedulers : o[p] # 0}) <= 1}

\* The processes this arm starts.
Members(a) == CHOOSE S \in SUBSET Schedulers : Cardinality(S) = a.count

\* startSchedulers, each process behind a path of its own.
Started(a, o) ==
  [p \in Schedulers |-> IF p \in Members(a) THEN Process(o[p])
                        ELSE [Process(0) EXCEPT !.phase = "dead"]]

NewRow == [unexpected |-> FALSE, regressed |-> FALSE, before |-> 0, terms |-> 0, inversions |-> 0]

NewWatch == [last |-> NoGrant, seen |-> {}, reused |-> FALSE]

\* steadySpecs: a steady arrival rate for as long as the specs last.
SteadySpecs == [state |-> "idle", left |-> SubmitFor]

Init ==
  /\ arm \in FailoverArms \cup PartitionArms \cup StoreArms \cup BenchArms
  /\ StoreInit(arm.nodes)
  /\ \E o \in Offsets : proc = Started(arm, o)
  /\ led = [e \in 1 .. MaxEpoch |-> 0]
  /\ backlog = FALSE /\ gap = 0 /\ outage = NoFault
  /\ data = TRUE   \* EnsureStreams has made the groups
  /\ step = "elect" /\ timer = 0 /\ flapLeft = 0 /\ victim = "nobody"
  /\ submit = SteadySpecs /\ workers = FALSE
  /\ watch = NewWatch /\ row = NewRow
  /\ outcome = "running"
  /\ defers = CASE StoreTrial  -> StoreDeferred
               [] Bench       -> BenchDeferred
               [] LeaderTrial -> Deferred

\* The scrape of every metrics endpoint: dead and stopped processes answer
\* nothing and are skipped.
LeaderGauges == Cardinality({p \in Schedulers : Runs(p) /\ proc[p].phase = "leading"})

At(s) == step = s /\ timer = 0

Goto(s, t) == step' = s /\ timer' = t

\* return row, err: the deferred calls follow.
Return(why) == step' = "defer" /\ timer' = 0 /\ outcome' = why

\* Continue with s when ok, return the error otherwise.
Check(ok, why, s, t) ==
  IF ok THEN Goto(s, t) /\ UNCHANGED outcome ELSE Return(why)

-----------------------------------------------------------------------------
(***************************************************************************)
(* Before the fault.                                                        *)
(***************************************************************************)
\* leaseOwner, waitForLeader: the lease key is there.
LeaseOwner == Current.holder.owner

LeaderFound == Current.holder # NoGrant

LeaderSeen ==
  /\ At("elect") /\ LeaderTrial
  /\ LeaderFound
  /\ Goto("gauges", 0)
  /\ UNCHANGED <<storeVars, arm, procVars, flapLeft, victim, submit, workers, watch, row,
                 outcome, defers>>

\* A store trial starts its epoch watch here, and asks no gauge.
StoreLeaderSeen ==
  /\ At("elect") /\ StoreTrial
  /\ LeaderFound
  /\ Goto("load", 0)
  /\ UNCHANGED <<storeVars, arm, procVars, flapLeft, victim, submit, workers, watch, row,
                 outcome, defers>>

\* "Exactly one replica must claim leadership before any work is submitted."
\* The key is visible before the winner has set its gauge.
GaugesRead ==
  /\ At("gauges")
  /\ Check(LeaderGauges = 1, "leaders", "load", 0)
  /\ UNCHANGED <<storeVars, arm, procVars, flapLeft, victim, submit, workers, watch, row, defers>>

\* The jitter that spreads the fault over one renewal interval.
Jitter == IF StoreTrial THEN {0} ELSE 0 .. arm.renew - 1

LoadStarts ==
  /\ At("load")
  /\ workers' = TRUE
  /\ submit' = [submit EXCEPT !.state = "running"]
  /\ \E phase \in Jitter :
       IF arm.fault = "none" THEN Goto("submit", 0) ELSE Goto("before", FaultAfter + phase)
  /\ UNCHANGED <<storeVars, arm, procVars, flapLeft, victim, watch, row, outcome, defers>>

-----------------------------------------------------------------------------
(***************************************************************************)
(* Faults of the leader.                                                    *)
(***************************************************************************)
Killed(p) == [proc[p] EXCEPT !.phase = "dead", !.epoch = 0, !.timer = 0, !.due = FALSE]

\* leaderProcess of failoverbench reads the lease once; then the signal of the
\* arm.  A process told to terminate releases its lease on the way out.
SignalLeader ==
  LET p == LeaseOwner IN
  /\ At("before") /\ arm.fault \in {"kill", "term", "stop"}
  /\ IF ~LeaderFound
     THEN Return("nobody") /\ UNCHANGED <<db, proc, outage, victim>>
     ELSE /\ victim' = p
          /\ outage' = Open
          /\ Put(p, IF arm.fault = "stop" THEN [proc[p] EXCEPT !.stopped = TRUE] ELSE Killed(p))
          /\ IF arm.fault = "term" THEN WriteCell(Released(p)) ELSE UNCHANGED db
          /\ IF arm.fault = "stop" THEN Goto("paused", arm.cut) ELSE Goto("submit", 0)
          /\ UNCHANGED outcome
  /\ UNCHANGED <<master, alive, online, link, arm, led, backlog, gap, data, flapLeft, submit,
                 workers, watch, row, defers>>

\* leaderProcess of partitionbench waits for a holder; its path is cut.
CutLeader ==
  /\ At("before") /\ arm.fault \in {"cut", "flap"}
  /\ LeaderFound
  /\ victim' = LeaseOwner
  /\ outage' = Open
  /\ Put(LeaseOwner, CutPath(LeaseOwner))
  /\ flapLeft' = IF arm.fault = "flap" THEN arm.cut ELSE 0
  /\ Goto("cut", IF arm.fault = "flap" THEN HalfPeriod ELSE arm.cut)
  /\ UNCHANGED <<storeVars, arm, led, backlog, gap, data, submit, workers, watch, row, outcome,
                 defers>>

\* Somebody else holds the lease.
LeaseMoved == LeaseOwner \notin {victim, NoGrant.owner}

\* pauseAndResume: somebody else must hold the lease before SIGCONT.
Resume ==
  /\ At("paused")
  /\ Check(LeaseMoved, "unsuperseded", "settle", Settle)
  /\ IF LeaseMoved THEN Put(victim, [proc[victim] EXCEPT !.stopped = FALSE]) ELSE UNCHANGED proc
  /\ UNCHANGED <<storeVars, arm, led, backlog, gap, outage, data, flapLeft, victim, submit,
                 workers, watch, row, defers>>

\* Heal ends the cut, or one cut of the flapping.
Heal ==
  /\ At("cut")
  /\ Put(victim, HealPath(victim))
  /\ IF arm.fault = "flap" THEN Goto("healed", HalfPeriod) ELSE Goto("settle", Settle)
  /\ UNCHANGED <<storeVars, arm, led, backlog, gap, outage, data, flapLeft, victim, submit,
                 workers, watch, row, outcome, defers>>

\* flap cuts again until its deadline has passed.
FlapAgain ==
  /\ At("healed")
  /\ IF flapLeft > 0
     THEN Put(victim, CutPath(victim)) /\ Goto("cut", HalfPeriod)
     ELSE Goto("settle", Settle) /\ UNCHANGED proc
  /\ UNCHANGED <<storeVars, arm, led, backlog, gap, outage, data, flapLeft, victim, submit,
                 workers, watch, row, outcome, defers>>

\* Who leads now, and how many say that they do.
Settled ==
  /\ At("settle")
  /\ row' = [row EXCEPT !.unexpected = arm.fault = "cut" /\ LeaseMoved # arm.failover]
  /\ Check(LeaderGauges = 1, "split", "submit", 0)
  /\ UNCHANGED <<storeVars, arm, procVars, flapLeft, victim, submit, workers, watch, defers>>

-----------------------------------------------------------------------------
(***************************************************************************)
(* Faults of the store.                                                     *)
(***************************************************************************)
StoreFault ==
  /\ At("before") /\ StoreTrial
  /\ \/ arm.fault = "stall" /\ CutReplication /\ Goto("cutting", CutLimit)
     \/ arm.fault = "crash" /\ Goto("churn", 0) /\ UNCHANGED storeVars
  /\ UNCHANGED <<arm, procVars, flapLeft, victim, submit, workers, watch, row, outcome, defers>>

\* waitReplicationDown: the cut has to be confirmed before it is used.
CutConfirmed ==
  /\ step = "cutting" /\ (~ReplicationLive \/ timer = 0)
  /\ Check(~ReplicationLive, "notdown", "churn", 0)
  /\ UNCHANGED <<storeVars, arm, procVars, flapLeft, victim, submit, workers, watch, row, defers>>

\* killLeaseHolder; without a holder the first call fails the trial and the
\* second only skips the wait for a new term.
KillHolder(next, limit, otherwise) ==
  IF ~LeaderFound \/ ~Reachable
  THEN otherwise /\ UNCHANGED proc
  ELSE Put(LeaseOwner, Killed(LeaseOwner)) /\ Goto(next, limit) /\ UNCHANGED outcome

ChurnLeader ==
  /\ At("churn")
  /\ KillHolder("window", Window, Return("nobody"))
  /\ UNCHANGED <<storeVars, arm, led, backlog, gap, outage, data, flapLeft, victim, submit,
                 workers, watch, row, defers>>

\* readFence, then replicationLive: "the fault has to still be in effect when
\* the master dies".
WindowEnds ==
  /\ At("window")
  /\ row' = [row EXCEPT !.before = Current.counter]
  /\ Check(arm.fault = "stall" => ~ReplicationLive, "healed", "crash", 0)
  /\ UNCHANGED <<storeVars, arm, procVars, flapLeft, victim, submit, workers, watch, defers>>

MasterDies ==
  /\ At("crash")
  /\ KillMaster
  /\ Goto("failover", DownAfter)
  /\ UNCHANGED <<arm, procVars, flapLeft, victim, submit, workers, watch, row, outcome, defers>>

\* waitForFailover, with the pause that lets the promoted node settle.  Epochs
\* above its counter are lost with the master, and count anew.
Failover ==
  /\ At("failover")
  /\ Promote
  /\ led' = [e \in 1 .. MaxEpoch |-> IF e <= db[master'].counter THEN led[e] ELSE 0]
  /\ Goto("promoted", Retry)
  /\ UNCHANGED <<arm, proc, backlog, gap, outage, data, flapLeft, victim, submit, workers, watch,
                 row, outcome, defers>>

\* The counter of the promoted node against the highest epoch known.
ReadPromoted ==
  /\ At("promoted")
  /\ row' = [row EXCEPT !.regressed = \E e \in watch.seen \cup {row.before} : Current.counter < e,
                        !.terms = Cardinality(watch.seen)]
  /\ Goto("submit", 0)
  /\ UNCHANGED <<storeVars, arm, procVars, flapLeft, victim, submit, workers, watch, outcome, defers>>

\* One more election after the failover.
ChurnAgain ==
  /\ At("churn2")
  /\ KillHolder("reelect", IdleLimit, Goto("verdict", 0) /\ UNCHANGED outcome)
  /\ UNCHANGED <<storeVars, arm, led, backlog, gap, outage, data, flapLeft, victim, submit,
                 workers, watch, row, defers>>

ReelectionSeen ==
  /\ step = "reelect"
  /\ timer = 0 \/ watch.reused \/ Cardinality(watch.seen) > row.terms
  /\ Goto("verdict", 0)
  /\ UNCHANGED <<storeVars, arm, procVars, flapLeft, victim, submit, workers, watch, row,
                 outcome, defers>>

\* observe: an epoch seen before is a token issued twice.
Observe(grant) ==
  [last |-> grant, seen |-> watch.seen \cup {grant.epoch},
   reused |-> watch.reused \/ grant.epoch \in watch.seen]

\* watchEpochs: only a value that differs from the last one read is a
\* transition, and a missing key is none.
WatchPoll ==
  /\ StoreTrial /\ step \notin {"elect", "load", "defer", "ended"}
  /\ Reachable /\ Current.holder \notin {NoGrant, watch.last}
  /\ watch' = Observe(Current.holder)
  /\ UNCHANGED <<storeVars, arm, procVars, step, timer, flapLeft, victim, submit, workers, row,
                 outcome, defers>>

-----------------------------------------------------------------------------
(***************************************************************************)
(* The end of a trial.                                                      *)
(***************************************************************************)
\* <-submitDone.
SubmitReturns ==
  /\ At("submit") /\ LeaderTrial /\ submit.state # "running"
  /\ Check(submit.state = "done", "submit", "drain", IdleLimit)
  /\ UNCHANGED <<storeVars, arm, procVars, flapLeft, victim, submit, workers, watch, row, defers>>

\* storefaultbench ignores the error.
StoreSubmitReturns ==
  /\ At("submit") /\ StoreTrial /\ submit.state # "running"
  /\ Goto("drain", IdleLimit)
  /\ UNCHANGED <<storeVars, arm, procVars, flapLeft, victim, submit, workers, watch, row,
                 outcome, defers>>

\* Defect: waitForDrain waits for the last task however long it takes.
DefectDrained == submit.state = "done" /\ ~backlog

\* waitForDrain: everything submitted was executed, or nothing moves any more.
Drained == timer = 0 \/ (submit.state = "done" /\ ~backlog)

DrainReturns ==
  /\ step = "drain" /\ ~Bench /\ Drained
  /\ Goto(IF StoreTrial THEN "churn2" ELSE "verdict", 0)
  /\ UNCHANGED <<storeVars, arm, procVars, flapLeft, victim, submit, workers, watch, row,
                 outcome, defers>>

\* The epochs of the execution stream, read back.
DispatchRecord == Current.log

\* Entries under an epoch lower than one already written.
EpochInversions(log) == Cardinality({i \in DOMAIN log : \E j \in 1 .. i - 1 : log[j] > log[i]})

Inversions == EpochInversions(DispatchRecord)

Verdict ==
  /\ At("verdict") /\ LeaderTrial
  /\ row' = [row EXCEPT !.inversions = Inversions]
  /\ Return(IF Inversions # 0 THEN "inverted" ELSE "ok")
  /\ UNCHANGED <<storeVars, arm, procVars, flapLeft, victim, submit, workers, watch, defers>>

\* A store trial reports inversions and fails on none.
StoreVerdict ==
  /\ At("verdict") /\ StoreTrial
  /\ row' = [row EXCEPT !.inversions = Inversions]
  /\ Return("ok")
  /\ UNCHANGED <<storeVars, arm, procVars, flapLeft, victim, submit, workers, watch, defers>>

-----------------------------------------------------------------------------
(***************************************************************************)
(* An experiment of the benchmark.                                          *)
(***************************************************************************)
\* waitReady: an engine and a worker are ready once they have reached Redis.
AllReady == Reachable

\* The producer runs in the foreground.
ComponentsReady ==
  /\ At("elect") /\ Bench /\ AllReady
  /\ workers' = TRUE
  /\ submit' = [submit EXCEPT !.state = "running"]
  /\ Goto("submit", 0)
  /\ UNCHANGED <<storeVars, arm, procVars, flapLeft, victim, watch, row, outcome, defers>>

LoadSubmitted ==
  /\ At("submit") /\ Bench /\ submit.state = "done"
  /\ Goto("drain", IdleLimit)
  /\ UNCHANGED <<storeVars, arm, procVars, flapLeft, victim, submit, workers, watch, row,
                 outcome, defers>>

\* waitForCompletion: every task is terminal, or the experiment timed out.
CompletionSeen ==
  /\ step = "drain" /\ Bench /\ Drained
  /\ Goto("stop", 0)
  /\ UNCHANGED <<storeVars, arm, procVars, flapLeft, victim, submit, workers, watch, row,
                 outcome, defers>>

\* cancelExp, wg.Wait: the workers finish what they have, within their grace.
ComponentsStop ==
  /\ At("stop")
  /\ workers' = FALSE
  /\ Goto("collect", 0)
  /\ UNCHANGED <<storeVars, arm, procVars, flapLeft, victim, submit, watch, row, outcome, defers>>

\* collectResults, Stats, ReadDeadLetters.
CollectResults ==
  /\ At("collect")
  /\ Return("ok")
  /\ UNCHANGED <<storeVars, arm, procVars, flapLeft, victim, submit, workers, watch, row, defers>>

\* The components execute what was submitted, dispatched by the engine or, in
\* the control arm, read from the ingress stream.
TasksExecuted ==
  /\ step \notin {"defer", "ended"}
  /\ Bench /\ workers /\ backlog
  /\ backlog' = FALSE
  /\ UNCHANGED <<storeVars, arm, proc, led, gap, outage, data, harnessVars>>

-----------------------------------------------------------------------------
(***************************************************************************)
(* The producer and the cleanup.                                            *)
(***************************************************************************)
\* The producer submits at a steady rate; a batch that fails ends it.
Submitting == submit.state = "running"

Accepted == Submitting /\ Writable(arm.min)

Everyone(r(_)) == proc' = [p \in Schedulers |-> r(p)]

Continued(p) == [proc[p] EXCEPT !.stopped = FALSE]

Stopped(s) == IF s.state = "done" THEN s ELSE [s EXCEPT !.state = "failed"]

\* Who runs during the cleanup goes on writing.
StillWriting ==
  \/ Accepted
  \/ workers /\ Reachable
  \/ \E p \in Schedulers : Runs(p) /\ Reaches(p) /\ Writable(arm.min)

\* Reset deletes the namespace, except what must never go backwards.
DataAfter(call) ==
  call # "cluster" /\ (StillWriting \/ (data /\ call # "reset"))

\* The next deferred call.  Calls that were not registered yet when runTrial
\* returned find nothing to do.
RunDeferred ==
  LET call == Head(defers) IN
  /\ step = "defer" /\ defers # <<>>
  /\ defers' = Tail(defers)
  /\ CASE call = "continue"   -> Everyone(Continued)
       [] call = "schedulers" -> Everyone(Killed)
       [] OTHER               -> UNCHANGED proc
  /\ workers' = (workers /\ call \notin {"workers", "components"})
  /\ data' = DataAfter(call)
  /\ IF call = "cluster" THEN StopCluster ELSE UNCHANGED <<alive, online>>
  /\ submit' = IF call = "cancel" THEN Stopped(submit) ELSE submit
  /\ UNCHANGED <<db, master, link, arm, led, backlog, gap, outage, step, timer, flapLeft, victim,
                 watch, row, outcome>>

Finish ==
  /\ step = "defer" /\ defers = <<>>
  /\ Goto("ended", 0)
  /\ UNCHANGED <<storeVars, arm, procVars, flapLeft, victim, submit, workers, watch, row,
                 outcome, defers>>

-----------------------------------------------------------------------------
(***************************************************************************)
(* Time.                                                                    *)
(***************************************************************************)
Harness ==
  \/ LeaderSeen \/ StoreLeaderSeen \/ GaugesRead \/ LoadStarts
  \/ SignalLeader \/ CutLeader \/ Resume \/ Heal \/ FlapAgain \/ Settled
  \/ StoreFault \/ CutConfirmed \/ ChurnLeader \/ WindowEnds \/ MasterDies \/ Failover
  \/ ReadPromoted \/ ChurnAgain \/ ReelectionSeen \/ WatchPoll
  \/ SubmitReturns \/ StoreSubmitReturns \/ DrainReturns \/ Verdict \/ StoreVerdict
  \/ ComponentsReady \/ LoadSubmitted \/ CompletionSeen \/ ComponentsStop \/ CollectResults
  \/ TasksExecuted

Replica == \E p \in Schedulers : ReplicaStep(p)

Replication ==
  /\ step \notin {"defer", "ended"}
  /\ NoticeDown \/ \E i \in online : Replicate(i)
  /\ UNCHANGED <<arm, procVars, harnessVars>>

Scheduler == step \notin {"defer", "ended"} /\ Replica /\ UNCHANGED harnessVars

Repair ==
  /\ step \in {"cutting", "churn", "window", "crash"}
  /\ SentinelRepairs
  /\ UNCHANGED <<arm, procVars, harnessVars>>

Down(n) == IF n > 0 THEN n - 1 ELSE 0

\* What p has to do now: its attempt or its renewal, a dispatch pass, the start
\* of a term that waits for no replica, or the end of a wait that timed out or
\* whose connection broke.
Due(p) ==
  /\ Runs(p)
  /\ \/ proc[p].phase \in {"standby", "leading"} /\ proc[p].timer = 0
     \/ proc[p].phase = "leading" /\ proc[p].due
     \/ proc[p].phase = "granted" /\ (arm.wait = 0 \/ proc[p].timer = 0 \/ ~Reaches(p))

\* The fault, or the end of it, that the harness waited for.
FaultDue ==
  \/ At("before") /\ LeaderTrial /\ LeaderFound
  \/ timer = 0 /\ step \in {"paused", "cut", "healed", "settle"}

\* Time passes when nothing is due.  The second line follows from the first,
\* since what is due is a step of Scheduler or of Harness; ENABLED is out of
\* reach of the proofs, which need these cases.
Quiet ==
  /\ ~ENABLED (Harness \/ Scheduler \/ Replication)
  /\ ~FaultDue /\ \A p \in Schedulers : ~Due(p)

Tick ==
  /\ step \notin {"defer", "ended"}
  /\ Quiet
  /\ db' = [i \in DOMAIN db |-> Aged(db[i])]
  /\ proc' = [p \in Schedulers |->
                [proc[p] EXCEPT !.timer = Down(@), !.due = proc[p].phase = "leading"]]
  /\ timer' = Down(timer)
  /\ flapLeft' = Down(flapLeft)
  /\ gap' = IF outage < 0 /\ ~StoreTrial /\ gap < MaxGap THEN gap + 1 ELSE gap
  /\ submit' = CASE ~Submitting -> submit
                 [] Submitting /\ ~Accepted -> [submit EXCEPT !.state = "failed"]
                 [] Accepted /\ submit.left > 0 -> [submit EXCEPT !.left = @ - 1]
                 [] Accepted /\ submit.left = 0 -> [submit EXCEPT !.state = "done"]
  /\ backlog' = (backlog \/ (Accepted /\ submit.left > 0))
  /\ data' = (data \/ Accepted \/ (workers /\ Reachable))
  /\ UNCHANGED <<master, alive, online, link, arm, led, outage, step, victim, workers, watch,
                 row, outcome, defers>>

\* The limit of the trial's context: every wait returns, and CommandContext
\* kills the processes, the Redis nodes of a store trial included.
CtxExpires ==
  /\ step \notin {"defer", "ended"}
  /\ Quiet
  /\ Return("timeout")
  /\ Everyone(Killed)
  /\ submit' = Stopped(submit)
  /\ IF StoreTrial THEN StopCluster ELSE UNCHANGED <<alive, online>>
  /\ UNCHANGED <<db, master, link, arm, led, backlog, gap, outage, data, flapLeft, victim,
                 workers, watch, row, defers>>

Next == Harness \/ Scheduler \/ Replication \/ Repair \/ Tick \/ CtxExpires
        \/ RunDeferred \/ Finish

Spec == Init /\ [][Next]_vars

\* Processes, replication and the clock go on; neither the trial's limit nor a
\* repair by Sentinel has to happen.
FairSpec ==
  /\ Spec
  /\ WF_vars(Harness \/ Scheduler \/ Replication \/ Tick)
  /\ WF_vars(RunDeferred \/ Finish)

-----------------------------------------------------------------------------
(***************************************************************************)
(* What the defaults of the leader benches grant, and flags could take away. *)
(***************************************************************************)
\* The pause outlasts the lease and the successor's retry, the observation a
\* renewal and a retry, and the renewals that a cut of half a lease can cost
\* leave time for the next one.
Timely ==
  /\ MaxEpoch >= 2
  /\ RenewInterval >= 1
  /\ PauseFor >= TTL + Retry
  /\ Settle > RenewInterval + Retry
  /\ \A j \in 0 .. TTL : j * RenewInterval <= TTL \div 2 => (j + 2) * RenewInterval < TTL

\* The load goes on until the fault, and waitForDrain outlasts the outage.
Measured ==
  /\ Retry >= 1
  /\ FaultAfter >= 2
  /\ SubmitFor >= FaultAfter + RenewInterval
  /\ IdleLimit > TTL + Retry
  /\ MaxGap > TTL + Retry + 1

-----------------------------------------------------------------------------
(***************************************************************************)
(* Properties.                                                              *)
(***************************************************************************)
\* Everything stays in its range, and exactly the processes with a grant that
\* they have not lost, handed back or been killed with have an epoch (forget).
TypeOK ==
  /\ StoreTypeOK
  /\ \A p \in Schedulers :
       /\ proc[p].phase \in Phases
       /\ proc[p].epoch \in 0 .. MaxEpoch
       /\ proc[p].phase \in {"granted", "leading"} <=> proc[p].epoch # 0
       /\ proc[p].path \in {"up", "cut"}
  /\ gap \in 0 .. MaxGap
  /\ outage \in {NoFault, Open} \cup 0 .. MaxGap
  /\ victim \in Schedulers \cup {"nobody"}
  /\ watch.seen \subseteq 1 .. MaxEpoch
  /\ outcome \in {"running", "ok", "timeout", "leaders", "nobody", "unsuperseded", "split",
                  "notdown", "healed", "submit", "inverted"}

Completed(faults) == outcome = "ok" /\ arm.fault \in faults /\ arm.count > 1

\* The outage a trial measures is the one the failover analysis predicts: at
\* most a lease and a retry (one unit more, for the unit the fault falls in),
\* no less than what the lease had left at a crash, a retry after a graceful
\* stop, and the cut itself when the cut is brief (the units at its two ends
\* count).
OutageWithinEnvelope ==
  /\ Completed({"kill", "stop", "cut"}) => outage \in 0 .. TTL + Retry + 1
  /\ Completed({"kill", "stop"}) => outage >= TTL - RenewInterval
  /\ Completed({"term"}) => outage \in 0 .. Retry + 1
  /\ Completed({"cut"}) /\ ~arm.failover => outage \in 0 .. arm.cut + 2

\* expectFailover "is an assertion, not a description": a cut of half a lease
\* never costs the leader its term, one of two leases always does, and the row
\* records neither as unexpected.  And one fault of the leader costs at most one
\* more term: flapping, pausing and healing never start a series of elections.
ElectionsAsExpected ==
  /\ ~row.unexpected
  /\ arm.fault = "cut" /\ ~arm.failover => Current.counter <= 1
  /\ ~StoreTrial => Current.counter <= 2

\* A leader that was stopped or cut off and returns is never counted as a
\* second leader once the observation period is over, and nothing was
\* dispatched under its epoch after its successor wrote.
OneWriterAfterReturn ==
  /\ outcome \notin {"split", "unsuperseded", "inverted"}
  /\ ~StoreTrial => Inversions = 0

\* An epoch identifies one term for as long as the store knows it, through the
\* leaders killed, paused and cut off, grants handed back, the cut, the repair
\* and the promotion of the replica that has received the most: "enough to stop
\* a Sentinel promotion from silently rewinding the fence" (lease.go) is that
\* one replica has the epoch when the master dies.  Whether the wait ensures
\* that is DurableBeforeLeading.
TokenNamesOneTerm == \A e \in 1 .. MaxEpoch : led[e] <= 1

\* When a trial has ended, its namespace is empty and nothing runs that could
\* fill it again: Reset comes after the last writer.
TrialLeavesNothing ==
  step = "ended" =>
    /\ ~data
    /\ ~workers
    /\ ~Submitting
    /\ \A p \in Schedulers : proc[p].phase = "dead"

\* Every trial ends, also when the only scheduler is dead and the queue cannot
\* drain, and without help from the trial's time limit.
TrialEnds == <>(step = "ended")

\* awaitEpochDurable "blocks until the write that produced this epoch has
\* reached the configured number of replicas": a term only begins on an epoch
\* that many replicas have.
DurableBeforeLeading ==
  [][\A p \in Schedulers :
       proc[p].phase = "granted" /\ proc'[p].phase = "leading" =>
         Cardinality({i \in alive \ {master} : db[i].counter >= proc[p].epoch}) >= arm.wait]_vars
=============================================================================
