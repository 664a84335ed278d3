# Formal verification of the distributed task queue

TLA+ specifications of the task queue in this repository, the TLC runs that check
them on small instances, and TLAPS proofs of the main results for every instance.
`PROJECT.json` lists the components, the runs, the lines of code behind each
definition, the hazards and the theorems.

## 1. The system

A producer appends tasks to a Redis stream; a scheduler ranks and dispatches
them; workers execute them; recovery redelivers what workers left behind. All
shared state is in Redis, and every multi-key change is one Lua script.

| Part | Source | State it keeps | Operations |
| --- | --- | --- | --- |
| Broker | `internal/broker` | Redis keys: ingress, exec, results and dead streams with their consumer groups, pending sets, payloads, done hash, counters, fence, saved policy state | admit, dispatch, complete, retry/dead-letter, save state; stream reads, claims, acknowledgements |
| Lease | `internal/lease` | Redis: grant with TTL, epoch counter; process: grant value, epoch | acquire, durability wait, renew, release, campaign, serve a term |
| Scheduler engine | `internal/scheduler/engine.go` | policy state, batch in progress, scan cursor, leadership flag | ingest, reclaim, dispatch and observe loops; restore and flush of policy state |
| Policies | `internal/scheduler/{fifo,priority,edf,wfq}` | wfq: virtual time, finish tags | rank, notify, state, restore |
| Worker | `internal/worker` | delivery being executed | read, execute, complete, fail, abandon |
| Recovery | `internal/recovery` | scan cursor | claim timed-out deliveries, retry or dead-letter |
| Console supervisor | `internal/console/supervisor.go` | processes, their reported state, timed faults, timers | kill, terminate, freeze, partition, restart, clear, stop |
| Fault proxy | `internal/netfault` | cut flag, connections | cut, heal |
| Fault experiments | `cmd/failoverbench`, `cmd/partitionbench`, `cmd/storefaultbench` | scheduler processes, producer, workers, epoch watch, result row | one trial: start, elect, load, fault, observe, drain, verdict, clean up |
| Benchmark | `internal/bench` | components in one process | one experiment: start, submit, wait, stop, collect, clean up |
| Console server, events, submitter; web; CLI | `internal/console`, `web`, `cmd` | event log, HTTP connections | not modelled, see section 8 |

What is hard: any process can pause, die or lose a reply between two scripts;
two deliveries of a task can be executed at once; the terms of two leaders can
overlap; entries delivered to a dead consumer are found only by a claim; loops
retry with what they knew before. The `hazards` of `PROJECT.json` list these at
their lines.

What makes each part correct:

* broker and workers: no task lost, one terminal record, exact in-flight counter
  and cap, retries within budget, outcomes final;
* lease and fence: one leader per epoch, writes ordered by epoch, the holder can
  write, a superseded leader stops;
* engine: no submission dropped between ingress and admission, stranded entries
  settled in the end, saved state never of an older term;
* policies: the packed scores give the documented order; wfq shares by weight
  whatever calls fail or land late;
* supervisor: a disruption ends by itself and only its own timer ends it early;
  the shutdown leaves no process;
* experiments: a trial measures what it says it measures (the outage of one
  failover, a fault still in effect, a closed record) and leaves nothing behind.

## 2. Modules

| Module | Models |
| --- | --- |
| `EpochFence` | `fenceGuard`: the fence and its two operations |
| `StreamGroup` | `XAUTOCLAIM` paging and cursors (Redis, as the broker uses it) |
| `Broker` | the keyspace and its scripts, one operator each; safety invariants of the keyspace |
| `TaskLifecycle` | abstract: unknown, pending, in flight, completed or dead; the in-flight cap |
| `TaskQueue` | worker slots and recovery loops over `Broker`; implements `TaskLifecycle` |
| `LeaderTerms` | abstract: terms with fresh epochs; a write is accepted while no newer term has written |
| `LeaderLease` | lease scripts, `Campaign`, `serveTerm`, crashes; implements `LeaderTerms` |
| `SchedulerEngine` | the loops of `serveLoops` over `Broker`, two replicas; its writes implement `LeaderTerms` |
| `PolicyQueue` | the four policies, keys and members, the pending set, flush and restore of wfq |
| `DemoCluster` | the console's supervisor: requests, timers, exits, `Stop` |
| `SentinelStore` | Redis with replicas and Sentinel as `storefaultbench` sets it up: cut, repair, promotion |
| `TimedReplicas` | scheduler processes over `SentinelStore` in discrete time: campaign, durability wait, renewal, dispatch; pauses and cut paths |
| `FaultTrial` | `runTrial` of the three fault experiments and `runOne` of the benchmark over `TimedReplicas` |
| `Broker_proofs`, `TaskQueue_proofs`, `LeaderLease_proofs`, `SchedulerEngine_proofs`, `DemoCluster_proofs`, `FaultTrial_proofs`, `PolicyQueue_proofs` | theorems about the module of that name |
| `TrialTiming_proofs` | what the leader trials measure, over `FaultTrial_proofs` |
| `MC...` | instances for TLC |

Composition: `TaskQueue` and `SchedulerEngine` both extend `Broker`. `TaskQueue`
abstracts the scheduler to "any task may be admitted at any time" and details
workers and recovery; `SchedulerEngine` abstracts workers to "a delivered task
may be completed at any time" and details ingestion; of leader election it uses
only `LeaderTerms`, which `LeaderLease` is proved to implement. `FaultTrial`
extends `TimedReplicas`, which extends `SentinelStore`: a harness, the processes
it starts and the store they share. `PolicyQueue` is the order that `Broker`
leaves open, with the calls the engine makes to a policy.

### Correspondence with the code

* A Lua script is one action: Redis runs it atomically. Two Redis calls of one
  Go function are two actions, since anything may happen in between (in
  `admitBatch`: `CheckKnown`, `Admit` per entry, `AckBatch`).
* A lost reply is an action that takes effect in Redis and leaves the caller
  where a failed call leaves it (`ReadExecLost`, `ReadIngressLost`, the second
  disjunct of `Admit`, `GrantAbandoned`); or, because the Redis client is built
  with its default retries, the script runs once more (`SlotResends`).
* A payload is a retry count, the attempt ID is "task#retry". Stream IDs are
  positions. `pending` and `pendingAge` have the same members and are one set;
  a dispatch pops any members, since the order is the policies' affair.
* Time is abstracted: a lease may lapse, a delivery may exceed the visibility
  timeout, an ingress entry may be idle for long enough, at any moment.
* `pc` of `LeaderLease` is the position in `Campaign`/`serveTerm`; `why` collects
  the reasons for which a term ends (`lost`, a cancelled context, an error from
  lead, `fencedOut`).
* `batch[s][l]` of `SchedulerEngine` is the local state of `admitBatch` in the
  ingest or reclaim loop of replica `s`.
* In `SchedulerEngine` the policy state is the virtual clock of wfq; `Notify` moves
  it forward to some finish tag up to `MaxTag`. `MaxTag = 0` stands for a policy
  without state, whose flush writes nothing.
* `PolicyQueue` has the scores themselves; wfq tags count in units of `1/Scale`. The
  engine holds `polMu` for `Rank`, `Notify` and `State` alone, so each of its calls is
  two actions. `Rank` charges the tenant and puts the call into `ranked`; `Admit`,
  `AdmitRefused` (a duplicate) or `AdmitLost` ends it, in any order, and meanwhile the
  other loop ranks and the dispatch loop dispatches. `Dispatch` pops and `Notify` follows;
  `TakeState` reads the state and `SaveState` saves it. A dispatch pops any number
  of tasks up to `DispatchBatch`, since the in-flight cap may end the script's loop.
* `Restart` of `PolicyQueue` is a new term in another process. What the old term still
  does before the first write of the new one raises the fence does not depend on what the new one
  loaded: it is placed before the load. Only its last save matters on which
  side of the load it falls: `Restart` may leave it saved and not loaded.
* `clock`, `ahead` and `drift` of `PolicyQueue` are history variables of the properties: the
  largest tag dispatched, the service one tenant got more than another while both
  waited, and by how much the tags of each tenant may be off. Drift grows by the cost
  of a charged task whose call is lost, refused, overtaken by the tenant's next `Rank`,
  lands after a later one of the tenant, or is under way at a restart; by how far the clock
  has passed the start of the tag when the first pending task of a tenant lands; and by
  how far a restart moves the tenant's last tag.
* `DemoCluster`: what a handler does under the lock of a process is one action. `os`
  is the process table; an exited process is a zombie until the goroutine in
  `launch` has waited for it. A timer that has gone off waits in `firing` for the
  lock: that is where `p.fault != f` matters. A restart is a check and, after the lock
  was given up, a launch: restarts of one process overlap, and the launch that comes
  last decides which process `cmd` names. `Shutdown` gives up on handlers after 5 s and
  its error is ignored, so every request is possible until `Stop` has returned; `late`
  marks what was launched after `Stop` had signalled the process of that name.
* `FaultTrial`: `step` is the position in `runTrial`, `timer` its current wait,
  `defers` the deferred calls in the order they will run. `Return` is `return row,
  err`. The arms are the tables of the three programs; a cell of the benchmark's
  matrix is an arm without processes. `outage` is what `outageAround` reads from
  the dispatch record, kept up to date as dispatches happen instead of recomputed.
* Time in `FaultTrial` is discrete and passes only when nothing is due. One unit is
  0.7 s with the shipped defaults: the half period of the flapping arm, a seventh
  of the 5 s lease; a renewal interval is 2 units, the retry interval 1.

## 3. Runs

| Run | Instance | Question | Result |
| --- | --- | --- | --- |
| `queue` | 2 tasks under a cap of 1, mixed budgets, 2 slots, 1 recovery loop, 1 resend | no task lost, one outcome, exact in-flight counter, budgets, implements `TaskLifecycle`, every task terminates, the pending list drains | holds, 101,016 states |
| `lease` | 2 replicas, 3 terms | terms, fence, grants; implements `LeaderTerms`; a superseded leader stops, a free lease is taken | holds, 41,055 states |
| `engine_terms` | 2 replicas, 3 terms, 1 submission, stateful policy | no submission dropped; writes implement `LeaderTerms`; saved state never of an older term | holds, 730,647 states |
| `engine_batches` | 1 replica restarting; valid, invalid and unparseable entries | no submission dropped; stranded entries are settled | holds, 31,017 states |
| `policies` | 3 tasks of 2 tenants, all policies, 2 admit calls at once, 1 save, 1 fault | documented order; weighted share | holds, 4,298,795 states |
| `demo_cluster` | 1 scheduler, 3 launches besides the first, 2 restart handlers at once, 2 timed faults | disruptions of known processes are timed and end; the shutdown ends all it can find and returns unless a process is out of its reach | holds, 190,389 states |
| `fault_trials` | 14 arms, up to 3 schedulers and 3 Redis nodes | outage, elections, single writer, tokens, cleanup, termination | holds, 949,313 states |
| `queue_attempt_ids` | 1 task | attempt IDs are unique | violated, finding 1 |
| `queue_completion` | 1 task | a completion is recorded | violated, finding 2 |
| `lease_ready` | 2 replicas | a ready replica campaigns | violated, finding 3 |
| `engine_clock` | 2 replicas, stateful policy | the saved clock never goes back | violated, finding 4 |
| `trial_wait` | as `fault_trials` | a term begins on a replicated epoch | violated, finding 5 |

What the properties of the newer runs say:

* `DispatchesInOrder`: no dispatch takes a task while one its policy documents as
  earlier stays behind; the reference order is on the fields of the tasks, the
  model's on packed scores and padded members.
* `FairShare`: while two tenants wait, their service per weight differs by at most
  one task of each plus the drift of these two. Drift is 0 as long as no call of a tenant
  is lost, refused or overtaken, none lands after the clock has passed the start of its tag,
  and no term begins: then fairness is exact up to the granularity of a task. It does need the
  drift of late calls: without that term TLC finds the bound violated with no fault at all
  (by four tasks, two calls that overlap and a dispatch in between).
* `DisruptionIsTimed`, `DisruptionEnds`, `FaultRunsItsCourse`: the promise of
  `supervisor.go` that a freeze or partition ends by itself, under races of timer,
  clear, exit and shutdown.
* `StopReachesEveryProcess`, `StopCompletes`: what `Stop` does for the processes it
  can find, with restarts that overlap each other and the shutdown (see section 6
  for the others).
* `OutageWithinEnvelope`: the outage in the dispatch record is at most a lease and
  a retry, at least what the lease had left, and a retry after a graceful stop.
* `ElectionsAsExpected`, `OneWriterAfterReturn`: what the
  benches assert of each trial, for every phase of the fault against renewals.
* `TokenNamesOneTerm`: an epoch identifies one term for as long as the store knows
  it, also across a promotion. `led` counts the terms of each epoch and forgets the
  epochs above the counter of the promoted node: those died with the master and are
  given out again. The durability wait exists so that no term begins on such an
  epoch; finding 5 is that it does not ensure it, since `WAIT` goes out on any
  connection of the pool (`Connections`).
* `TrialLeavesNothing`, `TrialEnds`: order of the deferred calls, waits that give up
  by themselves.

Bounds. Two tasks are the smallest number for which the cap makes one wait for
the other; two slots and a claim of the same delivery are enough for every race on
one task, since scripts of different tasks share only the counters; a retry
budget of one reaches redelivery and dead-lettering. More slots, recovery loops and
resends are covered by the proofs, which hold for any number. Three terms are enough
for a leader to be superseded twice and to return; a term overlaps with at most one
write window at a time because the fence is a single number. Batches of two
entries have a first and a last one, and a page that ends makes the scan position
matter. Three tasks are two of one tenant, whose calls overtake each other,
and one of a heavier one, with equal submission times and priorities, a zero duration
and a missing deadline among them; two admit calls are the ingest and the reclaim loop;
one fault is a lost call or reply, a duplicate or a restart, which reads the one save or
nothing. Two timed faults are a
late timer and the fault it must not end; two restart handlers at once are the
overlap, and a third launch comes after it. The processes of the demo meet only in
the loops of `Stop`, which the theorems cover for any number of them. In
`fault_trials` the numbers are those of the benches in units of time, with the window
of a cut shortened to a lease and a retry; `MaxEpoch` 4 is an epoch for the first
leader, its successor, the promoted node and the last election, `MaxGap` 10 is above the envelope, `IdleLimit` is
longer than a failover as in the code. `MaxResends`, `MaxEpoch`, `MaxLog`,
`MaxSubmits`, `MaxTag`, `MaxCalls`, `MaxFlushes`, `MaxFaults`, `MaxPid`, `MaxFault`, `MaxRestarting` and `MaxGap` are bounds of
the model, named in the guards where they apply.

Deadlock is not checked in the engine runs, where nothing remains to be done once
the terms and submissions of the instance are used up, nor in the trials, which
end. Symmetry is used only in runs
without liveness properties.

Every property of a passing run has a mutant: a definition named `Defect...`
stands for a plausible mistake in the mapped code, and the property fails when it
replaces the original.

## 4. Fairness

* `TaskQueue`: the scheduler's dispatch loop, each slot and each recovery loop run
  again after their tick or blocking read (weak fairness); a worker settles or
  abandons what it executes; the idle time of an unacknowledged delivery exceeds
  the timeout in the end. Strong fairness only for a turn of recovery: passes may
  fail, not all of them.
* `LeaderLease`: the campaign retries, a term that ends unwinds, a grant nobody
  renews lapses. Crashes, restarts, cancellations and renewals may or may not
  happen.
* `SchedulerEngine`: the loops of a serving replica run (weak fairness); Redis
  calls of a loop do not fail for ever, and an entry that stays pending is in the
  end idle for long enough when a pass reaches it (strong fairness).
  `SubmissionsSettle` is claimed only for behaviours in which some replica serves
  from some moment on.
* `DemoCluster`: timers go off and their callbacks get the lock, `Wait` returns
  after an exit, a restart handler finishes, a `Stop` once begun runs on. No request
  has to arrive and no process has to react to SIGTERM.
* `FaultTrial`: the harness, the processes, replication and the clock go on (the
  benches only poll and sleep); neither the trial's time limit nor a repair by
  Sentinel has to happen, so `TrialEnds` holds without them.

## 5. Proofs

Constants are arbitrary, under the named assumptions of the modules, which TLC
evaluates for every instance:

* `BrokerAssumption` and its like in `TaskQueue`, `LeaderLease` and `SchedulerEngine`:
  finite set of tasks, natural budgets and bounds, batch sizes of at least one.
* `SupervisorAssumption`: finitely many processes, all of which can be launched.
* `StoreAssumption`, `ReplicaAssumption`, `TrialAssumption`: finitely many schedulers,
  durations are natural numbers, a renewal is due before its lease ends, the pause
  is longer than the lease, Sentinel takes some time to act, and the owner of the
  absent grant is no scheduler.
* `ScoreAssumption`: what `Validate` and the clock guarantee of a task, and distinct
  IDs; `WeightAssumption`: positive weights, which `wfq.New` enforces; `CostAssumption`:
  every task costs its tenant something, as a positive duration over a weight does.

The results and the invariants they need:

* `Broker_proofs`: `BrokerInv` is preserved by each script, for every caller and
  every delivery, including deliveries already acknowledged. `BrokerInv` is the
  conjunction of the safety invariants of `Broker` with what they need to be
  inductive: `PendingFresh`, a pending task still has its submitted payload (retry
  count 0), so its dispatch is its first delivery; and `DeliveredKnown`, a
  delivered task is stored or terminal, so a late report always finds it.
* `TaskQueue_proofs`: `Spec => []QueueInv`, where `QueueInv` adds that slots and
  recovery passes hold only delivered entries; from it type correctness,
  `NoTaskLost`, `InFlightExact`, `InFlightCapped`, `OneTerminalRecord`,
  `DispatchedOnce`, `AckedIsSettled`, `RetriesWithinBudget`, `CountersBalance`, the
  action property `OutcomeIsFinal`, and the refinement `ImplementsLifecycle`.
* `LeaderLease_proofs`: `Spec => []LeaseInv`. The log lies below the fence, and
  fence, terms and grant lie below the counter; so a fresh epoch is above
  everything, and an accepted write is above everything logged. From it
  type correctness, `EpochsNeverGoBackwards`, `TermsUnique`, `GrantIsNewest`,
  `HolderNeverFenced`, `GrantEndsProperly` and the refinement `ImplementsTerms`.
* `SchedulerEngine_proofs`: `Spec => []EngineInv`. `SubmissionsKept` alone is not
  inductive: an acknowledgement drops what the loop has collected, so `BatchesSound`
  says that everything in `acks` has been disposed of (its task is known, or it is no
  valid task) and that known tasks stay known, which is where `BrokerInv` and the
  lemmas on the scripts come in. `FirstAttempts` says that without retries every
  delivery is a first one, `SavedUnderFence` that the saved state is not newer than
  the fence. From it type correctness, `SubmissionsKept`, the invariants of the
  keyspace under several concurrent replicas, `SavedTermsNeverGoBack` and the
  refinement `ImplementsTerms`: with `LeaseImplementsTerms`, both sides of the contract
  between election and loops hold for every number of replicas.
* `DemoCluster_proofs`: `Spec => []DemoInv`. Timers are armed or firing and never
  share an identifier (`TimersDistinct`), so an old callback cannot be taken for a
  new one: from it `FaultRunsItsCourse`. A fault in progress has its timer and a cut
  its partition (`CutsAreTimed`). The supervisor finds a process only through `cmd`:
  `FreezesTimed` says that the current process of a name is stopped only under a
  freeze in progress (`DisruptionsAreTimed`), and `StopTells` follows the second and
  the third loop of `Stop` over the names they have passed, which a launch behind the
  loop does not undo since it is marked `late` (`StopReachesAll`). No theorem limits
  overlapping restarts.
* `FaultTrial_proofs`: `TrialInv` has the types and `LogsSorted`: on every node the
  record is in order and the fence past it, also on a replica that is promoted with
  an old record. From it `RecordNeverInverted`, the part of `OneWriterAfterReturn`
  that does not depend on time, for store trials too. `CleanupInv` follows the
  producer and the deferred calls; from it `TrialLeavesNothing`
  except after the three errors that `runTrial` of a leader trial can return while its
  producer submits (`EarlyError`). `TokenInv`: no epoch above the master's counter is
  granted or has identified a term, and no granted one has, so the next epoch given
  out is new (`TokenNamesOneTerm`). A promotion lowers the counter; no time passes
  while a replica's wait is on a broken connection, so every grant lost with the
  master has been handed back by then, and the epochs above the new counter are
  forgotten.
* `TrialTiming_proofs`: what the leader trials measure. A trial is in one of five
  situations: before the fault nobody has held the lease or the first leader holds it
  (`NoTermYet`, `FirstTerm`); after it the victim holds it, nobody does, or the
  successor does (`Held`, `Vacant`, `Taken`). Three layers rest on them:
  - `TermsInv`, the situations, needs no assumption on the intervals:
    `OneFaultOneElection`, a fault of the leader costs at most one term, for every
    number of processes.
  - `TimesInv` compares the timers. The victim's next renewal is a multiple of the
    renewal interval away from its last one, and the lease runs from that one, so it is
    decided who comes first: the expiry, the renewal, the end of the pause or of
    the cut. From it, if the intervals are `Timely`: `ElectionsAsExpected`,
    `OneWriterAfterReturn`, and `TrialLeavesNothing` without the exception above,
    since the three errors cannot occur.
  - `MeasureInv` adds the time without a dispatch (`gap`) to what the timers still
    have to run, before (`BeforeMeasure`), during (`OpenMeasure`) and after
    (`ClosedMeasure`) the outage: `OutageWithinEnvelope`, if the intervals are also
    `Measured`.

  `Timely`: two epochs fit the bound of the model, a renewal takes time, the pause lasts
  a lease and a retry, the observation after the return outlasts a renewal and a
  retry, and the renewals that a cut of half a lease can swallow leave one before the
  lease ends. `Measured`: the load goes on until the fault, and `waitForDrain` and the
  measurable gap outlast a lease and a retry. The shipped defaults satisfy both:
  `DefaultsAreTimely` in `MCFaultTrial`, which TLC evaluates. Flags can break
  them: `failoverbench` demands a pause longer than the lease, and the theorems a retry
  more, since a standby may have tried just before the lease ended.

  Time passes when no step of a process or of the harness is possible (`Quiet`), which
  is an `ENABLED` formula. The cases the proofs need are a second conjunct of it,
  `~FaultDue` and no process `Due`; it follows from the first, which TLC confirmed for
  every state of the `fault_trials` run.
* `PolicyQueue_proofs`: `Spec => DispatchesInOrder`. `OrderInv` says that a pending
  task has the score of its policy. Zero-padded numbers sort by their bytes as the
  numbers do (the first digit that differs decides), so members sort by submission
  time and ID; packed scores and members together are a strict linear order that
  contains the documented one; a batch is the initial segment of that order. The
  arithmetic needs induction, which is done with sets of numbers and the
  least-number principle (`SmallestNat`, `Induction`): the recursive function `Power` is
  shown to exist and to satisfy its equation.
* Also in `PolicyQueue_proofs`: `Spec => []FairShare`. The level of a tenant is its last tag
  less the work it has pending: an admission leaves it alone, a dispatch raises it
  by the cost of the task, so that `ahead` follows the difference of two levels
  (`Even`) and it is enough to keep both near `clock`, the largest tag dispatched.
  `NotAhead` bounds a level from above, `NotBehind` from below by one task; to keep
  them when a task leaves, `Reaches` and `Packed` say the same of what would remain
  after each pending tag. All four allow for two amounts that no variable of the
  code has and that the invariant `FairInv` quantifies over: a credit, from charges
  for nothing, and a debt, from late calls, a late clock or moved tags, which later tags that
  jump to the clock pay off; together they never exceed the drift of the tenant.

  While the last call of a tenant is under way, its last tag counts a task that is not
  pending. `FairInv` quantifies over a third function `g` (`Chained`): the tag before
  that call, from which the level is measured until the call lands, is overtaken or is
  lost. A call that is not the last of its tenant has a tag of at most `g`; admitted, it adds work
  below tags given earlier, at a debt of its cost (`TaggedLate`, `TaggedLateFirst`).
  `Apart` says that calls of a tenant have tags of their own, which takes `CostAssumption`.
  A batch is taken one task at a time, by induction over its length. Costs are summed
  along a listing of the tasks (`Work`), and `Total`, a recursive function, is shown
  to satisfy its equation (`TotalSums`). `MaxCalls`, `MaxFlushes` and `MaxFaults` are arbitrary.

`InFlightCapped`, `DispatchedOnce`, `CountersBalance` and `GrantIsNewest` are stated by
theorems only: no run repeats them (the cap and the single first delivery are also
part of `TaskLifecycle`, which the `queue` run checks).

Every invariant that a passing run checks is stated by a theorem. Only model-checked
is liveness, which with fairness and `ENABLED` is outside the prover's reach.

## 6. Findings

1. Attempt IDs are not unique. `retryScript` does not check that the delivery it
   replaces is still pending. A worker slower than the visibility timeout that
   reports a failure after recovery has retried its delivery publishes a second
   delivery with the same attempt ID (`domain/task.go:42` says it is unique).
2. A completion can go unrecorded. When recovery dead-letters the last attempt of
   a slow worker, its later completion is suppressed as a duplicate
   (`README.md:686` says it is recorded at least once).
3. A ready replica may never campaign again. One failed read in `restoreState` ends
   `Campaign` with an error, while the metrics server and recovery keep the process
   up and `Ready` true (`engine.go:109`).
4. The saved virtual clock can go back. A new leader loads the state before its
   first write has raised the fence; a last flush of its predecessor accepted in
   between is then overwritten by the older clock (`engine.go:175`,
   `README.md:2040`).

5. A term can begin on an epoch that no replica has. `awaitEpochDurable` sends
   `WAIT` on any connection of the pool that the recovery loop shares, and Redis
   answers for the writes of the connection it arrives on (`lease.go:279`). If the
   master dies before a replica has the epoch, the promoted node gives it out again.

Observations that have no run of their own:

* Two overlapping restart requests of one process both pass the state check, since
  `Apply` gives up the lock before `launch` (`supervisor.go:409`): the first process is
  known to nobody afterwards. It is not told to end, `Stop` waits for it for ever,
  against "terminates every process" (`supervisor.go:543`), and if it was frozen
  between the two launches, the undo resumes the other one and it stays stopped,
  against "always ends by itself" (`supervisor.go:46`). `StopReachesEveryProcess`
  without `Known(i)` in `InReach`, and `DisruptionEnds` without `Known(i)`, are
  violated in `demo_cluster`; the same goes for a process launched by a handler
  that outlives `Shutdown` after `Stop` has signalled (`late`).
* `Submitter.Start` (console `workload.go:115`) checks, unlocks, plans and only then
  sets its status: two submissions may run although it refuses one while another
  runs.
* The epoch watch of `storefaultbench` compares stored values: the same owner elected
  again with the same token after a rewind is not seen as a transition; grants
  handed back by the durability wait are recorded although they never led.
* When a trial returns an error while the producer runs, `Reset` runs before the
  cancel of the trial's context: what is submitted in between stays behind. In the
  runs no such error happens while the producer runs: only the time limit does,
  and it ends the producer first. `TrialsLeaveNothing` therefore excludes the three
  errors by name.
* The lease key is visible before the winner's gauge is set: a trial that scrapes in
  between fails with no leader (outcome `leaders`), which is a failed measurement
  and not a wrong one.
* `TTL()` is documented as an upper bound on the failover time; the bound that holds
  is a lease plus a retry interval.
* Tags of one tenant are not increasing across a restart that lost tags, and do not
  arrive in order when the ingest and the reclaim loop admit at the same time
  (`wfq.go:56`), hence the drift in `FairShare`.
* The deferred assignments of `WallSeconds` in the benches do not reach the returned
  row, which is not a named result.
* `Diff` of console `events.go` compares snapshots only when both could reach Redis:
  a change of leader during an outage of Redis is not reported.

## 7. How to run

    tlc -workers 2 -config MCTaskQueue.cfg MCTaskQueue
    tlapm LeaderLease_proofs.tla

and likewise for the other configurations and proof modules.

## 8. Not modelled, and the plan

Not modelled: configuration, metrics, workload generation, benchmark statistics and
CSV output, command-line flags (parsing, pure arithmetic or I/O); `schedbench`, a
single-threaded loop over one policy; `bench/asynq`, which drives another queue's
library; the console's server, telemetry and event stream and the web console,
which present what read-only queries return; the single connections and the
artificial delay of the fault proxy; trials discarded because the host slept;
stream trimming (`max_len` is 0 in the shipped configuration, and which entries an
approximate trim removes is Redis' choice).

Left for later: the hazard without a property in `PROJECT.json` (stream
trimming), and the proofs of the liveness
properties, should the prover come to support `ENABLED`.
