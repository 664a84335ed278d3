----------------------------- MODULE PolicyQueue -----------------------------
(***************************************************************************)
(* The ranking policies (internal/scheduler/{fifo,priority,edf,wfq}) and   *)
(* the pending set they order (policy.Queue in memory, the sorted set in   *)
(* Redis), driven as the loops of the engine drive them.  The policy is    *)
(* locked for Rank, Notify and State alone: between Rank and the admit     *)
(* script, Dispatch and Notify, State and its save, the other loops go on. *)
(* The four policies are checked together: a behaviour starts by choosing  *)
(* one of them, as the configuration does.                                 *)
(*                                                                         *)
(* Finish tags are floats in the code; here they are counted in units of   *)
(* 1/Scale, so that cost / weight is an integer.                           *)
(***************************************************************************)
EXTENDS Integers, FiniteSets, Sequences, Functions

CONSTANTS
  Task,            \* records [id, tenant, submitted, exec, priority, deadline]
  Weights,         \* weights configured for some of the tenants
  DefaultWeight,   \* the weight of the others
  Scale,           \* virtual time units per millisecond of cost
  MaxPriority,     \* 255 in the code
  BandWidth,       \* 1e13 in the code
  NoDeadlineScore, \* 1e15 in the code
  Base, Width,     \* 10 and 13 in the code: the zero padding of a member
  DispatchBatch,   \* tasks taken by one dispatch
  MaxCalls,        \* bound of the model: admit calls under way at a time
  MaxFlushes,      \* bound of the model: saves of the policy state
  MaxFaults        \* bound of the model: lost calls, duplicates, restarts

Tenant == {t.tenant : t \in Task}

\* policy.Names.
Names == {"fifo", "priority", "edf", "wfq"}

\* Base to the power of i.
Power[i \in Nat] == IF i = 0 THEN 1 ELSE Base * Power[i - 1]

(***************************************************************************)
(* What the packed scores rest on.  Validate bounds the priorities; the    *)
(* clock keeps submission times and deadlines below the two widths until   *)
(* the year 2286; a deadline of 0 is no deadline.  An ID stands for its    *)
(* place in the byte order of the IDs.                                     *)
(***************************************************************************)
ASSUME ScoreAssumption ==
  /\ IsFiniteSet(Task)
  /\ {MaxPriority, BandWidth, NoDeadlineScore, Base, Width} \subseteq Nat /\ Base > 1
  /\ \A t \in Task :
       /\ t.id \in Nat
       /\ t.priority \in 0..MaxPriority
       /\ t.submitted \in 1..(BandWidth - 1)
       /\ t.submitted < Power[Width]
       /\ t.deadline \in 0..(NoDeadlineScore - 1)
       /\ t.exec \in Nat
  /\ \A t, u \in Task : t.id = u.id => t = u

\* Options of wfq: New refuses a weight that is not positive.
ASSUME WeightAssumption ==
  /\ DefaultWeight \in Nat \ {0}
  /\ \A k \in DOMAIN Weights : Weights[k] \in Nat \ {0}
  /\ {Scale, DispatchBatch, MaxCalls, MaxFlushes, MaxFaults} \subseteq Nat

-----------------------------------------------------------------------------
(***************************************************************************)
(* Keys.  A member is the zero-padded submission time, then the ID; equal  *)
(* scores are ordered by the bytes of the member, first difference first.  *)
(***************************************************************************)
Digit(n, i) == (n \div Power[i]) % Base

MemberFor(t) ==
  LET len == CHOOSE l \in Width..(Width + t.submitted) :
               /\ t.submitted < Power[l]
               /\ l > Width => t.submitted >= Power[l - 1]
  IN  [i \in 1..len |-> Digit(t.submitted, len - i)] \o <<t.id>>

Member == [t \in Task |-> MemberFor(t)]

\* Byte order of two members, neither a prefix of the other.
MemberLess(a, b) ==
  \E i \in DOMAIN a \cap DOMAIN b :
    /\ a[i] < b[i]
    /\ \A j \in 1..(i - 1) : a[j] = b[j]

Less(k, l) ==
  \/ k.score < l.score
  \/ k.score = l.score /\ MemberLess(k.member, l.member)

-----------------------------------------------------------------------------
(***************************************************************************)
(* Scores of the stateless policies.                                       *)
(***************************************************************************)
FifoScore(t) == t.submitted

PriorityScore(t) == (MaxPriority - t.priority) * BandWidth + t.submitted

\* Defect: a task without a deadline is ranked by its zero.
DefectEdfScore(t) == t.deadline

EdfScore(t) == IF t.deadline = 0 THEN NoDeadlineScore ELSE t.deadline

\* Weighted fair queuing: what a task costs its tenant, in virtual time.
Weight(k) == IF k \in DOMAIN Weights THEN Weights[k] ELSE DefaultWeight

Cost(t) == ((IF t.exec = 0 THEN 1 ELSE t.exec) * Scale) \div Weight(t.tenant)

\* A positive number of milliseconds over a positive weight.
ASSUME CostAssumption == \A t \in Task : Cost(t) > 0

VARIABLES
  policy,       \* the configured policy
  virtualTime,  \* wfq: the virtual clock of the leader
  lastFinish,   \* wfq: tenant -> finish tag of its last ranked task
  ranked,       \* admit calls under way: records [task, tag]
  flushing,     \* the state a save under way carries, or NoState
  flushes,      \* saves begun so far
  saved,        \* the scheduler state hash: clock and finish tags, or NoState
  pending,      \* the sorted set: score of every pending task
  dispatched,   \* tasks popped so far
  unnotified,   \* scores of the batch whose Notify is still to come
  faults,       \* lost calls, duplicates and restarts so far
  \* What the properties measure:
  clock,        \* the largest finish tag dispatched
  ahead,        \* <<j, k>> -> service of j less service of k, per weight,
                \* since both have been backlogged
  drift         \* tenant -> how far its tags may be off: charges for nothing,
                \* calls that land late, tags changed by a restart

policyState == <<virtualTime, lastFinish>>
measures == <<clock, ahead, drift>>
vars == <<policy, virtualTime, lastFinish, ranked, flushing, flushes, saved,
          pending, dispatched, unnotified, faults, measures>>

NoState == [vtime |-> -1]

Pending == DOMAIN pending
Backlogged(k) == \E t \in Pending : t.tenant = k

\* admitScript: the task is stored, pending or in flight, or done.
Known(t) == t \in Pending \cup dispatched

MaxOf(a, b) == IF a < b THEN b ELSE a
Largest(S) == CHOOSE m \in S : \A n \in S : n <= m

\* Ordered pairs of tenants.
Pairs == {p \in Tenant \X Tenant : p[1] # p[2]}

Init ==
  /\ policy \in Names
  /\ virtualTime = 0
  /\ lastFinish = [k \in Tenant |-> 0]
  /\ ranked = {}
  /\ flushing = NoState
  /\ flushes = 0
  /\ saved = NoState
  /\ pending = [t \in {} |-> 0]
  /\ dispatched = {}
  /\ unnotified = {}
  /\ faults = 0
  /\ clock = 0
  /\ ahead = [p \in Pairs |-> 0]
  /\ drift = [k \in Tenant |-> 0]

-----------------------------------------------------------------------------
(***************************************************************************)
(* wfq.Rank.  The finish tag of a task, given the clock and the tags.      *)
(***************************************************************************)
Start(k) == MaxOf(virtualTime, lastFinish[k])

\* Defect: the cost is multiplied by the weight.
DefectFinish(t) == Start(t.tenant) + MaxOf(t.exec, 1) * Scale * Weight(t.tenant)

Finish(t) == Start(t.tenant) + Cost(t)

Score(t) == CASE policy = "fifo"     -> FifoScore(t)
              [] policy = "priority" -> PriorityScore(t)
              [] policy = "edf"      -> EdfScore(t)
              [] policy = "wfq"      -> Finish(t)

\* Rank charges the tenant whatever becomes of the admission.
Charge(t) ==
  /\ lastFinish' = IF policy = "wfq"
                     THEN [lastFinish EXCEPT ![t.tenant] = Finish(t)]
                     ELSE lastFinish
  /\ UNCHANGED virtualTime

\* Where the tag of a call starts, and whether it is its tenant's last one.
Begin(r) == r.tag - Cost(r.task)
IsLast(r) == policy = "wfq" /\ r.tag = lastFinish[r.task.tenant]

\* What a tenant has been charged for the last of its tasks, if that is not
\* admitted yet.
LastCharge(k) ==
  LET last == {r \in ranked : r.task.tenant = k /\ IsLast(r)}
  IN  IF last = {} THEN 0 ELSE Cost((CHOOSE r \in last : TRUE).task)

(***************************************************************************)
(* Engine.admitBatch up to the unlock: the ingest and the reclaim loop     *)
(* rank a task that the pre-check does not know; or that it missed, having *)
(* failed or being older than the other loop's admission.  A call of the   *)
(* tenant still under way is overtaken.                                    *)
(***************************************************************************)
Rank(t) ==
  /\ Cardinality(ranked) < MaxCalls
  /\ \/ ~Known(t) /\ UNCHANGED faults
     \/ Known(t) /\ faults < MaxFaults /\ faults' = faults + 1
  /\ Charge(t)
  /\ ranked' = ranked \cup {[task |-> t, tag |-> Score(t)]}
  /\ drift' = [drift EXCEPT ![t.tenant] = @ + LastCharge(t.tenant)]
  /\ UNCHANGED <<policy, flushing, flushes, saved, pending, dispatched, unnotified, clock, ahead>>

\* How far a call that lands is behind: the first task of a tenant behind
\* the clock, another one behind the tenant's own tags.
Lateness(r) ==
  LET k == r.task.tenant IN
  IF policy = "wfq" /\ ~Backlogged(k) THEN MaxOf(clock - Begin(r), 0)
  ELSE IF policy = "wfq" /\ ~IsLast(r) THEN Cost(r.task)
  ELSE 0

\* admitScript, the task being new.
Admit(r) ==
  LET t == r.task IN
  /\ ~Known(t)
  /\ ranked' = ranked \ {r}
  /\ pending' = [u \in Pending \cup {t} |-> IF u = t THEN r.tag ELSE pending[u]]
  /\ ahead' = [p \in Pairs |->
                 IF ~Backlogged(t.tenant) /\ t.tenant \in Range(p)
                   THEN 0 ELSE ahead[p]]
  /\ drift' = [drift EXCEPT ![t.tenant] = @ + Lateness(r)]
  /\ UNCHANGED <<policy, policyState, flushing, flushes, saved, dispatched, unnotified, faults, clock>>

\* The call adds nothing; the charge stays.
Wasted(r) ==
  /\ ranked' = ranked \ {r}
  /\ drift' = [drift EXCEPT ![r.task.tenant] = @ + (IF IsLast(r) THEN Cost(r.task) ELSE 0)]
  /\ UNCHANGED <<policy, policyState, flushing, flushes, saved, pending, dispatched, unnotified, clock, ahead>>

\* admitScript, the task being a duplicate.
AdmitRefused(r) ==
  /\ Known(r.task)
  /\ Wasted(r)
  /\ UNCHANGED faults

\* The call never reaches Redis: a reclaim pass will rank the task again.
AdmitLost(r) ==
  /\ faults < MaxFaults
  /\ Wasted(r)
  /\ faults' = faults + 1

-----------------------------------------------------------------------------
(***************************************************************************)
(* dispatchScript: pop the smallest keys (Queue.Next pops one of them).    *)
(***************************************************************************)
KeyOf(t) == [score |-> pending[t], member |-> Member[t]]

Precedes(t, u) == Less(KeyOf(t), KeyOf(u))

\* The position of a task in the sorted set, counted from 0.
ZRank(t) == Cardinality({u \in Pending : Precedes(u, t)})

\* How many tasks a call can pop; the in-flight cap may cut it short anywhere.
BatchSizes == 1..(IF DispatchBatch < Cardinality(Pending) THEN DispatchBatch ELSE Cardinality(Pending))

Batch(n) == [i \in 1..n |-> CHOOSE t \in Pending : ZRank(t) = i - 1]

\* What is still pending when the batch pops its task i.
Left(batch, i) == Pending \ {batch[j] : j \in 1..(i - 1)}

\* Service counted for both tenants of a pair while both wait for some.
Service(left, t, p) ==
  IF \A k \in Range(p) : \E u \in left : u.tenant = k
    THEN CASE t.tenant = p[1] -> Cost(t)
           [] t.tenant = p[2] -> 0 - Cost(t)
           [] OTHER           -> 0
    ELSE 0

Total(f, n) ==
  LET sum[i \in 0..n] == IF i = 0 THEN 0 ELSE sum[i - 1] + f[i]
  IN  sum[n]

Served(batch, p) ==
  Total([i \in DOMAIN batch |-> Service(Left(batch, i), batch[i], p)], Len(batch))

Popped(batch) ==
  LET gone == Range(batch) IN
  /\ pending' = [t \in Pending \ gone |-> pending[t]]
  /\ dispatched' = dispatched \cup gone
  /\ IF policy = "wfq"
       THEN /\ ahead' = [p \in Pairs |-> ahead[p] + Served(batch, p)]
            /\ clock' = Largest({clock} \cup {pending[t] : t \in gone})
       ELSE UNCHANGED <<ahead, clock>>
  /\ UNCHANGED <<policy, policyState, ranked, flushing, flushes, saved, drift>>

\* dispatchLoop: it notifies the policy of the batch before it goes on.
Dispatch ==
  /\ unnotified = {}
  /\ \E n \in BatchSizes :
       /\ Popped(Batch(n))
       /\ unnotified' = {pending[t] : t \in Range(Batch(n))}
  /\ UNCHANGED faults

\* The batch is dispatched and its reply lost: the policy never hears of it.
DispatchLost ==
  /\ faults < MaxFaults
  /\ unnotified = {}
  /\ \E n \in BatchSizes : Popped(Batch(n))
  /\ faults' = faults + 1
  /\ UNCHANGED unnotified

Notified == Largest(unnotified \cup {virtualTime})

Notify ==
  /\ unnotified # {}
  /\ virtualTime' = IF policy = "wfq" THEN Notified ELSE virtualTime
  /\ unnotified' = {}
  /\ UNCHANGED <<policy, lastFinish, ranked, flushing, flushes, saved, pending, dispatched,
                 faults, measures>>

-----------------------------------------------------------------------------
(***************************************************************************)
(* flushState: State under the lock, then the save script.  Only a restart *)
(* reads what was saved: where none may follow, the model saves no more.   *)
(***************************************************************************)
State == [vtime |-> virtualTime, finish |-> lastFinish]

TakeState ==
  /\ policy = "wfq"
  /\ flushes < MaxFlushes /\ faults < MaxFaults
  /\ flushing = NoState
  /\ flushing' = State
  /\ flushes' = flushes + 1
  /\ UNCHANGED <<policy, policyState, ranked, saved, pending, dispatched, unnotified,
                 faults, measures>>

SaveState ==
  /\ flushing # NoState
  /\ saved' = flushing
  /\ flushing' = NoState
  /\ UNCHANGED <<policy, policyState, ranked, flushes, pending, dispatched, unnotified,
                 faults, measures>>

Restored == IF saved = NoState
              THEN [vtime |-> 0, finish |-> [k \in Tenant |-> 0]]
              ELSE saved

Distance(a, b) == IF a < b THEN b - a ELSE a - b

(***************************************************************************)
(* Another term begins in another process, with the state that it loads.   *)
(* Nothing of the old term lands once the new one has written, so what     *)
(* lands at all lands before the load or, the save under way, right after. *)
(***************************************************************************)
Restart ==
  /\ faults < MaxFaults
  /\ faults' = faults + 1
  /\ virtualTime' = Restored.vtime
  /\ lastFinish' = Restored.finish
  /\ drift' = [k \in Tenant |->
                 drift[k] + LastCharge(k)
                   + (IF policy = "wfq" THEN Distance(lastFinish[k], Restored.finish[k]) ELSE 0)]
  /\ saved' \in {saved} \cup ({flushing} \ {NoState})
  /\ ranked' = {}
  /\ flushing' = NoState
  /\ unnotified' = {}
  /\ UNCHANGED <<policy, flushes, pending, dispatched, clock, ahead>>

Finished == /\ dispatched = Task /\ ranked = {}
            /\ UNCHANGED vars

Next ==
  \/ \E t \in Task : Rank(t)
  \/ \E r \in ranked : Admit(r) \/ AdmitRefused(r) \/ AdmitLost(r)
  \/ Dispatch \/ DispatchLost \/ Notify
  \/ TakeState \/ SaveState \/ Restart
  \/ Finished

Spec == Init /\ [][Next]_vars

-----------------------------------------------------------------------------
(***************************************************************************)
(* The order each stateless policy documents, on the fields of the tasks   *)
(* and not on the packed scores; ties by submission time, then by ID.      *)
(***************************************************************************)
Earlier(t, u) == \/ t.submitted < u.submitted
                 \/ t.submitted = u.submitted /\ t.id < u.id

DueBefore(t, u) ==
  \/ t.deadline # 0 /\ u.deadline = 0
  \/ t.deadline # 0 /\ u.deadline # 0 /\ t.deadline < u.deadline
  \/ t.deadline = u.deadline /\ Earlier(t, u)

Outranks(t, u) == \/ t.priority > u.priority
                  \/ t.priority = u.priority /\ Earlier(t, u)

Rightful(t, u) == CASE policy = "fifo"     -> Earlier(t, u)
                    [] policy = "edf"      -> DueBefore(t, u)
                    [] policy = "priority" -> Outranks(t, u)
                    [] policy = "wfq"      -> pending[t] <= pending[u]

(***************************************************************************)
(* A dispatch takes no task while another that its policy puts first stays *)
(* behind: the packed scores and padded members sort as the documented     *)
(* order of the fields does (priority.go, edf.go, policy.go).              *)
(***************************************************************************)
DispatchesInOrder ==
  [][\A t \in dispatched' \ dispatched, u \in Pending \cap DOMAIN pending' :
       Rightful(t, u)]_vars

(***************************************************************************)
(* Weighted fairness, the reason wfq exists (wfq.go).  While two tenants   *)
(* both wait, the service they get per weight differs by at most one task  *)
(* of each, plus their own drift: what they were charged for calls that    *)
(* were lost, refused or overtaken, how late their calls landed, how far a *)
(* restart moved their tags.                                               *)
(***************************************************************************)
LargestCost(k) == Largest({Cost(t) : t \in {u \in Task : u.tenant = k}})

FairShare ==
  policy = "wfq" =>
    \A p \in Pairs :
      ahead[p] <= LargestCost(p[1]) + LargestCost(p[2]) + drift[p[1]] + drift[p[2]]

=============================================================================
