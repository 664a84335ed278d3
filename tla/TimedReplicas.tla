--------------------------- MODULE TimedReplicas ----------------------------
(***************************************************************************)
(* The scheduler processes of an experiment, in discrete time: each runs    *)
(* the campaign loop of internal/lease on its own timers and dispatches     *)
(* once per unit while it leads.  A process can be killed, stopped and      *)
(* continued, and its path to Redis can be cut (internal/netfault).  Module *)
(* LeaderLease has the same loop without time and in finer steps.           *)
(***************************************************************************)
EXTENDS SentinelStore

CONSTANTS
  Retry,       \* retry_interval of a standby
  WaitTimeout  \* wait_timeout of the epoch durability wait

ASSUME ReplicaAssumption == Retry \in Nat /\ WaitTimeout \in Nat

VARIABLES
  arm,      \* the condition of this trial, see FaultTrial
  proc,     \* the scheduler processes
  led,      \* how many terms each epoch the store still knows has identified
  backlog,  \* there are tasks to dispatch
  gap,      \* time since the last dispatch, until the outage is known
  outage,   \* the gap around the fault; NoFault, Open until a dispatch follows
  data      \* the namespace holds keys that Reset would delete

procVars == <<proc, led, backlog, gap, outage, data>>

NoFault == -2
Open == -1   \* the value recorded when no dispatch ever follows

Phases == {"standby", "granted", "leading", "dead"}

\* timer: time to the next attempt, renewal or WAIT timeout.
Process(offset) ==
  [phase |-> "standby", epoch |-> 0, timer |-> offset, due |-> FALSE,
   stopped |-> FALSE, path |-> "up"]

Put(p, r) == proc' = [proc EXCEPT ![p] = r]

Runs(p) == proc[p].phase # "dead" /\ ~proc[p].stopped

\* A connection through the proxy is served: neither refused nor closed.
Reaches(p) == proc[p].path = "up" /\ Reachable

\* Proxy.Cut closes every connection and refuses new ones, until Heal.
CutPath(p) == [proc[p] EXCEPT !.path = "cut"]

HealPath(p) == [proc[p] EXCEPT !.path = "up"]

\* Defect: a process that stands down keeps its epoch.
DefectStandby(p) ==
  [proc[p] EXCEPT !.phase = "standby", !.timer = Retry, !.due = FALSE]

Standby(p) ==
  [proc[p] EXCEPT !.phase = "standby", !.epoch = 0, !.timer = Retry, !.due = FALSE]

Holds(p) == Current.holder = [owner |-> p, epoch |-> proc[p].epoch]

\* Defect: the key is left to expire.
DefectReleased(p) == Current

\* releaseScript, if the call gets through.
Released(p) == IF Holds(p) THEN [Current EXCEPT !.holder = NoGrant, !.left = 0] ELSE Current

-----------------------------------------------------------------------------
(***************************************************************************)
(* The campaign.                                                            *)
(***************************************************************************)
\* Defect: the counter is set when it is missing and not incremented.
DefectNextEpoch == IF Current.counter = 0 THEN 1 ELSE Current.counter

\* INCR of the epoch counter in acquireScript.
NextEpoch == Current.counter + 1

\* acquireScript with the retry sleep that follows a refusal or an error.
Campaign(p) ==
  LET epoch == NextEpoch
      wins == Reaches(p) /\ Writable(arm.min) /\ Current.holder = NoGrant /\ epoch <= MaxEpoch
  IN
  /\ Runs(p) /\ proc[p].phase = "standby" /\ proc[p].timer = 0
  /\ \/ /\ wins
        /\ WriteCell([Current EXCEPT !.counter = epoch, !.left = arm.ttl,
                                     !.holder = [owner |-> p, epoch |-> epoch]])
        /\ Put(p, [proc[p] EXCEPT !.phase = "granted", !.epoch = epoch, !.timer = WaitTimeout])
        /\ data' = TRUE
     \/ /\ ~wins
        /\ Put(p, Standby(p))
        /\ UNCHANGED <<db, data>>
  /\ UNCHANGED <<master, alive, online, link, arm, led, backlog, gap, outage>>

\* The connections of the client's pool on which WAIT may go out: the one that
\* ran the script, or another that the engine or the recovery loop has used.
Connections == {"script", "other"}

\* The replicas that WAIT counts.  On the connection that ran the script, the
\* ones that have the epoch; on another, WAIT answers for that connection's own
\* earlier writes.
Confirming(p, conn) ==
  IF conn = "script" THEN {i \in online : db[i].counter >= proc[p].epoch} ELSE online

\* awaitEpochDurable succeeds, at once when no wait is configured; then
\* notify(true) sets the gauge and the term starts.
TermBegins(p) ==
  /\ Runs(p) /\ proc[p].phase = "granted"
  /\ \/ arm.wait = 0
     \/ /\ Reaches(p)
        /\ \E conn \in Connections : Cardinality(Confirming(p, conn)) >= arm.wait
  /\ Put(p, [proc[p] EXCEPT !.phase = "leading", !.timer = arm.renew, !.due = TRUE])
  /\ led' = [led EXCEPT ![proc[p].epoch] = @ + 1]
  /\ UNCHANGED <<storeVars, arm, backlog, gap, outage, data>>

\* Too few replicas confirmed in time, or the connection broke: the grant is
\* handed back, if that call gets through.
GrantHandedBack(p) ==
  /\ Runs(p) /\ proc[p].phase = "granted" /\ arm.wait > 0
  /\ proc[p].timer = 0 \/ ~Reaches(p)
  /\ IF Reaches(p) /\ Writable(arm.min) THEN WriteCell(Released(p)) ELSE UNCHANGED db
  /\ Put(p, Standby(p))
  /\ UNCHANGED <<master, alive, online, link, arm, led, backlog, gap, outage, data>>

-----------------------------------------------------------------------------
(***************************************************************************)
(* A term.                                                                  *)
(***************************************************************************)
\* Defect: a renewal that cannot reach Redis ends the term.
DefectRenew(p) ==
  /\ Runs(p) /\ proc[p].phase = "leading" /\ proc[p].timer = 0
  /\ IF Reaches(p) /\ Holds(p)
     THEN /\ WriteCell([Current EXCEPT !.left = arm.ttl])
          /\ Put(p, [proc[p] EXCEPT !.timer = arm.renew])
     ELSE Put(p, Standby(p)) /\ UNCHANGED db
  /\ UNCHANGED <<master, alive, online, link, arm, led, backlog, gap, outage, data>>

\* The renewal ticker: extended; lost, which ends the term; or no answer, "not
\* proof the grant is gone", and the next tick tries again.
Renew(p) ==
  /\ Runs(p) /\ proc[p].phase = "leading" /\ proc[p].timer = 0
  /\ IF Reaches(p) /\ Holds(p) /\ Writable(arm.min)
     THEN /\ WriteCell([Current EXCEPT !.left = arm.ttl])
          /\ Put(p, [proc[p] EXCEPT !.timer = arm.renew])
     ELSE /\ Put(p, IF Reaches(p) /\ Writable(arm.min)
                    THEN Standby(p) ELSE [proc[p] EXCEPT !.timer = arm.renew])
          /\ UNCHANGED db
  /\ UNCHANGED <<master, alive, online, link, arm, led, backlog, gap, outage, data>>

\* Defect: the fence is not consulted.
DefectRefused(p) == FALSE

\* fenceGuard.
Refused(p) == proc[p].epoch < Current.fence

\* Equal neighbours are kept once: only changes of epoch matter.
Stamp(log, epoch) == IF log # <<>> /\ log[Len(log)] = epoch THEN log ELSE Append(log, epoch)

\* The gap between the last dispatch before the fault and the first after it.
OutageAround == IF outage = Open THEN gap ELSE outage

\* One tick of dispatchLoop.  A refused pass ends the term and releases; one
\* that fails to reach Redis is tried again at the next tick.
DispatchPass(p) ==
  LET cell == [Current EXCEPT !.fence = proc[p].epoch,
                              !.log = IF backlog THEN Stamp(@, proc[p].epoch) ELSE @]
  IN
  /\ Runs(p) /\ proc[p].phase = "leading" /\ proc[p].due
  /\ \/ /\ Reaches(p) /\ Writable(arm.min) /\ ~Refused(p)
        /\ WriteCell(cell)
        /\ Put(p, [proc[p] EXCEPT !.due = FALSE])
        /\ backlog' = FALSE
        /\ gap' = IF backlog THEN 0 ELSE gap
        /\ outage' = IF backlog THEN OutageAround ELSE outage
        /\ data' = TRUE
     \/ /\ Reaches(p) /\ Writable(arm.min) /\ Refused(p)
        /\ WriteCell(Released(p))
        /\ Put(p, Standby(p))
        /\ UNCHANGED <<backlog, gap, outage, data>>
     \/ /\ ~(Reaches(p) /\ Writable(arm.min))
        /\ Put(p, [proc[p] EXCEPT !.due = FALSE])
        /\ UNCHANGED <<db, backlog, gap, outage, data>>
  /\ UNCHANGED <<master, alive, online, link, arm, led>>

ReplicaStep(p) ==
  \/ Campaign(p)
  \/ TermBegins(p)
  \/ GrantHandedBack(p)
  \/ Renew(p)
  \/ DispatchPass(p)
=============================================================================
