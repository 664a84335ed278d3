----------------------------- MODULE DemoCluster -----------------------------
(***************************************************************************)
(* The supervisor of the live console (internal/console/supervisor.go): it *)
(* starts schedulers and workers, injects timed faults on request, notices *)
(* exits and takes the cluster down.  Requests arrive concurrently; what a *)
(* handler does while it holds the lock of a process is one action.  The   *)
(* server's Shutdown gives up on handlers after a while, so that requests  *)
(* can still be at work while Stop runs.                                   *)
(***************************************************************************)
EXTENDS Naturals, FiniteSets, Sequences

CONSTANTS
  Proc,             \* supervised processes
  Schedulers,       \* those reached through a proxy, with a lease to release
  MaxPid,           \* bound of the model: processes launched in all
  MaxFault,         \* bound of the model: timed faults injected
  MaxRestarting     \* bound of the model: restart requests of one process at once

ASSUME SupervisorAssumption ==
  /\ IsFiniteSet(Proc)
  /\ Schedulers \subseteq Proc
  /\ MaxRestarting \in Nat
  /\ MaxPid \in Nat /\ Cardinality(Proc) <= MaxPid
  /\ MaxFault \in Nat

VARIABLES
  cmd,        \* process -> its pid: the last one launched
  state,      \* process -> "running", "stopped" or "exited", as reported
  fault,      \* process -> the timed fault in progress, or NoFault
  cut,        \* schedulers whose proxy is cut
  timers,     \* faults whose timer is armed
  firing,     \* faults whose timer has gone off and waits for the lock
  restarting, \* process -> restart handlers between the check and the launch
  armed,      \* number of timed faults injected
  os,         \* the process table: pid -> [proc, run, term, late]
  phase,      \* progress of Stop
  todo        \* processes the current loop of Stop has still to visit

vars == <<cmd, state, fault, cut, timers, firing, restarting, armed, os, phase, todo>>
requests == <<restarting, armed, phase, todo>>

NoFault == [id |-> 0]

Fault == [id : 1..MaxFault, proc : Proc, action : {"freeze", "partition"}]

\* "zombie": the process has exited, its Wait goroutine has not run yet.
Runs == {"running", "stopped", "zombie", "reaped"}

Phases == {"serving", "clearing", "signalling", "waiting", "closing", "closed"}

Pids == 1..Len(os)
Frozen(i) == i \in Pids /\ os[i].run = "stopped"
Alive(i) == os[i].run \in {"running", "stopped"}

\* Every process has a current pid, which is gone if it is reported as exited,
\* a fault belongs to its process, and only schedulers, behind a proxy, are cut.
TypeOK ==
  /\ os \in Seq([proc : Proc, run : Runs, term : BOOLEAN, late : BOOLEAN])
  /\ Len(os) <= MaxPid
  /\ cmd \in [Proc -> Pids]
  /\ state \in [Proc -> {"running", "stopped", "exited"}]
  /\ \A p \in Proc : state[p] = "exited" => os[cmd[p]].run = "reaped"
  /\ fault \in [Proc -> {NoFault} \cup Fault]
  /\ \A p \in Proc : fault[p] # NoFault => fault[p].proc = p
  /\ cut \subseteq Schedulers
  /\ timers \subseteq Fault /\ firing \subseteq Fault
  /\ restarting \in [Proc -> 0..MaxRestarting]
  /\ armed \in 0..MaxFault
  /\ phase \in Phases /\ todo \subseteq Proc

\* The processes in the order NewSupervisor lists them.
Listed == CHOOSE order \in [1..Cardinality(Proc) -> Proc] :
            \A p \in Proc : \E i \in DOMAIN order : order[i] = p

\* Start has launched every process.
Init ==
  /\ os = [i \in DOMAIN Listed |->
             [proc |-> Listed[i], run |-> "running", term |-> FALSE, late |-> FALSE]]
  /\ cmd = [p \in Proc |-> CHOOSE i \in DOMAIN Listed : Listed[i] = p]
  /\ state = [p \in Proc |-> "running"]
  /\ fault = [p \in Proc |-> NoFault]
  /\ cut = {} /\ timers = {} /\ firing = {}
  /\ restarting = [p \in Proc |-> 0]
  /\ armed = 0
  /\ phase = "serving"
  /\ todo = {}

-----------------------------------------------------------------------------
(***************************************************************************)
(* Signals, as the kernel delivers them.                                   *)
(***************************************************************************)
Signalled(i, run) == [os EXCEPT ![i].run = IF Alive(i) THEN run ELSE @]

Terminated(i) == [os EXCEPT ![i].term = Alive(i) \/ @]

Resumed(i) == [os EXCEPT ![i].run = IF @ = "stopped" THEN "running" ELSE @]

\* Apply accepts a fault on a running process that has none in progress.
MayFault(p) ==
  /\ phase # "closed"
  /\ state[p] = "running"
  /\ fault[p] = NoFault

\* Signal returns an error once Wait has reaped the process.
Signallable(p) == os[cmd[p]].run # "reaped"

Kill(p) ==
  /\ MayFault(p)
  /\ Signallable(p)
  /\ os' = Signalled(cmd[p], "zombie")
  /\ UNCHANGED <<cmd, state, fault, cut, timers, firing, requests>>

Terminate(p) ==
  /\ p \in Schedulers
  /\ MayFault(p)
  /\ Signallable(p)
  /\ os' = Terminated(cmd[p])
  /\ UNCHANGED <<cmd, state, fault, cut, timers, firing, requests>>

\* armLocked: record the fault and start its timer.
Arm(p, action) ==
  LET f == [id |-> armed + 1, proc |-> p, action |-> action] IN
  /\ armed < MaxFault
  /\ armed' = armed + 1
  /\ fault' = [fault EXCEPT ![p] = f]
  /\ timers' = timers \cup {f}
  /\ UNCHANGED firing

\* The stop is reported only once ps has shown it; ps may be late or absent.
Freeze(p) ==
  /\ MayFault(p)
  /\ Signallable(p)
  /\ os' = Signalled(cmd[p], "stopped")
  /\ state' \in IF Alive(cmd[p]) THEN {state, [state EXCEPT ![p] = "stopped"]}
                                 ELSE {state}
  /\ Arm(p, "freeze")
  /\ UNCHANGED <<cmd, cut, restarting, phase, todo>>

Partition(p) ==
  /\ p \in Schedulers
  /\ MayFault(p)
  /\ cut' = cut \cup {p}
  /\ Arm(p, "partition")
  /\ UNCHANGED <<cmd, state, restarting, os, phase, todo>>

\* Restart looks at the state, gives up the lock, and launches.
RestartCheck(p) ==
  /\ phase # "closed"
  /\ state[p] = "exited"
  /\ restarting[p] < MaxRestarting
  /\ restarting' = [restarting EXCEPT ![p] = @ + 1]
  /\ UNCHANGED <<cmd, state, fault, cut, timers, firing, armed, os, phase, todo>>

\* Stop has signalled the process of that name already.
Passed(p) == phase \in {"waiting", "closing"} \/ (phase = "signalling" /\ p \notin todo)

Launch(p) ==
  /\ phase # "closed"
  /\ restarting[p] > 0
  /\ restarting' = [restarting EXCEPT ![p] = @ - 1]
  /\ \/ /\ Len(os) < MaxPid
        /\ os' = Append(os, [proc |-> p, run |-> "running", term |-> FALSE, late |-> Passed(p)])
        /\ cmd' = [cmd EXCEPT ![p] = Len(os) + 1]
        /\ state' = [state EXCEPT ![p] = "running"]
     \/ UNCHANGED <<os, cmd, state>>   \* the launch failed
  /\ UNCHANGED <<fault, cut, timers, firing, armed, phase, todo>>

-----------------------------------------------------------------------------
(***************************************************************************)
(* The end of a timed fault: by its timer, by a request, by an exit.  The  *)
(* undo of a freeze resumes whatever process is current then.              *)
(***************************************************************************)
\* Defect: the undo does nothing.
DefectUndo(p, table, states) ==
  /\ os' = table /\ state' = states /\ UNCHANGED cut

Undo(p, table, states) ==
  IF fault[p].action = "freeze"
    THEN /\ os' = [table EXCEPT ![cmd[p]].run = IF @ = "stopped" THEN "running" ELSE @]
         /\ state' = [states EXCEPT ![p] = IF @ = "stopped" THEN "running" ELSE @]
         /\ UNCHANGED cut
    ELSE /\ cut' = cut \ {p}
         /\ os' = table
         /\ state' = states

\* clearFaultLocked.  A timer that has gone off can no longer be stopped.
ClearFault(p, table, states) ==
  IF fault[p] = NoFault
    THEN /\ os' = table /\ state' = states
         /\ UNCHANGED <<fault, cut, timers>>
    ELSE /\ Undo(p, table, states)
         /\ fault' = [fault EXCEPT ![p] = NoFault]
         /\ timers' = timers \ {fault[p]}

TimerGoesOff(f) ==
  /\ f \in timers
  /\ timers' = timers \ {f}
  /\ firing' = firing \cup {f}
  /\ UNCHANGED <<cmd, state, fault, cut, requests, os>>

\* Defect: the callback ends whatever fault is in progress.
DefectIsCurrent(f) == fault[f.proc] # NoFault

\* The callback ends the fault only if it is still the one it was armed for.
IsCurrent(f) == fault[f.proc] = f

TimerCallback(f) ==
  /\ f \in firing
  /\ firing' = firing \ {f}
  /\ IF IsCurrent(f)
       THEN /\ Undo(f.proc, os, state)
            /\ fault' = [fault EXCEPT ![f.proc] = NoFault]
       ELSE UNCHANGED <<os, state, cut, fault>>
  /\ UNCHANGED <<cmd, timers, requests>>

\* ClearAll takes the locks one after the other.
Clear(p) ==
  /\ phase # "closed"
  /\ fault[p] # NoFault
  /\ ClearFault(p, os, state)
  /\ UNCHANGED <<cmd, firing, requests>>

-----------------------------------------------------------------------------
(***************************************************************************)
(* Exits.  A process may crash; a terminated one ends by itself.           *)
(***************************************************************************)
Exit(i) ==
  /\ os[i].run = "running"
  /\ os' = Signalled(i, "zombie")
  /\ UNCHANGED <<cmd, state, fault, cut, timers, firing, requests>>

\* Defect: an exit forgets the fault without undoing it.
DefectReap(i) ==
  LET p == os[i].proc
      reaped == [os EXCEPT ![i].run = "reaped"]
  IN  /\ os[i].run = "zombie"
      /\ os' = reaped
      /\ state' = [state EXCEPT ![p] = "exited"]
      /\ fault' = [fault EXCEPT ![p] = NoFault]
      /\ timers' = timers \ {fault[p]}
      /\ UNCHANGED <<cut, cmd, firing, requests>>

\* Defect: an exit is reported although the process has been replaced.
DefectReapReplaced(i) ==
  LET p == os[i].proc
  IN  /\ os[i].run = "zombie"
      /\ ClearFault(p, [os EXCEPT ![i].run = "reaped"], [state EXCEPT ![p] = "exited"])
      /\ UNCHANGED <<cmd, firing, requests>>

\* The goroutine that waits for the process.
Reap(i) ==
  LET p == os[i].proc
      reaped == [os EXCEPT ![i].run = "reaped"]
  IN  /\ os[i].run = "zombie"
      /\ IF cmd[p] = i
           THEN ClearFault(p, reaped, [state EXCEPT ![p] = "exited"])
           ELSE os' = reaped /\ UNCHANGED <<state, fault, cut, timers>>
      /\ UNCHANGED <<cmd, firing, requests>>

-----------------------------------------------------------------------------
(***************************************************************************)
(* Stop, once the HTTP server has shut down or has waited long enough for  *)
(* its handlers: three passes over the processes, then the proxies are     *)
(* closed and the goroutines awaited.                                      *)
(***************************************************************************)
NextPhase == CASE phase = "clearing"   -> "signalling"
               [] phase = "signalling" -> "waiting"
               [] phase = "waiting"    -> "closing"

Visited(p) ==
  /\ p \in todo
  /\ todo' = IF todo = {p} /\ phase # "waiting" THEN Proc ELSE todo \ {p}
  /\ phase' = IF todo = {p} THEN NextPhase ELSE phase
  /\ UNCHANGED <<cmd, firing, restarting, armed>>

BeginStop ==
  /\ phase = "serving"
  /\ phase' = "clearing"
  /\ todo' = Proc
  /\ UNCHANGED <<cmd, state, fault, cut, timers, firing, restarting, armed, os>>

StopClears(p) ==
  /\ phase = "clearing"
  /\ Visited(p)
  /\ ClearFault(p, os, state)

\* Defect: only the processes reported as running are told to end.
DefectStopSignals(p) ==
  /\ phase = "signalling"
  /\ Visited(p)
  /\ os' = IF state[p] # "running" THEN os
           ELSE [Resumed(cmd[p]) EXCEPT ![cmd[p]].term = Alive(cmd[p]) \/ @]
  /\ UNCHANGED <<state, fault, cut, timers>>

StopSignals(p) ==
  /\ phase = "signalling"
  /\ Visited(p)
  /\ os' = IF state[p] = "exited" THEN os
           ELSE [Resumed(cmd[p]) EXCEPT ![cmd[p]].term = Alive(cmd[p]) \/ @]
  /\ UNCHANGED <<state, fault, cut, timers>>

\* Defect: no deadline, no SIGKILL.
DefectStopWaits(p) ==
  /\ phase = "waiting"
  /\ Visited(p)
  /\ state[p] = "exited"
  /\ UNCHANGED <<os, state, fault, cut, timers>>

StopWaits(p) ==
  /\ phase = "waiting"
  /\ Visited(p)
  /\ \/ state[p] = "exited" /\ UNCHANGED os
     \/ state[p] # "exited" /\ os' = Signalled(cmd[p], "zombie")  \* the deadline
  /\ UNCHANGED <<state, fault, cut, timers>>

\* The proxies are closed, and wg.Wait returns: every Wait goroutine is done.
StopReturns ==
  /\ phase = "closing"
  /\ \A i \in Pids : os[i].run = "reaped"
  /\ phase' = "closed"
  /\ UNCHANGED <<cmd, state, fault, cut, timers, firing, restarting, armed, os, todo>>

Closed == phase = "closed" /\ UNCHANGED vars

-----------------------------------------------------------------------------
Request(p) == \/ Kill(p) \/ Terminate(p) \/ Freeze(p) \/ Partition(p)
              \/ RestartCheck(p) \/ Clear(p)

Stopping == \/ \E p \in Proc : StopClears(p) \/ StopSignals(p) \/ StopWaits(p)
            \/ StopReturns

Timers == \E f \in timers \cup firing : TimerGoesOff(f) \/ TimerCallback(f)

Next ==
  \/ \E p \in Proc : Request(p) \/ Launch(p)
  \/ Timers
  \/ \E i \in Pids : Exit(i) \/ Reap(i)
  \/ BeginStop \/ Stopping
  \/ Closed

Spec == Init /\ [][Next]_vars

(***************************************************************************)
(* Timers go off and callbacks get the lock; Wait returns after an exit; a *)
(* handler finishes; Stop, once begun, runs on.  Nobody has to ask for     *)
(* anything, and a process need not react to SIGTERM.                      *)
(***************************************************************************)
Fairness ==
  /\ WF_vars(Timers)
  /\ WF_vars(\E i \in Pids : Reap(i))
  /\ WF_vars(\E p \in Proc : Launch(p))
  /\ WF_vars(Stopping)

FairSpec == Spec /\ Fairness

-----------------------------------------------------------------------------
\* The process that the supervisor has for a name.  Two restart requests that
\* overlap launch two, and the first one is not known to anybody any more.
Known(i) == cmd[os[i].proc] = i

(***************************************************************************)
(* "A freeze or partition always ends by itself" (supervisor.go): a link   *)
(* is cut, a process that the supervisor knows is stopped, only under a    *)
(* fault in progress on it, whose timer is armed or has gone off.  However *)
(* launches overlap, no process inherits a stop or a cut without a timer.  *)
(***************************************************************************)
DisruptionIsTimed ==
  /\ \A p \in Proc : fault[p] # NoFault => fault[p] \in timers \cup firing
  /\ \A p \in cut : fault[p] # NoFault /\ fault[p].action = "partition"
  /\ \A p \in Proc : Frozen(cmd[p]) => fault[p] # NoFault /\ fault[p].action = "freeze"

(***************************************************************************)
(* ... and it does end, whatever requests, launches, exits and a shutdown  *)
(* do in the meantime (armLocked, clearFaultLocked): for a process until   *)
(* an overlapping restart replaces it, for a link in any case.             *)
(***************************************************************************)
DisruptionEnds ==
  /\ \A p \in Schedulers : p \in cut ~> p \notin cut
  /\ \A i \in 1..MaxPid : Frozen(i) /\ Known(i) ~> ~Frozen(i) \/ ~Known(i)

(***************************************************************************)
(* A timed fault is not cut short by the timer of an earlier one: a fault  *)
(* in progress is dropped only when its own timer is no longer armed.      *)
(***************************************************************************)
FaultRunsItsCourse ==
  [][\A p \in Proc : fault[p] # NoFault /\ fault'[p] # fault[p]
       => fault[p] \notin timers']_vars

\* What Stop has to answer for: the processes it could find when it signalled.
InReach(i) == Known(i) /\ ~os[i].late

(***************************************************************************)
(* "Stop ends faults, terminates every process (SIGKILL after a grace      *)
(* period)", as far as it can know of them: before it waits, every such    *)
(* process has been told to end, and before it closes the proxies, none    *)
(* lives, although requests go on freezing, killing and launching.         *)
(***************************************************************************)
StopReachesEveryProcess ==
  /\ phase \in {"waiting", "closing", "closed"} =>
       \A i \in Pids : Alive(i) /\ InReach(i) => os[i].term
  /\ phase \in {"closing", "closed"} =>
       \A i \in Pids : InReach(i) => ~Alive(i)

(***************************************************************************)
(* Stop returns, even if processes ignore SIGTERM and requests are still   *)
(* at work: all it can wait for in vain is a process out of its reach, one *)
(* that an overlapping launch replaced or that was launched behind it.     *)
(***************************************************************************)
StopCompletes ==
  <>[](\A i \in Pids : Alive(i) => InReach(i)) => (phase = "clearing" ~> phase = "closed")

=============================================================================
