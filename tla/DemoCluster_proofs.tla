------------------------- MODULE DemoCluster_proofs -------------------------
(***************************************************************************)
(* Proofs about module DemoCluster, for every set of processes and every    *)
(* number of launches and faults: its types, that cuts and freezes end with *)
(* their timer, that an older timer ends no newer fault, and that Stop      *)
(* reaches every process that it can find.  Nothing is assumed of the       *)
(* requests: restarts of one process may overlap, so that a process can be  *)
(* replaced while it runs, and handlers may still be at work during Stop.   *)
(***************************************************************************)
EXTENDS DemoCluster, FunctionTheorems, FiniteSetTheorems, SequenceTheorems, TLAPS

Row == [proc : Proc, run : Runs, term : BOOLEAN, late : BOOLEAN]

-----------------------------------------------------------------------------
(***************************************************************************)
(* The inductive invariant.                                                 *)
(***************************************************************************)
\* A timer is armed or has gone off, not both, and identifiers are not reused.
TimersDistinct ==
  /\ timers \cap firing = {}
  /\ \A f \in timers \cup firing : f.id <= armed

\* A fault in progress has its timer armed or waiting for the lock.
FaultsTimed == \A p \in Proc : fault[p] # NoFault => fault[p] \in timers \cup firing

\* A link is cut only under a partition in progress.
CutsTimed == \A p \in cut : fault[p] # NoFault /\ fault[p].action = "partition"

\* The current process of a name has that name, and an exit that is reported
\* has happened.
CurrentKnown ==
  \A p \in Proc :
    /\ os[cmd[p]].proc = p
    /\ state[p] = "exited" => os[cmd[p]].run = "reaped"

\* The current process of a name is stopped only under a freeze in progress.
FreezesTimed ==
  \A p \in Proc : os[cmd[p]].run = "stopped" => fault[p] # NoFault /\ fault[p].action = "freeze"

Told(p) == Alive(cmd[p]) /\ ~os[cmd[p]].late => os[cmd[p]].term
Ended(p) == Alive(cmd[p]) => os[cmd[p]].late

\* The second loop of Stop tells the processes it has visited to end, and the
\* third one sees to it that they have ended.
StopTells ==
  /\ phase = "signalling" => \A p \in Proc \ todo : Told(p)
  /\ phase \in {"waiting", "closing", "closed"} => \A p \in Proc : Told(p)
  /\ phase = "waiting" => \A p \in Proc \ todo : Ended(p)
  /\ phase \in {"closing", "closed"} => \A p \in Proc : Ended(p)

DemoInv ==
  /\ TypeOK
  /\ TimersDistinct
  /\ FaultsTimed
  /\ CutsTimed
  /\ CurrentKnown
  /\ FreezesTimed
  /\ StopTells

-----------------------------------------------------------------------------
(***************************************************************************)
(* The process table.                                                       *)
(***************************************************************************)
LEMMA RowOf ==
  ASSUME TypeOK, NEW i \in Pids
  PROVE  /\ os[i] \in Row /\ os[i].proc \in Proc /\ os[i].run \in Runs
         /\ os[i].term \in BOOLEAN /\ os[i].late \in BOOLEAN
<1>1. os[i] \in Row
  BY ElementOfSeq DEF TypeOK, Row, Pids
<1> QED
  BY <1>1 DEF Row

LEMMA CurrentRow ==
  ASSUME TypeOK, NEW p \in Proc
  PROVE  cmd[p] \in Pids /\ os[cmd[p]].run \in Runs /\ os[cmd[p]].term \in BOOLEAN
<1>1. cmd[p] \in Pids
  BY DEF TypeOK
<1> QED
  BY <1>1, RowOf

\* A table with the processes of another one.
SameProcs(table) ==
  /\ table \in Seq(Row)
  /\ Len(table) = Len(os)
  /\ \A j \in Pids : table[j].proc = os[j].proc /\ table[j].late = os[j].late

LEMMA RunSet ==
  ASSUME TypeOK, NEW table, SameProcs(table), NEW i \in Pids, NEW run \in Runs
  PROVE  LET t == [table EXCEPT ![i].run = run] IN
         /\ SameProcs(t)
         /\ \A j \in Pids : t[j].run = (IF j = i THEN run ELSE table[j].run)
                            /\ t[j].term = table[j].term
<1> DEFINE t == [table EXCEPT ![i].run = run]
<1>1. Len(os) \in Nat /\ table \in Seq(Row) /\ Len(table) = Len(os)
  BY DEF TypeOK, SameProcs
<1>2. ASSUME NEW j \in Pids PROVE table[j] \in Row
  BY <1>1, ElementOfSeq DEF Pids
<1>3. ASSUME NEW j \in Pids
      PROVE  /\ t[j] \in Row /\ t[j].proc = table[j].proc /\ t[j].late = table[j].late /\ t[j].term = table[j].term
             /\ t[j].run = IF j = i THEN run ELSE table[j].run
  <2>1. table[j] \in Row /\ j \in DOMAIN table
    BY <1>1, <1>2 DEF Pids
  <2> QED
    BY <2>1 DEF Row
<1>4. t \in Seq(Row) /\ Len(t) = Len(os)
  <2>1. DOMAIN t = 1 .. Len(os)
    BY <1>1
  <2>2. \A j \in 1 .. Len(os) : t[j] \in Row
    BY <1>3 DEF Pids
  <2>3. t = [j \in 1 .. Len(os) |-> t[j]]
    BY <2>1
  <2> HIDE DEF t
  <2> QED
    BY <1>1, <2>2, <2>3
<1> QED
  BY <1>3, <1>4 DEF SameProcs

LEMMA TermSet ==
  ASSUME TypeOK, NEW table, SameProcs(table), NEW i \in Pids, NEW b \in BOOLEAN
  PROVE  LET t == [table EXCEPT ![i].term = b] IN
         /\ SameProcs(t)
         /\ \A j \in Pids : t[j].run = table[j].run
                            /\ t[j].term = (IF j = i THEN b ELSE table[j].term)
<1> DEFINE t == [table EXCEPT ![i].term = b]
<1>1. Len(os) \in Nat /\ table \in Seq(Row) /\ Len(table) = Len(os)
  BY DEF TypeOK, SameProcs
<1>2. ASSUME NEW j \in Pids PROVE table[j] \in Row
  BY <1>1, ElementOfSeq DEF Pids
<1>3. ASSUME NEW j \in Pids
      PROVE  /\ t[j] \in Row /\ t[j].proc = table[j].proc /\ t[j].late = table[j].late /\ t[j].run = table[j].run
             /\ t[j].term = IF j = i THEN b ELSE table[j].term
  <2>1. table[j] \in Row /\ j \in DOMAIN table
    BY <1>1, <1>2 DEF Pids
  <2> QED
    BY <2>1 DEF Row
<1>4. t \in Seq(Row) /\ Len(t) = Len(os)
  <2>1. DOMAIN t = 1 .. Len(os)
    BY <1>1
  <2>2. \A j \in 1 .. Len(os) : t[j] \in Row
    BY <1>3 DEF Pids
  <2>3. t = [j \in 1 .. Len(os) |-> t[j]]
    BY <2>1
  <2> HIDE DEF t
  <2> QED
    BY <1>1, <2>2, <2>3
<1> QED
  BY <1>3, <1>4 DEF SameProcs

LEMMA OwnTable ==
  ASSUME TypeOK
  PROVE  SameProcs(os)
BY DEF TypeOK, SameProcs, Row

\* What a signal leaves.
LEMMA SignalledTable ==
  ASSUME TypeOK, NEW i \in Pids, NEW run \in Runs
  PROVE  /\ SameProcs(Signalled(i, run))
         /\ \A j \in Pids : /\ Signalled(i, run)[j].run = (IF j = i /\ Alive(i) THEN run ELSE os[j].run)
                            /\ Signalled(i, run)[j].term = os[j].term
<1> DEFINE r == IF Alive(i) THEN run ELSE os[i].run
           t == [os EXCEPT ![i].run = r]
<1>1. r \in Runs
  BY RowOf
<1>2. Signalled(i, run) = t
  BY DEF Signalled, Pids, TypeOK
<1> HIDE DEF r
<1>3. SameProcs(t) /\ \A j \in Pids : t[j].run = (IF j = i THEN r ELSE os[j].run) /\ t[j].term = os[j].term
  BY <1>1, OwnTable, RunSet
<1> HIDE DEF t
<1>4. \A j \in Pids : /\ Signalled(i, run)[j].run = (IF j = i THEN r ELSE os[j].run)
                      /\ Signalled(i, run)[j].term = os[j].term
  BY <1>2, <1>3
<1> QED
  BY <1>2, <1>3, <1>4 DEF r

LEMMA TerminatedTable ==
  ASSUME TypeOK, NEW i \in Pids
  PROVE  /\ SameProcs(Terminated(i))
         /\ \A j \in Pids : /\ Terminated(i)[j].run = os[j].run
                            /\ Terminated(i)[j].term = (IF j = i THEN Alive(i) \/ os[i].term ELSE os[j].term)
<1> DEFINE b == Alive(i) \/ os[i].term
           t == [os EXCEPT ![i].term = b]
<1>1. b \in BOOLEAN
  BY RowOf DEF Alive
<1>2. Terminated(i) = t
  BY DEF Terminated, Pids, TypeOK
<1> HIDE DEF b
<1>3. SameProcs(t) /\ \A j \in Pids : t[j].run = os[j].run /\ t[j].term = (IF j = i THEN b ELSE os[j].term)
  BY <1>1, OwnTable, TermSet
<1> HIDE DEF t
<1>4. \A j \in Pids : Terminated(i)[j].run = os[j].run /\ Terminated(i)[j].term = (IF j = i THEN b ELSE os[j].term)
  BY <1>2, <1>3
<1> QED
  BY <1>2, <1>3, <1>4 DEF b

-----------------------------------------------------------------------------
(***************************************************************************)
(* What every step but a launch does to the table and to the reports.       *)
(***************************************************************************)
\* Reaped is for ever, nothing comes to life, SIGTERM is not taken back.
Later(table) ==
  /\ SameProcs(table)
  /\ \A j \in Pids :
       /\ os[j].run = "reaped" => table[j].run = "reaped"
       /\ table[j].run \in {"running", "stopped"} => Alive(j)
       /\ os[j].term => table[j].term

NoneStopped(table) == \A j \in Pids : table[j].run = "stopped" => os[j].run = "stopped"

States == {"running", "stopped", "exited"}

\* An exit is reported once it has happened, and not taken back.
Reported(table, states) ==
  /\ states \in [Proc -> States]
  /\ \A p \in Proc : /\ state[p] = "exited" => states[p] = "exited"
                     /\ states[p] = "exited" => table[cmd[p]].run = "reaped"

LEMMA TableSame ==
  ASSUME DemoInv
  PROVE  Later(os) /\ NoneStopped(os) /\ Reported(os, state)
<1>1. Later(os) /\ NoneStopped(os)
  BY OwnTable DEF DemoInv, Later, NoneStopped, Alive
<1>2. Reported(os, state)
  BY DEF DemoInv, TypeOK, CurrentKnown, Reported, States
<1> QED
  BY <1>1, <1>2

LEMMA ReportedSame ==
  ASSUME DemoInv, NEW table, Later(table)
  PROVE  Reported(table, state)
<1>1. ASSUME NEW p \in Proc, state[p] = "exited" PROVE table[cmd[p]].run = "reaped"
  BY <1>1, CurrentRow DEF DemoInv, CurrentKnown, Later
<1> QED
  BY <1>1 DEF DemoInv, TypeOK, Reported, States

\* The processes and their reports after such a step.
LEMMA TableStepInv ==
  ASSUME DemoInv, Later(os'), Reported(os', state'), UNCHANGED <<cmd, restarting>>
  PROVE  /\ Pids' = Pids /\ CurrentKnown'
         /\ os' \in Seq(Row) /\ Len(os') <= MaxPid /\ cmd' \in [Proc -> Pids'] /\ state' \in [Proc -> States]
         /\ \A p \in Proc : (Told(p) => Told(p)') /\ (Ended(p) => Ended(p)')
<1>1. /\ Pids' = Pids /\ os' \in Seq(Row) /\ Len(os') <= MaxPid
      /\ cmd' \in [Proc -> Pids'] /\ state' \in [Proc -> States]
  BY DEF DemoInv, TypeOK, Later, SameProcs, Pids, Reported
<1>2. CurrentKnown'
  <2>1. ASSUME NEW p \in Proc PROVE os'[cmd[p]].proc = p
    BY CurrentRow DEF DemoInv, CurrentKnown, Later, SameProcs
  <2> QED
    BY <2>1 DEF CurrentKnown, Reported
<1>3. ASSUME NEW p \in Proc PROVE (Told(p) => Told(p)') /\ (Ended(p) => Ended(p)')
  <2>1. cmd[p] \in Pids /\ cmd' = cmd
    BY CurrentRow DEF DemoInv
  <2>2. os'[cmd[p]].run \in {"running", "stopped"} => os[cmd[p]].run \in {"running", "stopped"}
    BY <2>1 DEF Later, Alive
  <2>3. (os[cmd[p]].term => os'[cmd[p]].term) /\ os'[cmd[p]].late = os[cmd[p]].late
    BY <2>1 DEF Later, SameProcs
  <2> QED
    BY <2>1, <2>2, <2>3 DEF Told, Ended, Alive
<1> QED
  BY <1>1, <1>2, <1>3

\* Nothing is frozen in such a step.
LEMMA FreezesKept ==
  ASSUME DemoInv, Later(os'), NoneStopped(os'), UNCHANGED <<cmd, fault>>
  PROVE  FreezesTimed'
<1>1. ASSUME NEW p \in Proc, os'[cmd[p]].run = "stopped" PROVE os[cmd[p]].run = "stopped"
  BY <1>1, CurrentRow DEF DemoInv, NoneStopped
<1> QED
  BY <1>1 DEF DemoInv, FreezesTimed

LEMMA FaultsKept ==
  ASSUME DemoInv, UNCHANGED <<fault, cut, timers, firing, armed>>
  PROVE  TimersDistinct' /\ FaultsTimed' /\ CutsTimed'
BY DEF DemoInv, TimersDistinct, FaultsTimed, CutsTimed

LEMMA StopKept ==
  ASSUME DemoInv, UNCHANGED <<phase, todo>>,
         \A p \in Proc : (Told(p) => Told(p)') /\ (Ended(p) => Ended(p)')
  PROVE  StopTells'
BY DEF DemoInv, StopTells

-----------------------------------------------------------------------------
(***************************************************************************)
(* One lemma per group of actions.                                          *)
(***************************************************************************)
\* The fields of TypeOK that a table step leaves to the faults and to Stop.
LEMMA TypeAfter ==
  ASSUME os' \in Seq(Row), Len(os') <= MaxPid, cmd' \in [Proc -> Pids'], state' \in [Proc -> States],
         fault' \in [Proc -> {NoFault} \cup Fault],
         \A p \in Proc : fault'[p] # NoFault => fault'[p].proc = p,
         cut' \subseteq Schedulers, timers' \subseteq Fault, firing' \subseteq Fault,
         restarting' \in [Proc -> 0 .. MaxRestarting], armed' \in 0 .. MaxFault,
         phase' \in Phases, todo' \subseteq Proc, CurrentKnown'
  PROVE  TypeOK'
BY DEF TypeOK, Row, States, CurrentKnown

\* A step that changes the table and the reports only.
LEMMA TableOnlyInv ==
  ASSUME DemoInv, Later(os'), NoneStopped(os'), Reported(os', state'),
         UNCHANGED <<cmd, fault, cut, timers, firing, requests>>
  PROVE  DemoInv'
<1> USE DEF requests
<1>1. TypeOK'
  BY TableStepInv, TypeAfter DEF DemoInv, TypeOK
<1> QED
  BY <1>1, TableStepInv, FreezesKept, FaultsKept, StopKept DEF DemoInv

LEMMA SignalledLater ==
  ASSUME DemoInv, NEW i \in Pids, NEW run \in {"stopped", "zombie"}, os' = Signalled(i, run)
  PROVE  Later(os') /\ Reported(os', state)
<1>1. TypeOK /\ run \in Runs
  BY DEF DemoInv, Runs
<1>2. /\ SameProcs(os')
      /\ \A j \in Pids : /\ os'[j].run = (IF j = i /\ Alive(i) THEN run ELSE os[j].run)
                         /\ os'[j].term = os[j].term
  BY <1>1, SignalledTable
<1>3. Later(os')
  BY <1>2 DEF Later, Alive
<1> QED
  BY <1>3, ReportedSame

LEMMA ZombieInv ==
  ASSUME DemoInv, NEW i \in Pids, os' = Signalled(i, "zombie"),
         UNCHANGED <<cmd, state, fault, cut, timers, firing, requests>>
  PROVE  DemoInv'
<1>1. Later(os') /\ Reported(os', state)
  BY SignalledLater
<1>2. NoneStopped(os')
  BY SignalledTable DEF DemoInv, NoneStopped, Runs
<1> QED
  BY <1>1, <1>2, TableOnlyInv

LEMMA KillInv ==
  ASSUME DemoInv, NEW p \in Proc, Kill(p)
  PROVE  DemoInv'
BY CurrentRow, ZombieInv DEF DemoInv, Kill

LEMMA ExitInv ==
  ASSUME DemoInv, NEW i \in Pids, Exit(i)
  PROVE  DemoInv'
BY ZombieInv DEF Exit

LEMMA TerminateInv ==
  ASSUME DemoInv, NEW p \in Proc, Terminate(p)
  PROVE  DemoInv'
<1>1. cmd[p] \in Pids /\ TypeOK
  BY CurrentRow DEF DemoInv
<1>2. os' = Terminated(cmd[p]) /\ UNCHANGED <<cmd, state, fault, cut, timers, firing, requests>>
  BY DEF Terminate
<1>3. /\ SameProcs(os')
      /\ \A j \in Pids : /\ os'[j].run = os[j].run
                         /\ os'[j].term = (IF j = cmd[p] THEN Alive(cmd[p]) \/ os[cmd[p]].term ELSE os[j].term)
  BY <1>1, <1>2, TerminatedTable
<1>4. Later(os') /\ NoneStopped(os')
  BY <1>3 DEF Later, NoneStopped, Alive
<1> QED
  BY <1>2, <1>4, ReportedSame, TableOnlyInv

\* A fault that begins gets a number and a timer of its own.
LEMMA ArmEffect ==
  ASSUME DemoInv, NEW p \in Proc, NEW action \in {"freeze", "partition"},
         Arm(p, action), fault[p] = NoFault
  PROVE  /\ fault' \in [Proc -> {NoFault} \cup Fault]
         /\ \A q \in Proc : fault'[q] # NoFault => fault'[q].proc = q
         /\ fault'[p] # NoFault /\ fault'[p].action = action
         /\ \A q \in Proc \ {p} : fault'[q] = fault[q]
         /\ timers' \subseteq Fault /\ firing' \subseteq Fault /\ armed' \in 0 .. MaxFault
         /\ TimersDistinct' /\ FaultsTimed'
<1> DEFINE f == [id |-> armed + 1, proc |-> p, action |-> action]
<1>1. /\ armed < MaxFault /\ armed' = armed + 1 /\ fault' = [fault EXCEPT ![p] = f]
      /\ timers' = timers \cup {f} /\ firing' = firing
  BY DEF Arm
<1>2. armed \in 0 .. MaxFault /\ MaxFault \in Nat
  BY SupervisorAssumption DEF DemoInv, TypeOK
<1>3. f \in Fault
  BY <1>1, <1>2 DEF Fault
<1>4. f # NoFault /\ f.id = armed + 1 /\ f.proc = p /\ f.action = action
  BY <1>2 DEF NoFault
<1> HIDE DEF f
<1>5. /\ fault \in [Proc -> {NoFault} \cup Fault] /\ \A q \in Proc : fault[q] # NoFault => fault[q].proc = q
      /\ timers \subseteq Fault /\ firing \subseteq Fault
      /\ timers \cap firing = {} /\ \A g \in timers \cup firing : g.id <= armed
      /\ \A q \in Proc : fault[q] # NoFault => fault[q] \in timers \cup firing
  BY DEF DemoInv, TypeOK, TimersDistinct, FaultsTimed
<1>6. TimersDistinct'
  <2>1. f \notin firing
    BY <1>2, <1>4, <1>5
  <2>2. \A g \in timers \cup firing : g.id \in Nat
    BY <1>5 DEF Fault
  <2> QED
    BY <1>1, <1>2, <1>4, <1>5, <2>1, <2>2 DEF TimersDistinct
<1>7. FaultsTimed'
  BY <1>1, <1>5 DEF FaultsTimed
<1> QED
  BY <1>1, <1>2, <1>3, <1>4, <1>5, <1>6, <1>7

LEMMA FreezeInv ==
  ASSUME DemoInv, NEW p \in Proc, Freeze(p)
  PROVE  DemoInv'
<1>1. /\ MayFault(p) /\ os' = Signalled(cmd[p], "stopped") /\ Arm(p, "freeze")
      /\ UNCHANGED <<cmd, cut, restarting, phase, todo>>
  BY DEF Freeze
<1>2. cmd[p] \in Pids /\ TypeOK /\ fault[p] = NoFault /\ state[p] = "running"
  BY <1>1, CurrentRow DEF DemoInv, MayFault
<1>3. /\ SameProcs(os')
      /\ \A j \in Pids : os'[j].run = (IF j = cmd[p] /\ Alive(cmd[p]) THEN "stopped" ELSE os[j].run)
  BY <1>1, <1>2, SignalledTable DEF Runs
<1>4. Later(os') /\ Reported(os', state)
  BY <1>1, <1>2, SignalledLater
<1>5. state' = state \/ state' = [state EXCEPT ![p] = "stopped"]
  BY DEF Freeze
<1>6. Reported(os', state')
  <2>1. state' \in [Proc -> States]
    BY <1>2, <1>5 DEF TypeOK, States
  <2>2. ASSUME NEW q \in Proc PROVE state'[q] = "exited" <=> state[q] = "exited"
    BY <1>2, <1>5 DEF TypeOK
  <2> QED
    BY <1>4, <2>1, <2>2 DEF Reported
<1>7. /\ Pids' = Pids /\ CurrentKnown'
      /\ os' \in Seq(Row) /\ Len(os') <= MaxPid /\ cmd' \in [Proc -> Pids'] /\ state' \in [Proc -> States]
      /\ \A q \in Proc : (Told(q) => Told(q)') /\ (Ended(q) => Ended(q)')
  BY <1>1, <1>4, <1>6, TableStepInv
<1>8. /\ fault' \in [Proc -> {NoFault} \cup Fault]
      /\ \A q \in Proc : fault'[q] # NoFault => fault'[q].proc = q
      /\ fault'[p] # NoFault /\ fault'[p].action = "freeze"
      /\ \A q \in Proc \ {p} : fault'[q] = fault[q]
      /\ timers' \subseteq Fault /\ firing' \subseteq Fault /\ armed' \in 0 .. MaxFault
      /\ TimersDistinct' /\ FaultsTimed'
  BY <1>1, <1>2, ArmEffect
<1>9. TypeOK'
  BY <1>1, <1>7, <1>8, TypeAfter DEF DemoInv, TypeOK
<1>10. CutsTimed'
  <2>1. cut \subseteq Proc /\ p \notin cut
    BY <1>2, SupervisorAssumption DEF DemoInv, TypeOK, CutsTimed
  <2> QED
    BY <1>1, <1>8, <2>1 DEF DemoInv, CutsTimed
<1>11. FreezesTimed'
  <2>1. ASSUME NEW q \in Proc, q # p, os'[cmd[q]].run = "stopped" PROVE os[cmd[q]].run = "stopped"
    <3>1. cmd[q] \in Pids /\ cmd[q] # cmd[p]
      BY <2>1, CurrentRow DEF DemoInv, CurrentKnown
    <3> QED
      BY <1>3, <2>1, <3>1
  <2> QED
    BY <1>1, <1>8, <2>1 DEF DemoInv, FreezesTimed
<1> QED
  BY <1>1, <1>7, <1>8, <1>9, <1>10, <1>11, StopKept DEF DemoInv

LEMMA PartitionInv ==
  ASSUME DemoInv, NEW p \in Proc, Partition(p)
  PROVE  DemoInv'
<1>1. /\ p \in Schedulers /\ MayFault(p) /\ cut' = cut \cup {p} /\ Arm(p, "partition")
      /\ UNCHANGED <<cmd, state, restarting, os, phase, todo>>
  BY DEF Partition
<1>2. fault[p] = NoFault
  BY <1>1 DEF MayFault
<1>3. Later(os') /\ NoneStopped(os') /\ Reported(os', state')
  BY <1>1, TableSame
<1>4. /\ Pids' = Pids /\ CurrentKnown'
      /\ os' \in Seq(Row) /\ Len(os') <= MaxPid /\ cmd' \in [Proc -> Pids'] /\ state' \in [Proc -> States]
      /\ \A q \in Proc : (Told(q) => Told(q)') /\ (Ended(q) => Ended(q)')
  BY <1>1, <1>3, TableStepInv
<1>5. /\ fault' \in [Proc -> {NoFault} \cup Fault]
      /\ \A q \in Proc : fault'[q] # NoFault => fault'[q].proc = q
      /\ fault'[p] # NoFault /\ fault'[p].action = "partition"
      /\ \A q \in Proc \ {p} : fault'[q] = fault[q]
      /\ timers' \subseteq Fault /\ firing' \subseteq Fault /\ armed' \in 0 .. MaxFault
      /\ TimersDistinct' /\ FaultsTimed'
  BY <1>1, <1>2, ArmEffect
<1>6. TypeOK'
  BY <1>1, <1>4, <1>5, TypeAfter DEF DemoInv, TypeOK
<1>7. CutsTimed'
  <2>1. cut \subseteq Proc
    BY SupervisorAssumption DEF DemoInv, TypeOK
  <2> QED
    BY <1>1, <1>5, <2>1 DEF DemoInv, CutsTimed
<1>8. FreezesTimed'
  BY <1>1, <1>2, <1>5 DEF DemoInv, FreezesTimed
<1> QED
  BY <1>1, <1>4, <1>5, <1>6, <1>7, <1>8, StopKept DEF DemoInv

LEMMA RestartCheckInv ==
  ASSUME DemoInv, NEW p \in Proc, RestartCheck(p)
  PROVE  DemoInv'
<1>1. /\ state[p] = "exited" /\ restarting[p] < MaxRestarting
      /\ restarting' = [restarting EXCEPT ![p] = @ + 1]
      /\ UNCHANGED <<cmd, state, fault, cut, timers, firing, armed, os, phase, todo>>
  BY DEF RestartCheck
<1>2. restarting \in [Proc -> 0 .. MaxRestarting] /\ MaxRestarting \in Nat
  BY SupervisorAssumption DEF DemoInv, TypeOK
<1>3. restarting' \in [Proc -> 0 .. MaxRestarting]
  BY <1>1, <1>2
<1>4. CurrentKnown' /\ FreezesTimed'
  BY <1>1 DEF DemoInv, CurrentKnown, FreezesTimed
<1>5. TypeOK'
  BY <1>1, <1>3, <1>4, TypeAfter DEF DemoInv, TypeOK, Row, States, Pids
<1>6. StopTells'
  BY <1>1 DEF DemoInv, StopTells, Told, Ended, Alive
<1> QED
  BY <1>1, <1>4, <1>5, <1>6, FaultsKept DEF DemoInv

\* A new process gets the next pid.
LEMMA LaunchInv ==
  ASSUME DemoInv, NEW p \in Proc, Launch(p)
  PROVE  DemoInv'
<1> DEFINE row == [proc |-> p, run |-> "running", term |-> FALSE, late |-> Passed(p)]
<1>1. /\ phase # "closed" /\ restarting[p] > 0 /\ restarting' = [restarting EXCEPT ![p] = @ - 1]
      /\ UNCHANGED <<fault, cut, timers, firing, armed, phase, todo>>
  BY DEF Launch
<1>2. restarting \in [Proc -> 0 .. MaxRestarting] /\ MaxRestarting \in Nat
  BY SupervisorAssumption DEF DemoInv, TypeOK
<1>3. restarting' \in [Proc -> 0 .. MaxRestarting] 
  BY <1>1, <1>2
<1>4. TimersDistinct' /\ FaultsTimed' /\ CutsTimed'
  BY <1>1, FaultsKept
<1>5. CASE UNCHANGED <<os, cmd, state>>
  <2>1. CurrentKnown' /\ FreezesTimed' /\ StopTells'
    BY <1>1, <1>5 DEF DemoInv, CurrentKnown, FreezesTimed, StopTells, Told, Ended, Alive
  <2>2. TypeOK'
    BY <1>1, <1>3, <1>5, <2>1, TypeAfter DEF DemoInv, TypeOK, Row, States, Pids
  <2> QED
    BY <1>4, <2>1, <2>2 DEF DemoInv
<1>6. CASE /\ Len(os) < MaxPid
           /\ os' = Append(os, row)
           /\ cmd' = [cmd EXCEPT ![p] = Len(os) + 1]
           /\ state' = [state EXCEPT ![p] = "running"]
  <2> DEFINE n == Len(os) + 1
  <2>1. os \in Seq(Row) /\ row \in Row /\ Len(os) \in Nat /\ MaxPid \in Nat
    BY SupervisorAssumption DEF DemoInv, TypeOK, Row, Runs, Passed
  <2>2. /\ os' \in Seq(Row) /\ Len(os') = n /\ os'[n] = row
        /\ \A j \in 1 .. Len(os) : os'[j] = os[j]
    BY <1>6, <2>1
  <2>3. Pids' = Pids \cup {n} /\ n \notin Pids /\ Pids \subseteq Pids' /\ n <= MaxPid
    BY <1>6, <2>1, <2>2 DEF Pids
  <2>4. row.proc = p /\ row.run = "running" /\ row.late = Passed(p)
    OBVIOUS
  <2>5. /\ cmd \in [Proc -> Pids] /\ state \in [Proc -> States]
        /\ cmd' \in [Proc -> Pids'] /\ state' \in [Proc -> States]
    BY <1>6, <2>3 DEF DemoInv, TypeOK, States
  <2>6. cmd'[p] = n /\ state'[p] = "running" /\ \A q \in Proc \ {p} : cmd'[q] = cmd[q] /\ state'[q] = state[q]
    BY <1>6, <2>5
  <2>7. \A j \in Pids : os'[j] = os[j] /\ os[j].proc \in Proc
    BY <2>2, RowOf DEF DemoInv, Pids
  <2> HIDE DEF n, row
  <2>9. CurrentKnown'
    <3>1. ASSUME NEW q \in Proc
          PROVE  os'[cmd'[q]].proc = q /\ (state'[q] = "exited" => os'[cmd'[q]].run = "reaped")
      <4>1. CASE q = p
        BY <2>2, <2>4, <2>6, <4>1
      <4>2. CASE q # p
        BY <2>5, <2>6, <2>7, <4>2 DEF DemoInv, CurrentKnown
      <4> QED
        BY <4>1, <4>2
    <3> QED
      BY <3>1 DEF CurrentKnown
  <2>10. TypeOK'
    BY <1>1, <1>3, <2>2, <2>3, <2>5, <2>9, TypeAfter DEF DemoInv, TypeOK
  <2>11. FreezesTimed'
    <3>1. ASSUME NEW q \in Proc \ {p} PROVE cmd'[q] = cmd[q] /\ os'[cmd[q]] = os[cmd[q]]
      BY <2>5, <2>6, <2>7
    <3> QED
      BY <1>1, <2>2, <2>4, <2>6, <3>1 DEF DemoInv, FreezesTimed
  <2>12. StopTells'
    <3>1. ASSUME NEW q \in Proc \ {p} PROVE (Told(q) => Told(q)') /\ (Ended(q) => Ended(q)')
      <4>1. cmd'[q] = cmd[q] /\ os'[cmd[q]] = os[cmd[q]]
        BY <2>5, <2>6, <2>7
      <4> QED
        BY <4>1 DEF Told, Ended, Alive
    <3>2. ASSUME Passed(p) PROVE Told(p)' /\ Ended(p)'
      BY <2>2, <2>4, <2>6, <3>2 DEF Told, Ended
    <3> QED
      BY <1>1, <3>1, <3>2 DEF DemoInv, StopTells, Passed
  <2> QED
    BY <1>4, <2>9, <2>10, <2>11, <2>12 DEF DemoInv
<1> QED
  BY <1>5, <1>6 DEF Launch

-----------------------------------------------------------------------------
(***************************************************************************)
(* The end of a timed fault.                                                *)
(***************************************************************************)
LEMMA UndoEffect ==
  ASSUME DemoInv, NEW p \in Proc, NEW table, NEW states,
         Later(table), NoneStopped(table), Reported(table, states), Undo(p, table, states)
  PROVE  /\ Later(os') /\ NoneStopped(os') /\ Reported(os', state')
         /\ IF fault[p].action = "freeze"
              THEN os'[cmd[p]].run # "stopped" /\ cut' = cut
              ELSE cut' = cut \ {p}
<1>1. cmd[p] \in Pids /\ TypeOK
  BY CurrentRow DEF DemoInv
<1>2. CASE fault[p].action = "freeze"
  <2> DEFINE c == cmd[p]
             r == IF table[c].run = "stopped" THEN "running" ELSE table[c].run
             t == [table EXCEPT ![c].run = r]
  <2>1. /\ os' = [table EXCEPT ![c].run = IF @ = "stopped" THEN "running" ELSE @]
        /\ state' = [states EXCEPT ![p] = IF @ = "stopped" THEN "running" ELSE @]
        /\ cut' = cut
    BY <1>2 DEF Undo
  <2>2. SameProcs(table) /\ table \in Seq(Row) /\ c \in 1 .. Len(table) /\ c \in DOMAIN table
    BY <1>1 DEF Later, SameProcs, Pids
  <2>3. table[c].run \in Runs
    <3>1. table[c] \in Row
      BY <2>2, ElementOfSeq
    <3> QED
      BY <3>1 DEF Row
  <2>4. r \in Runs
    BY <2>3 DEF Runs
  <2>5. os' = t
    BY <2>1, <2>2
  <2> HIDE DEF r, c
  <2>6. c \in Pids
    BY <1>1 DEF c
  <2>7. SameProcs(t) /\ \A j \in Pids : t[j].run = (IF j = c THEN r ELSE table[j].run) /\ t[j].term = table[j].term
    BY <1>1, <2>2, <2>4, <2>6, RunSet
  <2> HIDE DEF t
  <2>8. /\ SameProcs(os')
        /\ \A j \in Pids : /\ os'[j].run = (IF j = c THEN r ELSE table[j].run)
                           /\ os'[j].term = table[j].term
    BY <2>5, <2>7
  <2>9. r # "stopped" /\ (table[c].run = "reaped" => r = "reaped")
        /\ (r = "running" => table[c].run \in {"running", "stopped"})
    BY DEF r
  <2>10. Later(os')
    BY <2>6, <2>8, <2>9 DEF Later
  <2>11. NoneStopped(os')
    BY <2>6, <2>8, <2>9 DEF NoneStopped
  <2>12. Reported(os', state')
    <3>1. states \in [Proc -> States]
      BY DEF Reported
    <3>2. state' \in [Proc -> States] /\ \A q \in Proc : state'[q] = "exited" <=> states[q] = "exited"
      BY <2>1, <3>1 DEF States
    <3>3. ASSUME NEW q \in Proc, table[cmd[q]].run = "reaped" PROVE os'[cmd[q]].run = "reaped"
      <4>1. cmd[q] \in Pids
        BY CurrentRow DEF DemoInv
      <4> QED
        BY <2>8, <2>9, <3>3, <4>1
    <3> QED
      BY <3>2, <3>3 DEF Reported
  <2> QED
    BY <1>2, <2>1, <2>6, <2>8, <2>9, <2>10, <2>11, <2>12 DEF c
<1>3. CASE fault[p].action # "freeze"
  BY <1>3 DEF Undo
<1> QED
  BY <1>2, <1>3

\* The fault of p is over: its undo has run, and its timer is no longer armed.
LEMMA FaultEnded ==
  ASSUME DemoInv, NEW p \in Proc, fault[p] # NoFault,
         Later(os'), NoneStopped(os'), Reported(os', state'), UNCHANGED <<cmd, restarting, armed>>,
         IF fault[p].action = "freeze" THEN os'[cmd[p]].run # "stopped" /\ cut' = cut
                                       ELSE cut' = cut \ {p},
         fault' = [fault EXCEPT ![p] = NoFault],
         timers' \subseteq timers, firing' \subseteq firing,
         timers \cup firing \subseteq timers' \cup firing' \cup {fault[p]}
  PROVE  TimersDistinct' /\ FaultsTimed' /\ CutsTimed' /\ FreezesTimed'
<1>1. /\ fault \in [Proc -> {NoFault} \cup Fault] /\ \A q \in Proc : fault[q] # NoFault => fault[q].proc = q
      /\ cut \subseteq Proc
  BY SupervisorAssumption DEF DemoInv, TypeOK
<1>2. TimersDistinct'
  BY DEF DemoInv, TimersDistinct
<1>3. FaultsTimed'
  <2>1. ASSUME NEW q \in Proc, fault'[q] # NoFault PROVE fault'[q] \in timers' \cup firing'
    <3>1. q # p /\ fault'[q] = fault[q]
      BY <1>1, <2>1
    <3>2. fault[q] \in timers \cup firing /\ fault[q].proc = q /\ fault[p].proc = p
      BY <1>1, <2>1, <3>1 DEF DemoInv, FaultsTimed
    <3> QED
      BY <3>1, <3>2
  <2> QED
    BY <2>1 DEF FaultsTimed
<1>4. CutsTimed'
  <2>1. ASSUME NEW q \in cut' PROVE fault'[q] # NoFault /\ fault'[q].action = "partition"
    <3>1. q \in cut /\ q \in Proc /\ fault[q] # NoFault /\ fault[q].action = "partition"
      BY <1>1 DEF DemoInv, CutsTimed
    <3>2. q # p
      BY <3>1
    <3> QED
      BY <1>1, <3>1, <3>2
  <2> QED
    BY <2>1 DEF CutsTimed
<1>5. FreezesTimed'
  <2> SUFFICES ASSUME NEW q \in Proc, os'[cmd[q]].run = "stopped"
               PROVE  fault'[q] # NoFault /\ fault'[q].action = "freeze"
    BY DEF FreezesTimed
  <2>1. os[cmd[q]].run = "stopped"
    BY CurrentRow DEF DemoInv, NoneStopped
  <2>2. fault[q] # NoFault /\ fault[q].action = "freeze"
    BY <2>1 DEF DemoInv, FreezesTimed
  <2>3. q # p
    BY <2>2
  <2> QED
    BY <1>1, <2>2, <2>3
<1> QED
  BY <1>2, <1>3, <1>4, <1>5

\* A step that ends the fault of p, if there is one, and may move Stop on.
LEMMA ClearFaultInv ==
  ASSUME DemoInv, NEW p \in Proc, NEW table, NEW states,
         Later(table), NoneStopped(table), Reported(table, states), ClearFault(p, table, states),
         UNCHANGED <<cmd, firing, restarting, armed>>,
         phase' \in Phases, todo' \subseteq Proc,
         (\A q \in Proc : (Told(q) => Told(q)') /\ (Ended(q) => Ended(q)')) => StopTells'
  PROVE  DemoInv'
<1>1. /\ Later(os') /\ NoneStopped(os') /\ Reported(os', state')
      /\ TimersDistinct' /\ FaultsTimed' /\ CutsTimed' /\ FreezesTimed'
      /\ fault' \in [Proc -> {NoFault} \cup Fault]
      /\ \A q \in Proc : fault'[q] # NoFault => fault'[q].proc = q
      /\ cut' \subseteq cut /\ timers' \subseteq timers
  <2>1. CASE fault[p] = NoFault
    <3>1. os' = table /\ state' = states /\ UNCHANGED <<fault, cut, timers>>
      BY <2>1 DEF ClearFault
    <3>2. Later(os') /\ NoneStopped(os') /\ Reported(os', state')
      BY <3>1
    <3> QED
      BY <3>1, <3>2, FreezesKept, FaultsKept DEF DemoInv, TypeOK
  <2>2. CASE fault[p] # NoFault
    <3>1. /\ Undo(p, table, states) /\ fault' = [fault EXCEPT ![p] = NoFault]
          /\ timers' = timers \ {fault[p]}
      BY <2>2 DEF ClearFault
    <3>2. /\ Later(os') /\ NoneStopped(os') /\ Reported(os', state')
          /\ IF fault[p].action = "freeze" THEN os'[cmd[p]].run # "stopped" /\ cut' = cut
                                           ELSE cut' = cut \ {p}
      BY <3>1, UndoEffect
    <3>3. TimersDistinct' /\ FaultsTimed' /\ CutsTimed' /\ FreezesTimed'
      BY <2>2, <3>1, <3>2, FaultEnded
    <3>4. /\ fault' \in [Proc -> {NoFault} \cup Fault]
          /\ \A q \in Proc : fault'[q] # NoFault => fault'[q].proc = q
      BY <3>1 DEF DemoInv, TypeOK
    <3> QED
      BY <3>1, <3>2, <3>3, <3>4
  <2> QED
    BY <2>1, <2>2
<1>2. /\ CurrentKnown'
      /\ os' \in Seq(Row) /\ Len(os') <= MaxPid /\ cmd' \in [Proc -> Pids'] /\ state' \in [Proc -> States]
      /\ \A q \in Proc : (Told(q) => Told(q)') /\ (Ended(q) => Ended(q)')
  BY <1>1, TableStepInv
<1>3. TypeOK'
  BY <1>1, <1>2, TypeAfter DEF DemoInv, TypeOK
<1> QED
  BY <1>1, <1>2, <1>3 DEF DemoInv

LEMMA ClearInv ==
  ASSUME DemoInv, NEW p \in Proc, Clear(p)
  PROVE  DemoInv'
<1>1. ClearFault(p, os, state) /\ UNCHANGED <<cmd, firing, requests>>
  BY DEF Clear
<1>2. phase' \in Phases /\ todo' \subseteq Proc
  BY <1>1 DEF DemoInv, TypeOK, requests
<1>3. ASSUME \A q \in Proc : (Told(q) => Told(q)') /\ (Ended(q) => Ended(q)') PROVE StopTells'
  BY <1>1, <1>3, StopKept DEF requests
<1> QED
  BY <1>1, <1>2, <1>3, TableSame, ClearFaultInv DEF requests

LEMMA ReapInv ==
  ASSUME DemoInv, NEW i \in Pids, Reap(i)
  PROVE  DemoInv'
<1> DEFINE p == os[i].proc
           reaped == [os EXCEPT ![i].run = "reaped"]
           states == [state EXCEPT ![p] = "exited"]
<1>1. TypeOK /\ p \in Proc /\ os[i].run = "zombie" /\ UNCHANGED <<cmd, firing, requests>>
  BY RowOf DEF DemoInv, Reap
<1>2. SameProcs(reaped) /\ \A j \in Pids : /\ reaped[j].run = (IF j = i THEN "reaped" ELSE os[j].run)
                                           /\ reaped[j].term = os[j].term
  <2>1. "reaped" \in Runs
    BY DEF Runs
  <2> QED
    BY <1>1, <2>1, OwnTable, RunSet
<1>3. \/ cmd[p] = i /\ ClearFault(p, reaped, states)
      \/ os' = reaped /\ UNCHANGED <<state, fault, cut, timers>>
  BY DEF Reap
<1> HIDE DEF reaped, p
<1>4. Later(reaped) /\ NoneStopped(reaped)
  BY <1>1, <1>2 DEF Later, NoneStopped, Alive
<1>5. CASE os' = reaped /\ UNCHANGED <<state, fault, cut, timers>>
  BY <1>1, <1>4, <1>5, ReportedSame, TableOnlyInv
<1>6. CASE cmd[p] = i /\ ClearFault(p, reaped, states)
  <2>1. Reported(reaped, states)
    <3>1. states \in [Proc -> States] /\ states[p] = "exited" /\ \A q \in Proc \ {p} : states[q] = state[q]
      BY <1>1 DEF TypeOK, States
    <3>2. reaped[cmd[p]].run = "reaped"
      BY <1>2, <1>6
    <3> QED
      BY <1>4, <3>1, <3>2, ReportedSame DEF Reported
  <2>2. phase' \in Phases /\ todo' \subseteq Proc
    BY <1>1 DEF DemoInv, TypeOK, requests
  <2>3. ASSUME \A q \in Proc : (Told(q) => Told(q)') /\ (Ended(q) => Ended(q)') PROVE StopTells'
    BY <1>1, <2>3, StopKept DEF requests
  <2> QED
    BY <1>1, <1>4, <1>6, <2>1, <2>2, <2>3, ClearFaultInv DEF requests
<1> QED
  BY <1>3, <1>5, <1>6

LEMMA TimerGoesOffInv ==
  ASSUME DemoInv, NEW f \in timers, TimerGoesOff(f)
  PROVE  DemoInv'
<1>1. /\ timers' = timers \ {f} /\ firing' = firing \cup {f}
      /\ UNCHANGED <<cmd, state, fault, cut, requests, os>>
  BY DEF TimerGoesOff
<1>2. TypeOK'
  BY <1>1 DEF DemoInv, TypeOK, Pids, requests
<1>3. TimersDistinct' /\ FaultsTimed' /\ CutsTimed'
  BY <1>1 DEF DemoInv, TimersDistinct, FaultsTimed, CutsTimed, requests
<1>4. CurrentKnown' /\ FreezesTimed'
  BY <1>1 DEF DemoInv, CurrentKnown, FreezesTimed, Pids, requests
<1>5. StopTells'
  BY <1>1 DEF DemoInv, StopTells, Told, Ended, Alive, requests
<1> QED
  BY <1>2, <1>3, <1>4, <1>5 DEF DemoInv

LEMMA TimerCallbackInv ==
  ASSUME DemoInv, NEW f \in firing, TimerCallback(f)
  PROVE  DemoInv'
<1>1. firing' = firing \ {f} /\ UNCHANGED <<cmd, timers, requests>> /\ f \in Fault /\ f.proc \in Proc
  BY DEF TimerCallback, DemoInv, TypeOK, Fault
<1>2. CASE ~IsCurrent(f)
  <2>1. UNCHANGED <<os, state, cut, fault>>
    BY <1>2 DEF TimerCallback
  <2>2. \A q \in Proc : fault[q] # f
    BY <1>2 DEF DemoInv, TypeOK, IsCurrent, NoFault, Fault
  <2>3. TypeOK' /\ TimersDistinct' /\ FaultsTimed' /\ CutsTimed'
    BY <1>1, <2>1, <2>2 DEF DemoInv, TypeOK, Pids, TimersDistinct, FaultsTimed, CutsTimed, requests
  <2>4. CurrentKnown' /\ FreezesTimed'
    BY <1>1, <2>1 DEF DemoInv, CurrentKnown, FreezesTimed, Pids, requests
  <2>5. StopTells'
    BY <1>1, <2>1 DEF DemoInv, StopTells, Told, Ended, Alive, requests
  <2> QED
    BY <2>3, <2>4, <2>5 DEF DemoInv
<1>3. CASE IsCurrent(f)
  <2> DEFINE p == f.proc
  <2>1. /\ Undo(p, os, state) /\ fault' = [fault EXCEPT ![p] = NoFault]
        /\ fault[p] = f
    BY <1>3 DEF TimerCallback, IsCurrent
  <2>2. fault[p] # NoFault
    BY <1>1, <2>1 DEF Fault, NoFault
  <2> HIDE DEF p
  <2>3. p \in Proc
    BY <1>1 DEF p
  <2>4. /\ Later(os') /\ NoneStopped(os') /\ Reported(os', state')
        /\ IF fault[p].action = "freeze" THEN os'[cmd[p]].run # "stopped" /\ cut' = cut
                                         ELSE cut' = cut \ {p}
    BY <2>1, <2>3, TableSame, UndoEffect
  <2>5. TimersDistinct' /\ FaultsTimed' /\ CutsTimed' /\ FreezesTimed'
    BY <1>1, <2>1, <2>2, <2>3, <2>4, FaultEnded DEF requests
  <2>6. /\ CurrentKnown'
        /\ os' \in Seq(Row) /\ Len(os') <= MaxPid /\ cmd' \in [Proc -> Pids'] /\ state' \in [Proc -> States]
        /\ \A q \in Proc : (Told(q) => Told(q)') /\ (Ended(q) => Ended(q)')
    BY <1>1, <2>4, TableStepInv DEF requests
  <2>7. /\ fault' \in [Proc -> {NoFault} \cup Fault]
        /\ \A q \in Proc : fault'[q] # NoFault => fault'[q].proc = q
        /\ cut' \subseteq cut
    BY <2>1, <2>3, <2>4 DEF DemoInv, TypeOK
  <2>8. TypeOK'
    BY <1>1, <2>6, <2>7, TypeAfter DEF DemoInv, TypeOK, requests
  <2>9. StopTells'
    BY <1>1, <2>6, StopKept DEF requests
  <2> QED
    BY <2>5, <2>6, <2>8, <2>9 DEF DemoInv
<1> QED
  BY <1>2, <1>3

-----------------------------------------------------------------------------
(***************************************************************************)
(* Stop.                                                                    *)
(***************************************************************************)
LEMMA VisitedEffect ==
  ASSUME DemoInv, NEW p \in Proc, Visited(p), phase \in {"clearing", "signalling", "waiting"}
  PROVE  /\ phase' \in Phases /\ todo' \subseteq Proc
         /\ UNCHANGED <<cmd, firing, restarting, armed>>
         /\ \/ phase' = phase /\ todo' = todo \ {p}
            \/ phase = "clearing" /\ phase' = "signalling" /\ todo' = Proc
            \/ phase = "signalling" /\ phase' = "waiting" /\ todo = {p} /\ todo' = Proc
            \/ phase = "waiting" /\ phase' = "closing" /\ todo = {p}
<1>1. /\ p \in todo /\ UNCHANGED <<cmd, firing, restarting, armed>>
      /\ todo' = IF todo = {p} /\ phase # "waiting" THEN Proc ELSE todo \ {p}
      /\ phase' = IF todo = {p} THEN NextPhase ELSE phase
  BY DEF Visited
<1>3. /\ phase = "clearing" => NextPhase = "signalling"
      /\ phase = "signalling" => NextPhase = "waiting"
      /\ phase = "waiting" => NextPhase = "closing"
  BY DEF NextPhase
<1> HIDE DEF NextPhase
<1>4. CASE todo # {p}
  BY <1>1, <1>4 DEF DemoInv, TypeOK
<1>5. CASE todo = {p}
  BY <1>1, <1>3, <1>5 DEF DemoInv, TypeOK, Phases
<1> QED
  BY <1>4, <1>5

LEMMA StopClearsInv ==
  ASSUME DemoInv, NEW p \in Proc, StopClears(p)
  PROVE  DemoInv'
<1>1. phase = "clearing" /\ Visited(p) /\ ClearFault(p, os, state)
  BY DEF StopClears
<1>2. /\ phase' \in Phases /\ todo' \subseteq Proc
      /\ UNCHANGED <<cmd, firing, restarting, armed>>
      /\ \/ phase' = "clearing"
         \/ phase' = "signalling" /\ todo' = Proc
  BY <1>1, VisitedEffect
<1>3. StopTells'
  BY <1>2 DEF StopTells
<1> QED
  BY <1>1, <1>2, <1>3, TableSame, ClearFaultInv

LEMMA BeginStopInv ==
  ASSUME DemoInv, BeginStop
  PROVE  DemoInv'
<1>1. /\ phase' = "clearing" /\ todo' = Proc
      /\ UNCHANGED <<cmd, state, fault, cut, timers, firing, restarting, armed, os>>
  BY DEF BeginStop
<1>2. TypeOK' /\ StopTells'
  BY <1>1 DEF DemoInv, TypeOK, Phases, Pids, StopTells
<1>3. CurrentKnown' /\ FreezesTimed'
  BY <1>1 DEF DemoInv, CurrentKnown, FreezesTimed, Pids
<1> QED
  BY <1>1, <1>2, <1>3, FaultsKept DEF DemoInv

LEMMA StopReturnsInv ==
  ASSUME DemoInv, StopReturns
  PROVE  DemoInv'
<1>1. /\ phase = "closing" /\ phase' = "closed"
      /\ UNCHANGED <<cmd, state, fault, cut, timers, firing, restarting, armed, os, todo>>
  BY DEF StopReturns
<1>2. TypeOK' /\ StopTells'
  BY <1>1 DEF DemoInv, TypeOK, Phases, Pids, StopTells, Told, Ended, Alive
<1>3. CurrentKnown' /\ FreezesTimed'
  BY <1>1 DEF DemoInv, CurrentKnown, FreezesTimed, Pids
<1> QED
  BY <1>1, <1>2, <1>3, FaultsKept DEF DemoInv

\* Resumed if it was stopped, and told to end if it is alive.
LEMMA ToldTable ==
  ASSUME TypeOK, NEW i \in Pids,
         os' = [Resumed(i) EXCEPT ![i].term = Alive(i) \/ @]
  PROVE  /\ Later(os') /\ NoneStopped(os')
         /\ os'[i].run \in {"running", "stopped"} => os'[i].term
<1> DEFINE r == IF os[i].run = "stopped" THEN "running" ELSE os[i].run
           t == [os EXCEPT ![i].run = r]
           b == Alive(i) \/ os[i].term
           u == [t EXCEPT ![i].term = b]
<1>1. r \in Runs /\ b \in BOOLEAN /\ i \in DOMAIN os /\ os[i] \in Row
  BY RowOf DEF Runs, Alive, Pids, TypeOK
<1>2. Resumed(i) = t
  BY <1>1 DEF Resumed
<1> HIDE DEF r, b
<1>3. SameProcs(t) /\ \A j \in Pids : t[j].run = (IF j = i THEN r ELSE os[j].run) /\ t[j].term = os[j].term
  BY <1>1, OwnTable, RunSet
<1>4. os' = u
  <2>1. t[i].term = os[i].term
    BY <1>3
  <2>2. i \in DOMAIN t
    BY <1>1
  <2> HIDE DEF t
  <2> QED
    BY <1>2, <2>1, <2>2 DEF b
<1> HIDE DEF t
<1>5. SameProcs(u) /\ \A j \in Pids : t[j].run = u[j].run /\ u[j].term = (IF j = i THEN b ELSE t[j].term)
  BY <1>1, <1>3, TermSet
<1> HIDE DEF u
<1>6. /\ SameProcs(os')
      /\ \A j \in Pids : /\ os'[j].run = (IF j = i THEN r ELSE os[j].run)
                         /\ os'[j].term = (IF j = i THEN b ELSE os[j].term)
  BY <1>3, <1>4, <1>5
<1>7. /\ r # "stopped" /\ (os[i].run = "reaped" => r = "reaped")
      /\ (r = "running" => os[i].run \in {"running", "stopped"}) /\ (os[i].term => b)
      /\ (os[i].run \in {"running", "stopped"} => b)
  BY DEF r, b, Alive
<1>8. Later(os')
  BY <1>6, <1>7 DEF Later, Alive
<1>9. NoneStopped(os')
  BY <1>6, <1>7 DEF NoneStopped
<1> QED
  BY <1>6, <1>7, <1>8, <1>9

\* The second and the third loop.
LEMMA StopLoopInv ==
  ASSUME DemoInv, NEW p \in Proc, StopSignals(p) \/ StopWaits(p)
  PROVE  DemoInv'
<1>1. /\ Visited(p) /\ UNCHANGED <<state, fault, cut, timers>>
      /\ phase \in {"signalling", "waiting"}
  BY DEF StopSignals, StopWaits
<1>2. /\ phase' \in Phases /\ todo' \subseteq Proc
      /\ UNCHANGED <<cmd, firing, restarting, armed>>
      /\ \/ phase' = phase /\ todo' = todo \ {p}
         \/ phase = "signalling" /\ phase' = "waiting" /\ todo = {p} /\ todo' = Proc
         \/ phase = "waiting" /\ phase' = "closing" /\ todo = {p}
  <2>1. phase # "clearing"
    BY <1>1
  <2> QED
    BY <1>1, <2>1, VisitedEffect
<1>3. cmd[p] \in Pids /\ TypeOK
  BY CurrentRow DEF DemoInv
<1>4. /\ Later(os') /\ NoneStopped(os')
      /\ (phase = "signalling" => Told(p)') /\ (phase = "waiting" => Ended(p)')
  <2>1. CASE state[p] = "exited"
    <3>1. os' = os
      BY <2>1 DEF StopSignals, StopWaits
    <3> QED
      BY <1>2, <2>1, <3>1, TableSame DEF DemoInv, CurrentKnown, Told, Ended, Alive
  <2>2. CASE state[p] # "exited" /\ StopSignals(p)
    <3>1. phase = "signalling" /\ os' = [Resumed(cmd[p]) EXCEPT ![cmd[p]].term = Alive(cmd[p]) \/ @]
      BY <2>2 DEF StopSignals
    <3> QED
      BY <1>2, <1>3, <3>1, ToldTable DEF Told, Alive
  <2>3. CASE state[p] # "exited" /\ StopWaits(p)
    <3>1. phase = "waiting" /\ os' = Signalled(cmd[p], "zombie")
      BY <2>3 DEF StopWaits
    <3>2. Later(os')
      BY <1>3, <3>1, SignalledLater
    <3>3. NoneStopped(os') /\ os'[cmd[p]].run \notin {"running", "stopped"}
      BY <1>3, <3>1, SignalledTable DEF NoneStopped, Runs, Alive
    <3> QED
      BY <1>2, <3>1, <3>2, <3>3 DEF Ended, Alive
  <2> QED
    BY <2>1, <2>2, <2>3
<1>5. Reported(os', state')
  BY <1>1, <1>4, ReportedSame
<1>6. /\ CurrentKnown'
      /\ os' \in Seq(Row) /\ Len(os') <= MaxPid /\ cmd' \in [Proc -> Pids'] /\ state' \in [Proc -> States]
      /\ \A q \in Proc : (Told(q) => Told(q)') /\ (Ended(q) => Ended(q)')
  BY <1>2, <1>4, <1>5, TableStepInv
<1>7. StopTells'
  <2>1. CASE phase = "signalling"
    BY <1>2, <1>4, <1>6, <2>1 DEF DemoInv, StopTells
  <2>2. CASE phase = "waiting"
    BY <1>2, <1>4, <1>6, <2>2 DEF DemoInv, StopTells
  <2> QED
    BY <1>1, <2>1, <2>2
<1>8. TypeOK'
  BY <1>1, <1>2, <1>6, TypeAfter DEF DemoInv, TypeOK
<1> QED
  BY <1>1, <1>2, <1>4, <1>6, <1>7, <1>8, FreezesKept, FaultsKept DEF DemoInv

-----------------------------------------------------------------------------
(***************************************************************************)
(* The invariant holds throughout.                                          *)
(***************************************************************************)
\* The processes can be listed, each once.
LEMMA ListedAll ==
  /\ Listed \in [1 .. Cardinality(Proc) -> Proc]
  /\ \A p \in Proc : \E i \in 1 .. Cardinality(Proc) : Listed[i] = p
  /\ \A i, j \in 1 .. Cardinality(Proc) : Listed[i] = Listed[j] => i = j
  /\ Cardinality(Proc) \in Nat
<1> DEFINE n == Cardinality(Proc)
<1>1. n \in Nat /\ ExistsBijection(1 .. n, Proc)
  BY SupervisorAssumption, FS_CardinalityType
<1>2. PICK order \in Bijection(1 .. n, Proc) : TRUE
  BY <1>1 DEF ExistsBijection
<1>3. order \in [1 .. n -> Proc] /\ \A p \in Proc : \E i \in DOMAIN order : order[i] = p
  BY <1>2 DEF Bijection, Injection, Surjection
<1>4. /\ Listed \in [1 .. n -> Proc]
      /\ \A p \in Proc : \E i \in DOMAIN Listed : Listed[i] = p
  BY <1>3 DEF Listed
<1>5. Listed \in Surjection(1 .. n, Proc)
  BY <1>4 DEF Surjection
<1>6. IsFiniteSet(1 .. n) /\ Cardinality(1 .. n) = n
  BY <1>1, FS_Interval
<1>7. Listed \in Injection(1 .. n, Proc)
  BY <1>5, <1>6, FS_Surjection
<1>8. \A i, j \in 1 .. n : Listed[i] = Listed[j] => i = j
  BY <1>4, <1>7 DEF Injection, IsInjective
<1> QED
  BY <1>1, <1>4, <1>8

LEMMA DemoInitInv == Init => DemoInv
<1> SUFFICES ASSUME Init PROVE DemoInv
  OBVIOUS
<1> DEFINE n == Cardinality(Proc)
<1>1. /\ Listed \in [1 .. n -> Proc] /\ n \in Nat /\ n <= MaxPid /\ DOMAIN Listed = 1 .. n
      /\ \A p \in Proc : \E i \in 1 .. n : Listed[i] = p
      /\ \A i, j \in 1 .. n : Listed[i] = Listed[j] => i = j
  BY ListedAll, SupervisorAssumption
<1>2. os = [i \in 1 .. n |-> [proc |-> Listed[i], run |-> "running", term |-> FALSE, late |-> FALSE]]
  BY <1>1 DEF Init
<1>3. cmd = [p \in Proc |-> CHOOSE i \in 1 .. n : Listed[i] = p]
  BY <1>1 DEF Init
<1> HIDE DEF n
<1>4. os \in Seq(Row) /\ Len(os) = n /\ Pids = 1 .. n
  <2>1. \A i \in 1 .. n : [proc |-> Listed[i], run |-> "running", term |-> FALSE, late |-> FALSE] \in Row
    BY <1>1 DEF Row, Runs
  <2> QED
    BY <1>1, <1>2, <2>1 DEF Pids
<1>5. \A i \in 1 .. n : os[i].proc = Listed[i] /\ os[i].run = "running"
  BY <1>2
<1>6. ASSUME NEW p \in Proc PROVE cmd[p] \in 1 .. n /\ Listed[cmd[p]] = p
  BY <1>1, <1>3
<1>7. cmd \in [Proc -> Pids]
  BY <1>3, <1>4, <1>6
<1>8. MaxRestarting \in Nat /\ MaxFault \in Nat
  BY SupervisorAssumption
<1>9. TypeOK
  <2>1. /\ state \in [Proc -> {"running", "stopped", "exited"}]
        /\ fault \in [Proc -> {NoFault} \cup Fault] /\ \A p \in Proc : fault[p] = NoFault /\ state[p] = "running"
        /\ restarting \in [Proc -> 0 .. MaxRestarting]
    BY <1>8 DEF Init
  <2>2. \A p \in Proc : (state[p] = "exited" => os[cmd[p]].run = "reaped") /\ (fault[p] # NoFault => fault[p].proc = p)
    BY <2>1
  <2>3. cut = {} /\ timers = {} /\ firing = {} /\ armed = 0 /\ phase = "serving" /\ todo = {}
    BY DEF Init
  <2>4. os \in Seq(Row) /\ Len(os) <= MaxPid /\ armed \in 0 .. MaxFault
    BY <1>1, <1>4, <1>8, <2>3
  <2>5. phase \in Phases /\ cut \subseteq Schedulers /\ timers \subseteq Fault /\ firing \subseteq Fault /\ todo \subseteq Proc
    BY <2>3 DEF Phases
  <2> QED
    BY <1>7, <2>1, <2>2, <2>4, <2>5, Zenon DEF TypeOK, Row
<1>10. CurrentKnown
  BY <1>5, <1>6 DEF Init, CurrentKnown
<1>11. TimersDistinct /\ FaultsTimed /\ CutsTimed /\ StopTells
  BY DEF Init, TimersDistinct, FaultsTimed, CutsTimed, StopTells
<1>12. FreezesTimed
  BY <1>5, <1>6 DEF FreezesTimed
<1> QED
  BY <1>9, <1>10, <1>11, <1>12 DEF DemoInv

LEMMA DemoNextInv == DemoInv /\ [Next]_vars => DemoInv'
<1> SUFFICES ASSUME DemoInv, [Next]_vars PROVE DemoInv'
  OBVIOUS
<1>1. ASSUME NEW p \in Proc, Request(p) \/ Launch(p) PROVE DemoInv'
  BY <1>1, KillInv, TerminateInv, FreezeInv, PartitionInv, RestartCheckInv, ClearInv, LaunchInv
     DEF Request
<1>2. CASE Timers
  <2>1. PICK f \in timers \cup firing : TimerGoesOff(f) \/ TimerCallback(f)
    BY <1>2 DEF Timers
  <2>2. CASE TimerGoesOff(f)
    BY <2>2, TimerGoesOffInv DEF TimerGoesOff
  <2>3. CASE TimerCallback(f)
    BY <2>3, TimerCallbackInv DEF TimerCallback
  <2> QED
    BY <2>1, <2>2, <2>3
<1>3. ASSUME NEW i \in Pids, Exit(i) \/ Reap(i) PROVE DemoInv'
  BY <1>3, ExitInv, ReapInv
<1>4. CASE BeginStop \/ Stopping
  BY <1>4, BeginStopInv, StopClearsInv, StopLoopInv, StopReturnsInv DEF Stopping
<1>5. CASE UNCHANGED vars
  <2>1. UNCHANGED <<cmd, state, fault, cut, timers, firing, requests, os>>
    BY <1>5 DEF vars, requests
  <2> QED
    BY <2>1, TableSame, TableOnlyInv
<1> QED
  BY <1>1, <1>2, <1>3, <1>4, <1>5 DEF Next, Closed

LEMMA DemoInvariant == Spec => []DemoInv
BY DemoInitInv, DemoNextInv, PTL DEF Spec

\* The supervisor's own bookkeeping keeps its types: every process has a current
\* pid, which is gone if it is reported as exited, a fault belongs to the process it is recorded under, and only schedulers,
\* which have a proxy, are cut off.
THEOREM DemoTypeCorrect == Spec => []TypeOK
<1>1. DemoInv => TypeOK
  BY DEF DemoInv
<1> QED
  BY <1>1, DemoInvariant, PTL

\* "A freeze or partition always ends by itself" (supervisor.go): whatever the
\* requests do, a fault in progress has its timer, and a link is cut only under
\* a partition in progress.
THEOREM CutsAreTimed == Spec => [](FaultsTimed /\ CutsTimed)
<1>1. DemoInv => FaultsTimed /\ CutsTimed
  BY DEF DemoInv
<1> QED
  BY <1>1, DemoInvariant, PTL

\* The same holds of freezes: however launches overlap, the process that the
\* supervisor has for a name is stopped only under a freeze in progress, whose
\* timer will resume it (armLocked, clearFaultLocked).
THEOREM DisruptionsAreTimed == Spec => []DisruptionIsTimed
<1>1. DemoInv => DisruptionIsTimed
  BY DEF DemoInv, FaultsTimed, CutsTimed, FreezesTimed, DisruptionIsTimed, Frozen
<1> QED
  BY <1>1, DemoInvariant, PTL

\* "Stop ends faults, terminates every process": of the processes it can find
\* when it signals, each has been told to end before Stop waits, and has ended
\* before it closes the proxies, whatever requests are served meanwhile.
THEOREM StopReachesAll == Spec => []StopReachesEveryProcess
<1>1. DemoInv => StopReachesEveryProcess
  <2> SUFFICES ASSUME DemoInv, phase \in {"waiting", "closing", "closed"},
                      NEW i \in Pids, Alive(i), InReach(i)
               PROVE  os[i].term /\ phase = "waiting"
    BY DEF StopReachesEveryProcess
  <2>1. os[i].proc \in Proc /\ cmd[os[i].proc] = i /\ ~os[i].late
    BY RowOf DEF DemoInv, InReach, Known
  <2>2. Told(os[i].proc) /\ (phase # "waiting" => Ended(os[i].proc))
    BY <2>1 DEF DemoInv, StopTells
  <2> QED
    BY <2>1, <2>2 DEF Told, Ended
<1> QED
  BY <1>1, DemoInvariant, PTL

\* What a clear or an undo does to the faults.
LEMMA ClearedFault ==
  ASSUME DemoInv, NEW p \in Proc, NEW table, NEW states, ClearFault(p, table, states)
  PROVE  \A q \in Proc : fault'[q] # fault[q] => fault[q] \notin timers'
<1>1. CASE fault[p] = NoFault
  BY <1>1 DEF ClearFault
<1>2. CASE fault[p] # NoFault
  BY <1>2 DEF ClearFault, DemoInv, TypeOK
<1> QED
  BY <1>1, <1>2

\* A timed fault is not cut short by the timer of an earlier one, in any order of
\* requests, timers, exits and Stop: a fault is dropped only when its own timer is
\* no longer armed.
THEOREM FaultsRunTheirCourse == Spec => FaultRunsItsCourse
<1> DEFINE A == \A p \in Proc : fault[p] # NoFault /\ fault'[p] # fault[p] => fault[p] \notin timers'
<1>1. DemoInv /\ [Next]_vars => [A]_vars
  <2> SUFFICES ASSUME DemoInv, Next PROVE A
    OBVIOUS
  <2>1. CASE UNCHANGED fault
    BY <2>1
  <2>2. ASSUME NEW p \in Proc, Freeze(p) \/ Partition(p) PROVE A
    <3>1. fault[p] = NoFault /\ \E f : fault' = [fault EXCEPT ![p] = f]
      BY <2>2 DEF Freeze, Partition, MayFault, Arm
    <3> QED
      BY <3>1 DEF DemoInv, TypeOK
  <2>3. ASSUME NEW p \in Proc, Clear(p) \/ StopClears(p) PROVE A
    <3>1. ClearFault(p, os, state)
      BY <2>3 DEF Clear, StopClears
    <3> QED
      BY <3>1, ClearedFault
  <2>4. ASSUME NEW i \in Pids, Reap(i) PROVE A
    <3>1. os[i].proc \in Proc
      BY RowOf DEF DemoInv
    <3>2. UNCHANGED fault \/ \E table, states : ClearFault(os[i].proc, table, states)
      BY <2>4 DEF Reap
    <3> QED
      BY <3>1, <3>2, ClearedFault
  <2>5. ASSUME NEW f \in firing, TimerCallback(f) PROVE A
    <3>1. f \notin timers /\ timers' = timers
      BY <2>5 DEF TimerCallback, DemoInv, TimersDistinct
    <3>2. \/ UNCHANGED fault
          \/ fault[f.proc] = f /\ fault' = [fault EXCEPT ![f.proc] = NoFault]
      BY <2>5 DEF TimerCallback, IsCurrent
    <3> QED
      BY <3>1, <3>2 DEF DemoInv, TypeOK
  <2>6. ASSUME NEW p \in Proc,
               \/ Kill(p) \/ Terminate(p) \/ RestartCheck(p) \/ Launch(p)
               \/ StopSignals(p) \/ StopWaits(p)
        PROVE  UNCHANGED fault
    BY <2>6 DEF Kill, Terminate, RestartCheck, Launch, StopSignals, StopWaits
  <2>7. ASSUME NEW f, TimerGoesOff(f) PROVE UNCHANGED fault
    BY <2>7 DEF TimerGoesOff
  <2>8. ASSUME NEW i \in Pids, Exit(i) PROVE UNCHANGED fault
    BY <2>8 DEF Exit
  <2>9. ASSUME BeginStop \/ StopReturns \/ Closed PROVE UNCHANGED fault
    BY <2>9 DEF BeginStop, StopReturns, Closed, vars
  <2>10. ASSUME Timers PROVE A
    <3>1. PICK f \in timers \cup firing : TimerGoesOff(f) \/ TimerCallback(f)
      BY <2>10 DEF Timers
    <3>2. CASE TimerCallback(f)
      BY <2>5, <3>2 DEF TimerCallback
    <3> QED
      BY <2>1, <2>7, <3>1, <3>2
  <2> HIDE DEF A
  <2>11. ASSUME NEW p \in Proc, Request(p) \/ Launch(p) PROVE A
    BY <2>1, <2>2, <2>3, <2>6, <2>11 DEF Request
  <2>12. ASSUME Stopping PROVE A
    BY <2>1, <2>3, <2>6, <2>9, <2>12 DEF Stopping
  <2> QED
    BY <2>1, <2>4, <2>8, <2>9, <2>10, <2>11, <2>12 DEF Next
<1> QED
  BY <1>1, DemoInvariant, PTL DEF Spec, FaultRunsItsCourse
=============================================================================
