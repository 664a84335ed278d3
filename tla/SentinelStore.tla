--------------------------- MODULE SentinelStore ----------------------------
(***************************************************************************)
(* Redis as the fault experiments see it: a master that clients find        *)
(* through Sentinel, replicas that copy it asynchronously over a link that  *)
(* can be cut (internal/netfault), and a promotion when the master dies     *)
(* (cmd/storefaultbench/cluster.go).  A cell is what one node holds for one *)
(* namespace: the lease with the time it has left, the epoch counter, the   *)
(* fence, and the epochs of the execution stream.                           *)
(***************************************************************************)
EXTENDS Integers, Sequences, FiniteSets

CONSTANTS
  Schedulers,   \* scheduler replicas: owner names of the lease
  MaxEpoch      \* bound on the number of grants

ASSUME StoreAssumption ==
  /\ IsFiniteSet(Schedulers)
  /\ MaxEpoch \in Nat

VARIABLES
  db,       \* what each node holds
  master,   \* the node Sentinel names
  alive,    \* the nodes that run
  online,   \* the replicas the master sees online
  link      \* replication path: "up" or "cut"

storeVars == <<db, master, alive, online, link>>

NoGrant == [owner |-> "nobody", epoch |-> 0]

Grant == [owner : Schedulers, epoch : 1 .. MaxEpoch] \cup {NoGrant}

EmptyCell == [holder |-> NoGrant, left |-> 0, counter |-> 0, fence |-> 0, log |-> <<>>]

\* startCluster waits for all n replicas to be online.
ReplicasOnline(n) == 2 .. n + 1

\* Node 1 starts as the master, and Sentinel knows it.
StoreInit(n) ==
  /\ db = [i \in 1 .. n + 1 |-> EmptyCell]
  /\ master = 1
  /\ alive = {1} \cup ReplicasOnline(n)
  /\ online = ReplicasOnline(n)
  /\ link = "up"

\* What a client using Sentinel discovery reads.
Current == db[master]

Reachable == master \in alive

\* min-replicas-to-write is set on the first master only: replicas start
\* without it.
Writable(min) ==
  /\ Reachable
  /\ master = 1 => Cardinality(online) >= min

ReplicationLive == online # {}

WriteCell(cell) == db' = [db EXCEPT ![master] = cell]

-----------------------------------------------------------------------------
(***************************************************************************)
(* Replication and failover.                                                *)
(***************************************************************************)
Replicate(i) ==
  /\ Reachable /\ link = "up" /\ i \in online
  /\ db[i] # Current
  /\ db' = [db EXCEPT ![i] = Current]
  /\ UNCHANGED <<master, alive, online, link>>

CutReplication ==
  /\ link' = "cut"
  /\ UNCHANGED <<db, master, alive, online>>

\* The master sees that the replicas are gone: the state waitReplicationDown
\* polls for.
NoticeDown ==
  /\ link = "cut" /\ ReplicationLive
  /\ online' = {}
  /\ UNCHANGED <<db, master, alive, link>>

\* Sentinel reconfigures the replicas whose master address it does not know:
\* the injected partition is undone.
SentinelRepairs ==
  /\ Reachable /\ link = "cut" /\ ~ReplicationLive
  /\ link' = "up"
  /\ online' = alive \ {master}
  /\ UNCHANGED <<db, master, alive>>

\* SIGKILL, never a shutdown that would wait for the replicas.
Crashed(i) == alive \ {i}

\* The links heal once the master is gone.
KillMaster ==
  /\ alive' = Crashed(master)
  /\ online' = {}
  /\ link' = "up"
  /\ UNCHANGED <<db, master>>

\* Every node is killed at the end.
StopCluster == alive' = {} /\ online' = {}

\* Sentinel promotes a replica that has received the most; the others follow.
Promote ==
  /\ ~Reachable
  /\ \E i \in alive :
       /\ \A j \in alive : db[j].counter <= db[i].counter
       /\ master' = i
       /\ online' = alive \ {i}
  /\ UNCHANGED <<db, alive, link>>

\* Every key with a TTL ages, on every node: expiry times are absolute.
Aged(cell) ==
  [cell EXCEPT
     !.left = IF @ > 0 THEN @ - 1 ELSE 0,
     !.holder = IF cell.left <= 1 THEN NoGrant ELSE @]

StoreTypeOK ==
  /\ master \in DOMAIN db
  /\ alive \subseteq DOMAIN db
  /\ online \subseteq alive
  /\ link \in {"up", "cut"}
  /\ \A i \in DOMAIN db :
       /\ db[i].holder \in Grant
       /\ db[i].counter \in 0 .. MaxEpoch
       /\ db[i].fence \in 0 .. MaxEpoch
       /\ \A k \in DOMAIN db[i].log : db[i].log[k] \in 1 .. MaxEpoch
=============================================================================
