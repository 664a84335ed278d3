---------------------------- MODULE LeaderLease -----------------------------
(***************************************************************************)
(* Leader election between scheduler replicas: the lease of internal/lease, *)
(* the campaign loop of each replica, and the epoch fence that every write  *)
(* of a leader passes (fenceGuard in internal/broker/scripts.go).           *)
(*                                                                          *)
(* Time is abstracted: a grant may lapse at any moment, because a holder    *)
(* can be paused for longer than any TTL.  A pause is a process that takes  *)
(* no step, so a superseded leader may resume at any later time.  A renewal *)
(* that succeeds only moves the expiry, and one whose reply is lost changes *)
(* nothing: neither is a step here.                                         *)
(***************************************************************************)
EXTENDS Integers, Sequences, EpochFence

CONSTANTS
  Schedulers,     \* scheduler replicas: owner names of the lease
  MaxEpoch,       \* bound on the number of grants
  MaxLog          \* bound on the number of logged dispatches

ASSUME LeaseAssumption == MaxEpoch \in Nat /\ MaxLog \in Nat

VARIABLES
  holder,   \* Redis: the grant "<owner>|<epoch>", or NoGrant
  counter,  \* Redis: the epoch counter
  log,      \* Redis: the epochs stamped on the dispatches, in stream order
  pc,       \* where each replica is in Campaign and serveTerm
  term,     \* the epoch of the term a replica is in, NoEpoch outside
  value,    \* the epoch of the grant its Lease remembers, NoEpoch if none
  why       \* why its term is ending

redisVars == <<holder, counter, fence, log>>
localVars == <<pc, term, value, why>>
vars == <<redisVars, localVars>>

Grant == [owner : Schedulers, epoch : 1 .. MaxEpoch]

NoGrant == [owner |-> "nobody", epoch |-> NoEpoch]

Phases == {"standby", "granted", "restoring", "serving", "ending",
           "releasing", "stopped", "wedged", "down"}

Reasons == {"lost", "cancelled", "failed", "fenced"}

TypeOK ==
  /\ holder \in Grant \cup {NoGrant}
  /\ counter \in 0 .. MaxEpoch
  /\ fence \in 0 .. MaxEpoch
  /\ log \in Seq(1 .. MaxEpoch)
  /\ pc \in [Schedulers -> Phases]
  /\ term \in [Schedulers -> 0 .. MaxEpoch]
  /\ value \in [Schedulers -> 0 .. MaxEpoch]
  /\ why \in [Schedulers -> SUBSET Reasons]

Init ==
  /\ holder = NoGrant
  /\ counter = 0
  /\ fence = 0
  /\ log = <<>>
  /\ pc = [s \in Schedulers |-> "standby"]
  /\ term = [s \in Schedulers |-> NoEpoch]
  /\ value = [s \in Schedulers |-> NoEpoch]
  /\ why = [s \in Schedulers |-> {}]

GrantOf(s, epoch) == [owner |-> s, epoch |-> epoch]

Goto(s, phase) == pc' = [pc EXCEPT ![s] = phase]

-----------------------------------------------------------------------------
(***************************************************************************)
(* The lease scripts.                                                       *)
(***************************************************************************)
\* acquireScript: EXISTS holder.
LeaseFree == holder = NoGrant

\* Defect: the key is deleted whoever holds it.
DefectDeleteAny(s, epoch) == holder' = NoGrant

\* releaseScript: compare with the exact grant, then delete.
CompareAndDelete(s, epoch) ==
  holder' = IF holder = GrantOf(s, epoch) THEN NoGrant ELSE holder

\* Defect: the key is written without a TTL.
DefectNoExpiry == FALSE /\ UNCHANGED vars

\* The TTL runs out.
LeaseExpires ==
  /\ holder # NoGrant
  /\ holder' = NoGrant
  /\ UNCHANGED <<counter, fence, log, localVars>>

-----------------------------------------------------------------------------
(***************************************************************************)
(* Campaign.                                                                *)
(***************************************************************************)
\* Defect: the epoch is read back instead of incremented.
DefectReuseEpoch == IF counter = 0 THEN 1 ELSE counter

\* Defect: the counter is incremented twice.
DefectSkipEpoch == counter + 2

\* acquireScript: INCR epochCounter.
NextEpoch == counter + 1

Acquire(s) ==
  /\ pc[s] = "standby"
  /\ LeaseFree
  /\ counter < MaxEpoch
  /\ counter' = NextEpoch
  /\ holder' = GrantOf(s, NextEpoch)
  /\ term' = [term EXCEPT ![s] = NextEpoch]
  /\ Goto(s, "granted")
  /\ UNCHANGED <<fence, log, value, why>>

\* Acquire returns true: the epoch is durable and the grant remembered; the
\* term starts with restoreState.
GrantTaken(s) ==
  /\ pc[s] = "granted"
  /\ value' = [value EXCEPT ![s] = term[s]]
  /\ Goto(s, "restoring")
  /\ UNCHANGED <<redisVars, term, why>>

\* Acquire fails after the script ran: the reply was lost (the key stays until
\* its TTL), or too few replicas confirmed the epoch and the grant is handed
\* back, if that call gets through.
GrantAbandoned(s) ==
  /\ pc[s] = "granted"
  /\ CompareAndDelete(s, term[s]) \/ UNCHANGED holder
  /\ term' = [term EXCEPT ![s] = NoEpoch]
  /\ Goto(s, "standby")
  /\ UNCHANGED <<counter, fence, log, value, why>>

-----------------------------------------------------------------------------
(***************************************************************************)
(* A term: serveTerm renews while lead restores the policy state and then   *)
(* serves.  The lead goroutine keeps writing until it notices.              *)
(***************************************************************************)
\* The term context is cancelled.
TermOver(s) == why[s] \cap {"lost", "cancelled"} # {}

Restored(s) ==
  /\ pc[s] = "restoring"
  /\ Goto(s, IF TermOver(s) THEN "ending" ELSE "serving")
  /\ UNCHANGED <<redisVars, term, value, why>>

\* The cancelled context ends restoreState, which is no failure of lead.
RestoreCancelled(s) ==
  /\ pc[s] = "restoring"
  /\ TermOver(s)
  /\ Goto(s, "releasing")
  /\ UNCHANGED <<redisVars, term, value, why>>

\* restoreState returns an error: lead returns it, and so will Campaign.
RestoreFails(s) ==
  /\ pc[s] = "restoring"
  /\ why' = [why EXCEPT ![s] = @ \cup {"failed"}]
  /\ Goto(s, "releasing")
  /\ UNCHANGED <<redisVars, term, value>>

\* The loops of a serving leader unwind; a restore in progress goes on.
Unwind(s) == Goto(s, IF pc[s] = "serving" THEN "ending" ELSE pc[s])

\* A renewal finds another grant, or none: the term context is cancelled, and
\* no renewal follows.
RenewLost(s) ==
  /\ pc[s] \in {"restoring", "serving", "ending"}
  /\ ~TermOver(s)
  /\ holder # GrantOf(s, value[s])
  /\ value' = [value EXCEPT ![s] = NoEpoch]
  /\ why' = [why EXCEPT ![s] = @ \cup {"lost"}]
  /\ Unwind(s)
  /\ UNCHANGED <<redisVars, term>>

\* The process is asked to stop, between terms or during one.
CancelStandby(s) ==
  /\ pc[s] = "standby"
  /\ Goto(s, "stopped")
  /\ UNCHANGED <<redisVars, term, value, why>>

CancelTerm(s) ==
  /\ pc[s] \in {"restoring", "serving", "ending", "releasing"}
  /\ why' = [why EXCEPT ![s] = @ \cup {"cancelled"}]
  /\ Unwind(s)
  /\ UNCHANGED <<redisVars, term, value>>

\* While a replica leads, and while its loops unwind, the final state flush
\* included, it may write.
MayWrite(s) == pc[s] \in {"serving", "ending"} /\ "fenced" \notin why[s]

\* An accepted admission or state flush.
WriteAccepted(s) ==
  /\ MayWrite(s)
  /\ ~Fenced(term[s])
  /\ RaiseFence(term[s])
  /\ UNCHANGED <<holder, counter, log, localVars>>

\* An accepted dispatch pass: its deliveries are stamped with the epoch.
DispatchAccepted(s) ==
  /\ MayWrite(s)
  /\ ~Fenced(term[s])
  /\ RaiseFence(term[s])
  /\ \E n \in 1 .. MaxLog - Len(log) : log' = log \o [i \in 1 .. n |-> term[s]]
  /\ UNCHANGED <<holder, counter, localVars>>

\* Defect: the refusal is logged and the loops go on.
DefectRefusalIgnored(s) ==
  /\ MayWrite(s)
  /\ Fenced(term[s])
  /\ UNCHANGED vars

\* Any refused write: the loops are demoted and the final flush is skipped.
WriteRefused(s) ==
  /\ MayWrite(s)
  /\ Fenced(term[s])
  /\ why' = [why EXCEPT ![s] = @ \cup {"fenced"}]
  /\ Goto(s, "ending")
  /\ UNCHANGED <<redisVars, term, value>>

LeadReturns(s) ==
  /\ pc[s] = "ending"
  /\ Goto(s, "releasing")
  /\ UNCHANGED <<redisVars, term, value, why>>

\* Campaign after serveTerm: an error from lead ends the loop for good, a
\* cancelled context ends the process, anything else is another campaign.
AfterTerm(s) ==
  IF "failed" \in why[s] THEN "wedged"
  ELSE IF "cancelled" \in why[s] THEN "stopped" ELSE "standby"

\* The end of serveTerm: the grant is released unless a renewal found it gone;
\* the call may fail to reach Redis.
Release(s) ==
  /\ pc[s] = "releasing"
  /\ \/ "lost" \notin why[s] /\ CompareAndDelete(s, value[s])
     \/ UNCHANGED holder
  /\ value' = [value EXCEPT ![s] = NoEpoch]
  /\ term' = [term EXCEPT ![s] = NoEpoch]
  /\ why' = [why EXCEPT ![s] = {}]
  /\ Goto(s, AfterTerm(s))
  /\ UNCHANGED <<counter, fence, log>>

-----------------------------------------------------------------------------
Crash(s) ==
  /\ pc[s] \notin {"down", "stopped"}
  /\ Goto(s, "down")
  /\ term' = [term EXCEPT ![s] = NoEpoch]
  /\ value' = [value EXCEPT ![s] = NoEpoch]
  /\ why' = [why EXCEPT ![s] = {}]
  /\ UNCHANGED redisVars

Restart(s) ==
  /\ pc[s] \in {"down", "stopped"}
  /\ Goto(s, "standby")
  /\ UNCHANGED <<redisVars, term, value, why>>

TermStep(s) ==
  \/ Restored(s)
  \/ RestoreCancelled(s)
  \/ RestoreFails(s)
  \/ RenewLost(s)
  \/ WriteAccepted(s)
  \/ DispatchAccepted(s)
  \/ WriteRefused(s)
  \/ LeadReturns(s)
  \/ Release(s)

Next ==
  \/ LeaseExpires
  \/ \E s \in Schedulers :
       \/ Acquire(s)
       \/ GrantTaken(s)
       \/ GrantAbandoned(s)
       \/ TermStep(s)
       \/ CancelStandby(s)
       \/ CancelTerm(s)
       \/ Crash(s)
       \/ Restart(s)

Spec == Init /\ [][Next]_vars

(***************************************************************************)
(* The loops of a leader write at every tick, and serveTerm runs to its     *)
(* end; an abandoned grant is not renewed, so it lapses.  Nothing is        *)
(* assumed of crashes, restarts, cancellations, or of renewals happening.   *)
(***************************************************************************)
Unrenewed == holder # NoGrant /\ \A s \in Schedulers : holder # GrantOf(s, value[s])

Fairness ==
  /\ WF_vars(Unrenewed /\ LeaseExpires)
  /\ \A s \in Schedulers :
       /\ WF_vars(Acquire(s))
       /\ WF_vars(GrantTaken(s) \/ GrantAbandoned(s))
       /\ WF_vars(Restored(s) \/ RestoreCancelled(s) \/ RestoreFails(s))
       /\ WF_vars(WriteRefused(s))
       /\ WF_vars(LeadReturns(s))
       /\ WF_vars(Release(s))

FairSpec == Spec /\ Fairness
-----------------------------------------------------------------------------
(***************************************************************************)
(* Properties.                                                              *)
(***************************************************************************)
\* The claim of dispatchScript: read in stream order, the epochs of the dispatch
\* log never go backwards, however long a superseded leader was paused.
EpochsNeverGoBackwards ==
  \A i, j \in 1 .. Len(log) : i <= j => log[i] <= log[j]

\* The replica whose grant is in Redis is never locked out by the fence: no other
\* replica can have written with a higher epoch.
HolderNeverFenced ==
  \A s \in Schedulers : holder = GrantOf(s, term[s]) => ~Fenced(term[s])

\* Two replicas are never in the same term, in any phase of it: an epoch names
\* one leader even after its grant was lost, abandoned or released.
TermsUnique ==
  \A s1, s2 \in Schedulers : s1 # s2 /\ term[s1] # NoEpoch => term[s1] # term[s2]

\* Redis never grants an epoch that a write or a running term already carries:
\* the grant in Redis is the newest, and so is the counter.
GrantIsNewest ==
  /\ holder # NoGrant => holder.epoch = counter
  /\ fence <= counter
  /\ \A s \in Schedulers : term[s] <= counter

\* A grant ends by its TTL or by a call of its own holder: no replica that ends a
\* term, gives up a grant or campaigns removes the grant of the one that replaced
\* it (releaseScript: "only if we still hold it").
GrantEndsProperly ==
  [][holder # NoGrant /\ holder' # holder =>
       \/ LeaseExpires
       \/ Release(holder.owner)
       \/ GrantAbandoned(holder.owner)]_vars

\* What the scheduler's loops rely on: every behaviour of the lease, its grants and
\* the fence is one of module LeaderTerms, where epochs are handed out in order
\* and a write is accepted only while no newer term has written.
Terms == INSTANCE LeaderTerms

ImplementsTerms == Terms!Spec

\* A leader that a successor has written past stands down, though its lease
\* renewals never run: the fence alone ends its term.
SupersededStandsDown ==
  \A s \in Schedulers :
    (pc[s] = "serving" /\ Fenced(term[s])) ~> pc[s] # "serving"

\* No replica stands by for ever in front of a lease that is free or that nobody
\* remembers holding (its holder crashed, or never received the reply), while
\* there are epochs left to grant.
StandbyTakesOver ==
  \A s \in Schedulers :
    []<>~(/\ pc[s] = "standby"
          /\ counter < MaxEpoch
          /\ holder = NoGrant \/ Unrenewed)

\* engine.go, Ready: a standby "is connected, campaigning, and one lease expiry
\* away from serving".  A replica that is up campaigns or is in a term.
ReadyIsCampaigning ==
  \A s \in Schedulers : pc[s] # "wedged"

=============================================================================
