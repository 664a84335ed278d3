------------------------ MODULE LeaderLease_proofs --------------------------
(***************************************************************************)
(* The safety of the lease and the fence, for every number of replicas,     *)
(* grants and logged dispatches.                                            *)
(***************************************************************************)
EXTENDS LeaderLease, SequenceTheorems, TLAPS

(***************************************************************************)
(* The inductive invariant.  Exactly the replicas in a term have an epoch;  *)
(* the log lies below the fence, and the fence, the terms and the grant lie *)
(* below the counter: so a new epoch is above everything, and an accepted   *)
(* write is above everything logged.                                        *)
(***************************************************************************)
InTerm == {"granted", "restoring", "serving", "ending", "releasing"}

TermsHaveEpochs == \A s \in Schedulers : pc[s] \in InTerm <=> term[s] # NoEpoch

LogBelowFence == \A i \in 1 .. Len(log) : log[i] <= fence

LeaseInv ==
  /\ TypeOK
  /\ TermsHaveEpochs
  /\ GrantIsNewest
  /\ TermsUnique
  /\ LogBelowFence
  /\ EpochsNeverGoBackwards

USE LeaseAssumption DEF LeaseAssumption

LEMMA InitInv == Init => LeaseInv
<1> SUFFICES ASSUME Init PROVE LeaseInv
  OBVIOUS
<1> USE DEF Init
<1>1. TypeOK
  BY DEF TypeOK, NoGrant, Phases, NoEpoch
<1>2. TermsHaveEpochs
  BY DEF TermsHaveEpochs, InTerm
<1>3. GrantIsNewest
  BY DEF GrantIsNewest, NoEpoch
<1>4. TermsUnique
  BY DEF TermsUnique, NoEpoch
<1>5. LogBelowFence /\ EpochsNeverGoBackwards
  BY DEF LogBelowFence, EpochsNeverGoBackwards
<1> QED
  BY <1>1, <1>2, <1>3, <1>4, <1>5 DEF LeaseInv

\* A step that leaves Redis alone and gives no replica a new epoch.
LEMMA LocalStep ==
  ASSUME LeaseInv, TypeOK', TermsHaveEpochs',
         UNCHANGED <<counter, fence, log>>,
         holder' = holder \/ holder' = NoGrant,
         \A s \in Schedulers : term'[s] = term[s] \/ term'[s] = NoEpoch
  PROVE  LeaseInv'
<1>1. GrantIsNewest'
  <2>1. counter \in Nat /\ NoEpoch <= counter
    BY DEF LeaseInv, TypeOK, NoEpoch
  <2>2. \A s \in Schedulers : term'[s] <= counter'
    BY <2>1 DEF LeaseInv, GrantIsNewest
  <2>3. holder' # NoGrant => holder'.epoch = counter'
    BY DEF LeaseInv, GrantIsNewest
  <2>4. fence' <= counter'
    BY DEF LeaseInv, GrantIsNewest
  <2> QED
    BY <2>2, <2>3, <2>4 DEF GrantIsNewest
<1>2. TermsUnique'
  BY DEF LeaseInv, TypeOK, TermsUnique, NoEpoch
<1>3. LogBelowFence' /\ EpochsNeverGoBackwards'
  BY DEF LeaseInv, LogBelowFence, EpochsNeverGoBackwards
<1> QED
  BY <1>1, <1>2, <1>3 DEF LeaseInv

LEMMA AcquireInv ==
  ASSUME LeaseInv, NEW s \in Schedulers, Acquire(s)
  PROVE  LeaseInv'
<1> USE DEF Acquire, NextEpoch, GrantOf, Goto
<1>0. /\ counter \in Nat /\ counter + 1 \in 1 .. MaxEpoch
      /\ TypeOK
  BY DEF LeaseInv, TypeOK
<1>1. TypeOK'
  BY <1>0 DEF TypeOK, Grant, Phases
<1>2. TermsHaveEpochs'
  BY <1>0 DEF LeaseInv, TermsHaveEpochs, TypeOK, NoEpoch, InTerm
<1>3. GrantIsNewest'
  BY <1>0 DEF LeaseInv, GrantIsNewest, TypeOK
<1>4. TermsUnique'
  BY <1>0 DEF LeaseInv, TermsUnique, GrantIsNewest, TypeOK
<1>5. LogBelowFence' /\ EpochsNeverGoBackwards'
  BY DEF LeaseInv, LogBelowFence, EpochsNeverGoBackwards
<1> QED
  BY <1>1, <1>2, <1>3, <1>4, <1>5 DEF LeaseInv

\* An accepted write raises the fence to its own epoch, and no further.
LEMMA RaiseFenceInv ==
  ASSUME LeaseInv, NEW s \in Schedulers,
         MayWrite(s), ~Fenced(term[s]), RaiseFence(term[s])
  PROVE  /\ fence' = term[s]
         /\ fence <= fence'
         /\ fence' \in 1 .. MaxEpoch
         /\ fence' <= counter
<1>1. term[s] \in 0 .. MaxEpoch /\ term[s] # 0 /\ term[s] <= counter /\ fence \in 0 .. MaxEpoch
  BY DEF LeaseInv, TypeOK, TermsHaveEpochs, GrantIsNewest, MayWrite, InTerm, NoEpoch
<1> QED
  BY <1>1 DEF Fenced, RaiseFence

LEMMA WriteAcceptedInv ==
  ASSUME LeaseInv, NEW s \in Schedulers, WriteAccepted(s)
  PROVE  LeaseInv'
<1> USE DEF WriteAccepted, localVars
<1>0. fence <= fence' /\ fence' \in 1 .. MaxEpoch /\ fence' <= counter
  BY RaiseFenceInv
<1>1. TypeOK'
  BY <1>0 DEF LeaseInv, TypeOK
<1>2. TermsHaveEpochs' /\ TermsUnique' /\ EpochsNeverGoBackwards'
  BY DEF LeaseInv, TermsHaveEpochs, TermsUnique, EpochsNeverGoBackwards
<1>3. GrantIsNewest'
  BY <1>0 DEF LeaseInv, GrantIsNewest
<1>4. LogBelowFence'
  BY <1>0 DEF LeaseInv, LogBelowFence, TypeOK
<1> QED
  BY <1>1, <1>2, <1>3, <1>4 DEF LeaseInv

\* What a dispatch pass appends to the log.
LEMMA LogExtends ==
  ASSUME NEW E, NEW l \in Seq(E), NEW e \in E, NEW n \in Nat,
         NEW m, m = l \o [i \in 1 .. n |-> e]
  PROVE  /\ m \in Seq(E)
         /\ \A i \in 1 .. Len(m) :
              (i <= Len(l) /\ m[i] = l[i]) \/ (i > Len(l) /\ m[i] = e)
<1> DEFINE d == [i \in 1 .. n |-> e]
<1>1. d \in Seq(E) /\ Len(d) = n /\ \A i \in 1 .. n : d[i] = e
  OBVIOUS
<1>a. m = l \o d
  OBVIOUS
<1> HIDE DEF d
<1>2. /\ m \in Seq(E) /\ Len(m) = Len(l) + Len(d)
      /\ \A i \in 1 .. Len(l) + Len(d) : m[i] = IF i <= Len(l) THEN l[i] ELSE d[i - Len(l)]
  <2>1. /\ l \o d \in Seq(E) /\ Len(l \o d) = Len(l) + Len(d)
        /\ \A i \in 1 .. Len(l) + Len(d) :
             (l \o d)[i] = IF i <= Len(l) THEN l[i] ELSE d[i - Len(l)]
    BY <1>1, ConcatProperties, Zenon
  <2> QED
    BY <1>a, <2>1, Zenon
<1>3. Len(l) \in Nat
  OBVIOUS
<1>4. ASSUME NEW i \in 1 .. Len(m), ~(i <= Len(l))
      PROVE  i > Len(l) /\ m[i] = e
  <2>1. i \in 1 .. Len(l) + Len(d) /\ i > Len(l) /\ i - Len(l) \in 1 .. n
    BY <1>1, <1>2, <1>3, <1>4
  <2>2. m[i] = d[i - Len(l)]
    BY <1>2, <1>4, <2>1
  <2> QED
    BY <1>1, <2>1, <2>2
<1>5. \A i \in 1 .. Len(m) : (i <= Len(l) /\ m[i] = l[i]) \/ (i > Len(l) /\ m[i] = e)
  BY <1>2, <1>4
<1> QED
  BY <1>2, <1>5

LEMMA DispatchAcceptedInv ==
  ASSUME LeaseInv, NEW s \in Schedulers, DispatchAccepted(s)
  PROVE  LeaseInv'
<1>0. /\ fence' = term[s] /\ fence <= fence'
      /\ fence' \in 1 .. MaxEpoch /\ fence' <= counter
  BY RaiseFenceInv DEF DispatchAccepted
<1>a. log \in Seq(1 .. MaxEpoch) /\ fence \in 0 .. MaxEpoch /\ Len(log) \in Nat
  BY DEF LeaseInv, TypeOK
<1>b. /\ log' \in Seq(1 .. MaxEpoch) /\ Len(log') \in Nat
      /\ \A i \in 1 .. Len(log') :
           (i <= Len(log) /\ log'[i] = log[i]) \/ (i > Len(log) /\ log'[i] = fence')
  <2>1. PICK n \in 1 .. MaxLog - Len(log) : log' = log \o [i \in 1 .. n |-> term[s]]
    BY DEF DispatchAccepted
  <2>2. n \in Nat /\ term[s] \in 1 .. MaxEpoch
    BY <1>0
  <2>3. /\ log' \in Seq(1 .. MaxEpoch)
        /\ \A i \in 1 .. Len(log') :
             (i <= Len(log) /\ log'[i] = log[i]) \/ (i > Len(log) /\ log'[i] = term[s])
    BY <1>a, <2>1, <2>2, LogExtends
  <2> QED
    BY <1>0, <2>3
<1>c. UNCHANGED <<holder, counter, localVars>>
  BY DEF DispatchAccepted
<1>1. TypeOK'
  BY <1>0, <1>b, <1>c DEF LeaseInv, TypeOK, localVars
<1>2. TermsHaveEpochs' /\ TermsUnique'
  BY <1>c DEF LeaseInv, TermsHaveEpochs, TermsUnique, localVars
<1>3. GrantIsNewest'
  BY <1>0, <1>c DEF LeaseInv, GrantIsNewest, localVars
<1>d. \A i \in 1 .. Len(log) : log[i] \in 1 .. MaxEpoch /\ log[i] <= fence
  BY <1>a DEF LeaseInv, LogBelowFence
<1>4. LogBelowFence'
  BY <1>0, <1>a, <1>b, <1>d DEF LogBelowFence
<1>5. EpochsNeverGoBackwards'
  <2> SUFFICES ASSUME NEW i \in 1 .. Len(log'), NEW j \in 1 .. Len(log'), i <= j
               PROVE  log'[i] <= log'[j]
    BY DEF EpochsNeverGoBackwards
  <2>1. CASE j <= Len(log)
    <3>1. i \in 1 .. Len(log) /\ j \in 1 .. Len(log)
      BY <1>a, <2>1
    <3>2. log'[i] = log[i] /\ log'[j] = log[j]
      BY <1>a, <1>b, <3>1
    <3> QED
      BY <3>1, <3>2 DEF LeaseInv, EpochsNeverGoBackwards
  <2>2. CASE ~(j <= Len(log))
    <3>1. log'[j] = fence'
      BY <1>b, <2>2
    <3>2. log'[i] <= fence'
      <4>1. CASE i <= Len(log)
        <5>1. i \in 1 .. Len(log) /\ log'[i] = log[i]
          BY <1>a, <1>b, <4>1
        <5>2. log[i] <= fence /\ log[i] \in 1 .. MaxEpoch
          BY <1>d, <5>1
        <5> QED
          BY <1>0, <1>a, <5>1, <5>2
      <4>2. CASE ~(i <= Len(log))
        BY <1>0, <1>b, <4>2
      <4> QED
        BY <4>1, <4>2
    <3> QED
      BY <3>1, <3>2
  <2> QED
    BY <2>1, <2>2
<1> QED
  BY <1>1, <1>2, <1>3, <1>4, <1>5 DEF LeaseInv

\* The steps of a replica that LocalStep covers.
LEMMA CampaignInv ==
  ASSUME LeaseInv, NEW s \in Schedulers,
         \/ GrantTaken(s) \/ GrantAbandoned(s) \/ Release(s)
         \/ Crash(s) \/ Restart(s)
  PROVE  LeaseInv'
<1> USE DEF GrantTaken, GrantAbandoned, Release, Crash, Restart, Goto, redisVars
<1>0. AfterTerm(s) \in {"wedged", "stopped", "standby"}
  BY DEF AfterTerm
<1>1. TypeOK'
  <2>1. holder' \in Grant \cup {NoGrant}
    BY DEF LeaseInv, TypeOK, CompareAndDelete
  <2>2. pc' \in [Schedulers -> Phases]
    BY <1>0 DEF LeaseInv, TypeOK, Phases
  <2>3. /\ term' \in [Schedulers -> 0 .. MaxEpoch]
        /\ value' \in [Schedulers -> 0 .. MaxEpoch]
    <3>1. NoEpoch \in 0 .. MaxEpoch
      BY DEF NoEpoch
    <3>2. /\ term \in [Schedulers -> 0 .. MaxEpoch]
          /\ value \in [Schedulers -> 0 .. MaxEpoch]
      BY DEF LeaseInv, TypeOK
    <3> QED
      BY <3>1, <3>2
  <2>4. why' \in [Schedulers -> SUBSET Reasons]
    BY DEF LeaseInv, TypeOK
  <2>5. UNCHANGED <<counter, fence, log>>
    OBVIOUS
  <2> QED
    BY <2>1, <2>2, <2>3, <2>4, <2>5 DEF LeaseInv, TypeOK
<1>2. TermsHaveEpochs'
  BY <1>0 DEF LeaseInv, TypeOK, TermsHaveEpochs, InTerm
<1>3. /\ UNCHANGED <<counter, fence, log>>
      /\ holder' = holder \/ holder' = NoGrant
      /\ \A q \in Schedulers : term'[q] = term[q] \/ term'[q] = NoEpoch
  BY DEF LeaseInv, TypeOK, CompareAndDelete
<1> QED
  BY <1>1, <1>2, <1>3, LocalStep

LEMMA TermInv ==
  ASSUME LeaseInv, NEW s \in Schedulers,
         \/ Restored(s) \/ RestoreCancelled(s) \/ RestoreFails(s) \/ RenewLost(s)
         \/ CancelStandby(s) \/ CancelTerm(s)
         \/ WriteRefused(s) \/ LeadReturns(s)
  PROVE  LeaseInv'
<1> USE DEF Restored, RestoreCancelled, RestoreFails, RenewLost, CancelStandby, CancelTerm,
            Unwind, WriteRefused, LeadReturns, Goto, redisVars
<1>1. TypeOK'
  <2>1. pc' \in [Schedulers -> Phases]
    BY DEF LeaseInv, TypeOK, Phases
  <2>2. value' \in [Schedulers -> 0 .. MaxEpoch]
    <3>1. value' = value \/ value' = [value EXCEPT ![s] = NoEpoch]
      BY Zenon
    <3>2. value \in [Schedulers -> 0 .. MaxEpoch] /\ NoEpoch \in 0 .. MaxEpoch
      BY DEF LeaseInv, TypeOK, NoEpoch
    <3> HIDE DEF Restored, RestoreCancelled, RestoreFails, RenewLost, CancelStandby,
                 CancelTerm, WriteRefused, LeadReturns
    <3> QED
      BY <3>1, <3>2
  <2>3. why' \in [Schedulers -> SUBSET Reasons]
    <3>1. why \in [Schedulers -> SUBSET Reasons]
      BY DEF LeaseInv, TypeOK
    <3>2. \A S \in SUBSET Reasons :
            /\ S \cup {"lost"} \in SUBSET Reasons
            /\ S \cup {"failed"} \in SUBSET Reasons
            /\ S \cup {"fenced"} \in SUBSET Reasons
            /\ S \cup {"cancelled"} \in SUBSET Reasons
      BY DEF Reasons
    <3> QED
      BY <3>1, <3>2
  <2>4. UNCHANGED <<holder, counter, fence, log, term>>
    OBVIOUS
  <2> QED
    BY <2>1, <2>2, <2>3, <2>4 DEF LeaseInv, TypeOK
<1>2. TermsHaveEpochs'
  BY DEF LeaseInv, TypeOK, TermsHaveEpochs, InTerm, MayWrite
<1>3. UNCHANGED <<counter, fence, log, holder, term>>
  OBVIOUS
<1> QED
  BY <1>1, <1>2, <1>3, LocalStep

LEMMA NextInv == LeaseInv /\ [Next]_vars => LeaseInv'
<1> SUFFICES ASSUME LeaseInv, [Next]_vars PROVE LeaseInv'
  OBVIOUS
<1>1. CASE LeaseExpires
  <2>1. TypeOK' /\ TermsHaveEpochs'
    BY <1>1 DEF LeaseExpires, localVars, LeaseInv, TypeOK, TermsHaveEpochs
  <2> QED
    BY <2>1, <1>1, LocalStep DEF LeaseExpires, localVars
<1>2. ASSUME NEW s \in Schedulers, Acquire(s) PROVE LeaseInv'
  BY <1>2, AcquireInv
<1>3. ASSUME NEW s \in Schedulers, WriteAccepted(s) PROVE LeaseInv'
  BY <1>3, WriteAcceptedInv
<1>4. ASSUME NEW s \in Schedulers, DispatchAccepted(s) PROVE LeaseInv'
  BY <1>4, DispatchAcceptedInv
<1>5. ASSUME NEW s \in Schedulers,
             \/ GrantTaken(s) \/ GrantAbandoned(s) \/ Release(s)
             \/ Crash(s) \/ Restart(s)
      PROVE  LeaseInv'
  BY <1>5, CampaignInv
<1>6. ASSUME NEW s \in Schedulers,
             \/ Restored(s) \/ RestoreCancelled(s) \/ RestoreFails(s) \/ RenewLost(s)
             \/ CancelStandby(s) \/ CancelTerm(s)
             \/ WriteRefused(s) \/ LeadReturns(s)
      PROVE  LeaseInv'
  BY <1>6, TermInv
<1>7. CASE UNCHANGED vars
  BY <1>7 DEF vars, redisVars, localVars, LeaseInv, TypeOK, TermsHaveEpochs,
              GrantIsNewest, TermsUnique, LogBelowFence, EpochsNeverGoBackwards
<1> QED
  BY <1>1, <1>2, <1>3, <1>4, <1>5, <1>6, <1>7 DEF Next, TermStep

\* The inductive invariant holds in every reachable state.
THEOREM LeaseInvariant == Spec => []LeaseInv
BY InitInv, NextInv, PTL DEF Spec

\* Type correctness of the lease: positions, epochs, the grant and the reasons for
\* which a term ends stay in their ranges.
THEOREM LeaseTypeCorrect == Spec => []TypeOK
<1>1. LeaseInv => TypeOK
  BY DEF LeaseInv
<1> QED
  BY <1>1, LeaseInvariant, PTL

\* Redis never grants an epoch that a write or a running term already carries:
\* acquireScript increments a counter that nothing else exceeds.
THEOREM GrantsAreNewest == Spec => []GrantIsNewest
<1>1. LeaseInv => GrantIsNewest
  BY DEF LeaseInv
<1> QED
  BY <1>1, LeaseInvariant, PTL

\* The epochs of the dispatch log never go backwards, for any number of replicas,
\* terms and dispatches.
THEOREM DispatchLogMonotone == Spec => []EpochsNeverGoBackwards
<1>1. LeaseInv => EpochsNeverGoBackwards
  BY DEF LeaseInv
<1> QED
  BY <1>1, LeaseInvariant, PTL

\* An epoch names one leader: no two replicas are ever in the same term.
THEOREM OneLeaderPerEpoch == Spec => []TermsUnique
<1>1. LeaseInv => TermsUnique
  BY DEF LeaseInv
<1> QED
  BY <1>1, LeaseInvariant, PTL

\* The replica whose grant is in Redis is never refused by the fence.
THEOREM HolderIsNotFenced == Spec => []HolderNeverFenced
<1>1. LeaseInv => HolderNeverFenced
  <2> SUFFICES ASSUME LeaseInv, NEW s \in Schedulers, holder = GrantOf(s, term[s])
               PROVE  ~Fenced(term[s])
    BY DEF HolderNeverFenced
  <2>1. CASE term[s] = NoEpoch
    BY <2>1 DEF Fenced, NoEpoch
  <2>2. CASE term[s] # NoEpoch
    <3>1. holder.epoch = term[s] /\ NoGrant.epoch = NoEpoch
      BY DEF GrantOf, NoGrant
    <3>2. term[s] = counter /\ fence <= counter
      BY <2>2, <3>1 DEF LeaseInv, GrantIsNewest
    <3>3. term[s] \in Nat /\ fence \in Nat
      BY DEF LeaseInv, TypeOK
    <3> QED
      BY <3>2, <3>3 DEF Fenced
  <2> QED
    BY <2>1, <2>2
<1> QED
  BY <1>1, LeaseInvariant, PTL

\* A grant ends only by its TTL or by a call of the replica that holds it.
THEOREM GrantsEndProperly == Spec => GrantEndsProperly
<1>1. [Next]_vars =>
        [holder # NoGrant /\ holder' # holder =>
           \/ LeaseExpires
           \/ Release(holder.owner)
           \/ GrantAbandoned(holder.owner)]_vars
  <2> SUFFICES ASSUME Next, holder # NoGrant, holder' # holder
               PROVE  \/ LeaseExpires
                      \/ Release(holder.owner)
                      \/ GrantAbandoned(holder.owner)
    OBVIOUS
  <2>1. ASSUME NEW s \in Schedulers, GrantAbandoned(s) PROVE s = holder.owner
    BY <2>1 DEF GrantAbandoned, CompareAndDelete, GrantOf
  <2>2. ASSUME NEW s \in Schedulers, Release(s) PROVE s = holder.owner
    BY <2>2 DEF Release, CompareAndDelete, GrantOf
  <2>3. ASSUME NEW s \in Schedulers, Acquire(s) PROVE FALSE
    BY <2>3 DEF Acquire, LeaseFree
  <2>4. ASSUME NEW s \in Schedulers,
               \/ GrantTaken(s) \/ Restored(s) \/ RestoreCancelled(s) \/ RestoreFails(s) \/ RenewLost(s)
               \/ WriteAccepted(s) \/ DispatchAccepted(s) \/ WriteRefused(s)
               \/ LeadReturns(s) \/ CancelStandby(s) \/ CancelTerm(s) \/ Crash(s) \/ Restart(s)
        PROVE  FALSE
    BY <2>4 DEF GrantTaken, Restored, RestoreCancelled, RestoreFails, RenewLost, WriteAccepted,
                DispatchAccepted, WriteRefused, LeadReturns, CancelStandby, CancelTerm, Crash, Restart,
                redisVars
  <2> QED
    BY <2>1, <2>2, <2>3, <2>4 DEF Next, TermStep
<1> QED
  BY <1>1, PTL DEF Spec, GrantEndsProperly

\* Every step of the lease, the fence and the replicas is a step of module
\* LeaderTerms, or changes nothing it speaks of.
LEMMA StepImplementsTerms ==
  LeaseInv /\ [Next]_vars => [Terms!Next]_(Terms!vars)
<1> SUFFICES ASSUME LeaseInv, [Next]_vars
             PROVE  Terms!Next \/ UNCHANGED <<counter, fence, log, term>>
  BY DEF Terms!vars
<1> DEFINE Stutter == UNCHANGED <<counter, fence, log, term>>
<1>1. CASE LeaseExpires \/ UNCHANGED vars
  BY <1>1 DEF LeaseExpires, localVars, vars, redisVars
<1>2. ASSUME NEW s \in Schedulers, Acquire(s) PROVE Terms!Begin(s)
  <2>1. term[s] = 0
    BY <1>2 DEF Acquire, LeaseInv, TermsHaveEpochs, InTerm, NoEpoch
  <2> QED
    BY <1>2, <2>1 DEF Acquire, NextEpoch, Terms!Begin
<1>3. ASSUME NEW s \in Schedulers, GrantAbandoned(s) \/ Release(s) PROVE Terms!End(s)
  <2>1. term[s] # 0
    BY <1>3 DEF GrantAbandoned, Release, LeaseInv, TermsHaveEpochs, InTerm, NoEpoch
  <2> QED
    BY <1>3, <2>1 DEF GrantAbandoned, Release, Terms!End, NoEpoch
<1>4. ASSUME NEW s \in Schedulers, Crash(s) PROVE Terms!End(s) \/ Stutter
  <2>1. CASE term[s] # 0
    BY <1>4, <2>1 DEF Crash, redisVars, Terms!End, NoEpoch
  <2>2. CASE term[s] = 0
    <3>1. term' = term
      BY <1>4, <2>2 DEF Crash, NoEpoch, LeaseInv, TypeOK
    <3> QED
      BY <1>4, <3>1 DEF Crash, redisVars
  <2> QED
    BY <2>1, <2>2
<1>5. ASSUME NEW s \in Schedulers, WriteAccepted(s) \/ DispatchAccepted(s)
      PROVE  Terms!Write(s)
  <2>1. MayWrite(s) /\ ~Fenced(term[s]) /\ RaiseFence(term[s])
    BY <1>5 DEF WriteAccepted, DispatchAccepted
  <2>2. term[s] # 0 /\ term[s] >= fence /\ fence' = term[s]
    <3>1. fence' = term[s] /\ fence <= fence' /\ fence' \in 1 .. MaxEpoch
      BY <2>1, RaiseFenceInv
    <3>2. fence \in Nat
      BY DEF LeaseInv, TypeOK
    <3> QED
      BY <3>1, <3>2
  <2>3. UNCHANGED <<counter, term>>
    BY <1>5 DEF WriteAccepted, DispatchAccepted, localVars
  <2>4. \/ UNCHANGED log
        \/ \E n \in 1 .. MaxLog - Len(log) : log' = log \o [i \in 1 .. n |-> term[s]]
    BY <1>5 DEF WriteAccepted, DispatchAccepted
  <2> QED
    BY <2>2, <2>3, <2>4 DEF Terms!Write
<1>6. ASSUME NEW s \in Schedulers,
             \/ GrantTaken(s) \/ Restored(s) \/ RestoreCancelled(s) \/ RestoreFails(s)
             \/ RenewLost(s) \/ WriteRefused(s) \/ LeadReturns(s)
             \/ CancelStandby(s) \/ CancelTerm(s) \/ Restart(s)
      PROVE  Stutter
  BY <1>6 DEF GrantTaken, Restored, RestoreCancelled, RestoreFails, RenewLost,
              WriteRefused, LeadReturns, CancelStandby, CancelTerm, Restart, redisVars
<1> QED
  BY <1>1, <1>2, <1>3, <1>4, <1>5, <1>6 DEF Next, TermStep, Terms!Next

\* Lease, fence and replicas together implement the terms the scheduler's loops
\* are checked against, for every number of replicas, terms and dispatches.
THEOREM LeaseImplementsTerms == Spec => ImplementsTerms
<1>1. Init => Terms!Init
  BY DEF Init, Terms!Init, NoEpoch
<1> QED
  BY <1>1, LeaseInvariant, StepImplementsTerms, PTL DEF Spec, ImplementsTerms, Terms!Spec
=============================================================================
