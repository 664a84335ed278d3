\* Two tasks under a cap of one, one with a retry budget of its own; two slots, a
\* recovery loop, one lost reply.  No symmetry: unsound with liveness.
CONSTANTS
  t1 = t1  t2 = t2  w1 = w1  w2 = w2  r1 = r1  r2 = r2
  Tasks = {t1, t2}
  Slots = {w1, w2}
  Recoverers = {r1}
  TaskMaxRetries <- MixedMaxRetries
  DefaultMaxRetries = 0
  MaxInFlight = 1
  DispatchBatch = 2
  RecoveryBatch = 1
  MaxResends = 1
SPECIFICATION FairSpec
INVARIANTS
  TypeOK
  NoTaskLost
  InFlightExact
  OneTerminalRecord
  AckedIsSettled
  RetriesWithinBudget
PROPERTIES
  OutcomeIsFinal
  ImplementsLifecycle
  EveryTaskTerminates
  DeliveriesDrain
