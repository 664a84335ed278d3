\* A slow worker completes a task that recovery has dead-lettered.
CONSTANTS
  t1 = t1  t2 = t2  w1 = w1  w2 = w2  r1 = r1  r2 = r2
  Tasks = {t1}
  Slots = {w1}
  Recoverers = {r1}
  TaskMaxRetries <- UnsetMaxRetries
  DefaultMaxRetries = 1
  MaxInFlight = 1
  DispatchBatch = 2
  RecoveryBatch = 1
  MaxResends = 0
SPECIFICATION Spec
PROPERTIES
  CompletionRecorded
