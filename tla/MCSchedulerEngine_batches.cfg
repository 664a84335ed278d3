\* One replica that crashes and starts again; batches with an invalid and a
\* malformed entry.
CONSTANTS
  t1 = t1  t2 = t2  s1 = s1  s2 = s2  malformed = malformed
  Tasks = {t1, t2}
  Schedulers = {s1}
  Invalid = {t2}
  Malformed = {malformed}
  TaskMaxRetries <- NoRetries
  DefaultMaxRetries = 0
  MaxInFlight = 0
  DispatchBatch = 1
  IngestBatch = 2
  MaxTag = 0
  MaxSubmits = 2
  MaxEpoch = 2
SPECIFICATION FairSpec
INVARIANTS
  SubmissionsKept
PROPERTIES
  SubmissionsSettle
CHECK_DEADLOCK FALSE
