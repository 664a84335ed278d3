\* Two replicas, three terms, a stateful policy.
CONSTANTS
  t1 = t1  t2 = t2  s1 = s1  s2 = s2  malformed = malformed
  Tasks = {t1}
  Schedulers = {s1, s2}
  Invalid = {}
  Malformed = {}
  TaskMaxRetries <- NoRetries
  DefaultMaxRetries = 0
  MaxInFlight = 0
  DispatchBatch = 1
  IngestBatch = 2
  MaxTag = 2
  MaxSubmits = 1
  MaxEpoch = 3
SPECIFICATION Spec
SYMMETRY Symmetry
INVARIANTS
  TypeOK
  SubmissionsKept
PROPERTIES
  ImplementsTerms
  SavedTermsNeverGoBack
CHECK_DEADLOCK FALSE
