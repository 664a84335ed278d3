\* A replica whose state restore fails once.
CONSTANTS
  s1 = s1  s2 = s2
  Schedulers = {s1, s2}
  MaxEpoch = 2
  MaxLog = 1
SPECIFICATION Spec
INVARIANTS
  ReadyIsCampaigning
