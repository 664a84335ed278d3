SPECIFICATION Spec
CONSTANTS
  Schedulers = {s1, s2, s3}
  MaxEpoch = 4
  Retry = 1
  WaitTimeout = 2
  TTL = 7
  RenewInterval = 2
  StoreTTL = 3
  StoreRenew = 1
  FaultAfter = 4
  SubmitFor = 14
  PauseFor = 14
  Settle = 4
  HalfPeriod = 1
  CutLimit = 3
  Window = 4
  DownAfter = 1
  IdleLimit = 9
  MaxGap = 10
PROPERTIES
  DurableBeforeLeading
CHECK_DEADLOCK FALSE
