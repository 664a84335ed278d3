SPECIFICATION FairSpec
CONSTANTS
  s1 = s1
  Proc = {s1}
  Schedulers = {s1}
  MaxPid = 4
  MaxFault = 2
  MaxRestarting = 2
INVARIANTS
  TypeOK
  DisruptionIsTimed
  StopReachesEveryProcess
PROPERTIES
  FaultRunsItsCourse
  DisruptionEnds
  StopCompletes
