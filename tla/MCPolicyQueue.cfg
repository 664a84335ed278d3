SPECIFICATION Spec
CONSTANTS
  Task <- MCTask
  Weights <- MCWeights
  DefaultWeight = 1
  Scale = 2
  MaxPriority = 2
  BandWidth = 4
  NoDeadlineScore = 5
  Base = 2
  Width = 2
  DispatchBatch = 2
  MaxCalls = 2
  MaxFlushes = 1
  MaxFaults = 1
INVARIANTS
  FairShare
PROPERTIES
  DispatchesInOrder
