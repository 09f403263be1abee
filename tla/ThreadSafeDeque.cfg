SPECIFICATION FairSpec
CONSTANTS
  MaxRows = 5
  MaxBatch = 3
  NotifySize = 2
INVARIANTS
  FrontRowExists
  EmptyFlagAccurate
PROPERTIES
  ContractSpec
  WaitEnds
