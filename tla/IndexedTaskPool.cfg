SPECIFICATION FairSpec
CONSTANTS
  Workers = {w1, w2}
  SerialUpTo = 1
  MaxTasks = 3
  MaxCalls = 2
INVARIANTS
  NoUnlockedRace
  OneWorkerPerTask
PROPERTIES
  ContractSpec
  EveryCallReturns
  DestructorEnds
