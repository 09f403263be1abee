SPECIFICATION FairSpec
CONSTANTS
  Sources <- AnySources
  StreamWindowMax = 2
  NotifySize = 2
  ChunkLimits = {0, 2}
INVARIANTS
  TypeOK
  QueueInOrder
  WaitableMeansWorking
  TakeFindsRow
  DeliveredIsPrefix
  EndMeansParsed
PROPERTIES
  StreamSpec
  ErrorReachesCaller
  EveryCallReturns
  EveryRowArrives
