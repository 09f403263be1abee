SPECIFICATION Spec
CONSTANTS
  Sources <- EarlyEndSources
  StreamWindowMax = 2
  NotifySize = 2
  ChunkLimits = {0, 2}
INVARIANTS
  EndMeansDelivered
