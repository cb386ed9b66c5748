SPECIFICATION FairSpec
CONSTANTS
  Q_MAX = 2
  PER_FRAME = 2
  DC_TIMEOUT = 2
  Capacity = 1
  NoOne = NoOne
  None = None
  MaxOnWire = 2
  Answering = TRUE
  Exchanges = TRUE
INVARIANTS TypeOK WorkerHasSocket
PROPERTIES ShutdownReturns SilenceNoticed
