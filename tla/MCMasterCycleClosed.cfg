SPECIFICATION Spec
CONSTANTS
  Q_MAX = 2
  PER_FRAME = 1
  DC_TIMEOUT = 2
  Capacity = 2
  NoOne = NoOne
  None = None
  MaxOnWire = 2
  Answering = TRUE
  Exchanges = TRUE
PROPERTY ClosedUnderLock
