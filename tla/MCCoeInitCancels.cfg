SPECIFICATION Spec
CONSTANTS
  Tables <- MCTables
  Generated <- Table1
  Operations <- MCOperations
  Strays <- MCStrays
  NoEntry = NoEntry
  NoFrame = NoFrame
  SM1_LEN = 18
  REPLY_CAP = 20
  COUNTERS = 3
  MaxFaults = 1
PROPERTY InitCancels
