SPECIFICATION FairSpec
CONSTANTS
  PDRAM_BASE = 16
  MEM_SIZE = 33
  FIFO_DEPTH = 2
  MaxFaults = 1
  STADR = 0
  ALSTAT = 4
  ALEVENT = 8
  IN_OFFSET = 17
  IN_LEN = 8
  OUT_OFFSET = 25
  OUT_LEN = 8
  DirectReads <- Reads
  DirectWrites <- Writes
  MaxVersions = 2
  MaxDirect = 1
INVARIANTS TypeOK AccessWidth ReadExact WriteLands
PROPERTIES ReportFresh AlReported
