SPECIFICATION FairSpec
CONSTANTS
  ESC_SIZE = 19
  Datagrams <- EveryDatagram
  Replies <- EveryReply
INVARIANTS TypeOK FullMeansLanded Sm1HoldsReply
PROPERTIES AlRefinement AlStatusReported
