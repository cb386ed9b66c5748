SPECIFICATION FairSpec
CONSTANTS
  ESC_SIZE = 17
  a1 = a1
  a2 = a2
  Apps = {a1}
  NoOne = NoOne
  Worker = Worker
  Stations = {1}
  SlaveOf <- Shared
  Requests <- Climb
  Cyclic <- ReadOwn
  LateAnswers = TRUE
  MaxPolls = 2
  MaxFaults = 1
  MaxInFlight = 2
INVARIANT AnswerKept
PROPERTY RequestReturns
