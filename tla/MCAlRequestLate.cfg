SPECIFICATION Spec
CONSTANTS
  ESC_SIZE = 17
  a1 = a1
  a2 = a2
  Apps = {a1}
  NoOne = NoOne
  Worker = Worker
  Stations = {1}
  SlaveOf <- Own
  Requests <- Ladder
  Cyclic <- Quiet
  LateAnswers = TRUE
  MaxPolls = 2
  MaxFaults = 0
  MaxInFlight = 2
INVARIANT NoFakeSuccess
