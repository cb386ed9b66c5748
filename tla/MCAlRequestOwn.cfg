SPECIFICATION Spec
CONSTANTS
  ESC_SIZE = 17
  a1 = a1
  a2 = a2
  Apps = {a1, a2}
  NoOne = NoOne
  Worker = Worker
  Stations = {1, 2}
  SlaveOf <- Own
  Requests <- Ladder
  Cyclic <- Quiet
  LateAnswers = FALSE
  MaxPolls = 2
  MaxFaults = 1
  MaxInFlight = 2
INVARIANTS TypeOK NoFakeSuccess NoFakeFailure
