SPECIFICATION FairSpec
CONSTANTS
  MAX_EVENTS = 3
  Events = {sync, error, frame}
  None = None
INVARIANTS TypeOK NoLostWakeup
PROPERTIES ChannelRefinement StopEndsRun
