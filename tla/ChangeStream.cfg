SPECIFICATION FairSpec
CONSTANTS
  Incarnations = {run}
  Runtime = run
  Unbound = Unbound
  None = None
  Subscribers = {s1, s2}
  Capacity = 1
  MaxRevision = 1
  MaxGeneration = 1
INVARIANT ReceiversMissNothing
PROPERTIES ImplementsFeed RetainedChangeArrives
CHECK_DEADLOCK FALSE
