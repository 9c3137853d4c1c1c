SPECIFICATION FairSpec
CONSTANTS
  Requests = {put, delete, verify, load}
  Loads = {load}
  CloseSignal = close
  QueueLimit = 2
INVARIANTS WorkerSound CancelledNeverRuns UnavailableMeansUntouched
PROPERTY NobodyWaitsForEver
CHECK_DEADLOCK FALSE
