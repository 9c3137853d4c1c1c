SPECIFICATION Spec
CONSTANTS
  Keys = {alice, bob}
  None = None
  MaxTasks = 2
  MaxRevision = 7
  MaxGeneration = 3
PROPERTIES CancellationSettlesLoading
CHECK_DEADLOCK FALSE
