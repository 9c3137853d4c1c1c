SPECIFICATION Spec
CONSTANTS
  Keys = {alice, bob}
  None = None
  MaxTasks = 2
  MaxRevision = 6
  MaxGeneration = 2
SYMMETRY KeySymmetry
INVARIANT SessionSound
PROPERTIES NewSessionIsFenced VisibleChangeAdvances RemovalMatchesImpact LoadingStaysServed
CHECK_DEADLOCK FALSE
