SPECIFICATION Spec
CONSTANTS
  c1 = c1
  c2 = c2
  c3 = c3
  o1 = o1
  o2 = o2
  s1 = s1
  s2 = s2
  None = None
  Calls = {c1, c2, c3}
  Observers = {o1, o2}
  Shutdowns = {s1, s2}
  Capacity = 2
  MaxTasks = 1
  MaxObservers = 1
  Plans <- MCPlans
INVARIANTS AnswersMatchEffects ObserversEnd
PROPERTIES NothingBeginsAnswered ShutdownReturns
CHECK_DEADLOCK FALSE
