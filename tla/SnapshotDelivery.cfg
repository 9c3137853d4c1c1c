SPECIFICATION FairDelivery
CONSTANTS
  Incarnations = {run}
  Runtime = run
  Unbound = Unbound
  None = None
  Subscribers = {ui}
  Ui = ui
  Dispatchers = {"parallel", "confined"}
  Capacity = 1
  MaxRevision = 2
  MaxGeneration = 1
  MaxCommands = 2
INVARIANT DeliverySound
PROPERTIES ConfinedNeverRegresses ConfinedConverges
CHECK_DEADLOCK FALSE
