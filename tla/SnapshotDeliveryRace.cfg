SPECIFICATION DeliverySpec
CONSTANTS
  Incarnations = {run}
  Runtime = run
  Unbound = Unbound
  None = None
  Subscribers = {ui}
  Ui = ui
  Dispatchers = {"parallel"}
  Capacity = 1
  MaxRevision = 2
  MaxGeneration = 1
  MaxCommands = 2
PROPERTIES ShownNeverRegresses
CHECK_DEADLOCK FALSE
