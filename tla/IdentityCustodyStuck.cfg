SPECIFICATION FairSpec
CONSTANTS
  Keys = {k1, k2}
  Requests = {1, 2}
  None = None
  UnfinishedCapacity = 2
  OperationCapacity = 2
  InitialAvailability = {"available"}
  MaxFaults = 1
PROPERTIES RecoveryCompletes
