SPECIFICATION Spec
CONSTANTS
  None = None
  Variants = {beans}
  Locations = {dock, store, shelf}
  Receiving = {dock}
  Labels = {a, b, c}
  MaxPacks = 3
  Programs <- ReleasePrograms
  WorkGroups = 2
  TraceRecords = 4
  Recipients = {cafe}
  Versions = 2
  Sizes = {2}
  Parts = {1, 2}
  Attributions <- MCAttributions
  Origin <- Farm
INVARIANT ReleaseRemainsAvailable
CHECK_DEADLOCK FALSE
SYMMETRY Symmetry
