CONSTANTS
  start = start
  receive = receive
  label = label
  release = release
  report = report
  observe = observe
  review = review
  None = None
  Operations = {o1, o2, o3}
  Legacy = {o1, o2, o3}
  Actors = {alice, bob}
  Mutations = {start, receive, label, release, report, observe, review}
  KindOf <- AllKinds
  OrdinaryCapacity = 2
  ObservedCapacity = 1
  MaxRuntime = 1
  MaxGeneration = 2
  RecordIds = {o1, o2, o3}
  Requests = {1, 2, 3, 4}
  Labels = {alice, bob}
  ReferenceCapacity = 2
  HistoryCapacity = 3
  PageRows = 2
  Absent = Absent
  Unset = Unset
  Times = {1, 2}
  EventIds = {1, 2}
  Refreshes = {1, 2}
  Nobody = Nobody
  EvidenceEvents = {1, 2, 3, 4, 5}
  Admission <- MCAdmission
  WireSizes = {1, 3, 9}
  SourceSizes = {1, 2}
  IdentifierSize = 1
  FixedBytes = 2
  VersionCapacity = 3
  OrdinaryBytes = 26
  TotalBytes = 30
  WireLimit = 8
  SourceLimit = 2
  RejectionLimit = 1
  EventCapacity = 8
  TreatmentCapacity = 4
  MaxClosure = 2
  ReportCapacity = 2
  ObservationCapacity = 3
SPECIFICATION StoresSpec
SYMMETRY Symmetry
INVARIANTS TypeOK OutcomesAreFinal ReferenceStands DigestsTellApart JournalInv ClosureAlwaysFits HoldBeforeDeparture
INVARIANTS CacheKeepsTheLatest EvidenceStands
PROPERTIES LostStopsPlannedWork KeepsPromise ProfileNeverRegresses
CHECK_DEADLOCK FALSE
