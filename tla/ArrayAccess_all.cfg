SPECIFICATION Spec
CONSTANTS
  Programs <- AllPrograms
  Garbage = {0, 3}
  MaxTrips = 8
  Sentinel = Sentinel
INVARIANTS
  TypeOK
  IndexesRecorded
  LoopsRecorded
  SurvivorsClosed
  AddressesExact
  ReturnsWithoutSets
  UnsupportedLoops
  UnsupportedIndexes
  UnsupportedAddresses
