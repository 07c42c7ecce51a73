SPECIFICATION Spec
CONSTANTS
  Programs <- XorImages
  Garbage = {0}
  MaxTrips = 8
  Sentinel = Sentinel
INVARIANT
  TransposeExact
