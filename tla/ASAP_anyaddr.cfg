CONSTANTS
  N = 4
  Ops = {"load", "add", "shl"}
  Addresses <- AllNumberings
SPECIFICATION Spec
INVARIANTS TypeOK StartsWhenOperandsEnd
PROPERTIES ImplementsSchedule
CHECK_DEADLOCK FALSE
