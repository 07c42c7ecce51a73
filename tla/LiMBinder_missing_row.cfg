CONSTANTS
  Vars = {v1, v2}
  Temps = {t1, t2, t3}
  Ops = {"and", "xor"}
  MaxSize = 1
  Accesses <- Scalar
  ConstantOperands = FALSE
  SelfOperands = FALSE
  ShiftAmounts = {0}
  GarbageTimes = {0}
  GarbageRows = {0}
SYMMETRY Symmetry
SPECIFICATION Spec
CHECK_DEADLOCK FALSE
INVARIANTS RowsFound
