CONSTANTS
  Vars = {v1, v2}
  Temps = {t1, t2}
  Ops = {"and", "xor", "shl"}
  MaxSize = 2
  Accesses <- Arrays
  ConstantOperands = TRUE
  SelfOperands = FALSE
  ShiftAmounts <- Amounts
  GarbageTimes = {0, 5}
  GarbageRows = {0, 4}
SYMMETRY Symmetry
SPECIFICATION Spec
CHECK_DEADLOCK FALSE
INVARIANTS ResultsDriven ReuseSound GarbageConfined
