CONSTANTS
  Vars = {v1, v2}
  Temps = {t1, t2, t3, t4}
  Ops = {"and", "add"}
  MaxSize = 1
  Accesses <- Scalar
  ConstantOperands = FALSE
  SelfOperands = TRUE
  ShiftAmounts = {0}
  GarbageTimes = {0}
  GarbageRows = {0}
SYMMETRY Symmetry
SPECIFICATION MachineSpec
CHECK_DEADLOCK FALSE
INVARIANTS FreshNames Causality ResultsDriven RowsAndStatesAgree LostOnlyByOtherOperation MissingRowsWereLost MachineComputes
