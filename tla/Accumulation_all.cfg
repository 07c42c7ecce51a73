CONSTANTS
  Vars = {v1}
  Temps = {t1, t2}
  Ops = {"and", "add"}
  MaxSize = 5
  Accesses <- Elements
  ConstantOperands = TRUE
  SelfOperands = TRUE
  ShiftAmounts = {0}
  GarbageTimes = {0}
  GarbageRows = {0}
  Sentinel = 99
  AccOps = {"add"}
  AccAccesses <- Sets
  Shapes <- Cuts
  Optimisations = {TRUE, FALSE}
SPECIFICATION LiveSpec
CHECK_DEADLOCK FALSE
INVARIANTS TypeOKAcc SumsExact LostOnlyWhole LogarithmicDelay ListsTaken ResultsDriven
PROPERTIES EveryInstructionBound
