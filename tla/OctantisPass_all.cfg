CONSTANTS
  Files <- SomeFiles
  NoFile = NoFile
  Functions = {f, g}
  Nothing = Nothing
  Numbers = {"8", "16", "32"}
SPECIFICATION Spec
INVARIANTS TypeOK OptionsFromFile SameOptions OwnTableOrNone
PROPERTIES FunctionEnds
CHECK_DEADLOCK FALSE
