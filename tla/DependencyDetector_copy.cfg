CONSTANTS
  Scalars = {x, y}
  Arrays = {}
  Indices = {i}
  Ops = {"add"}
  Shapes = {"copy"}
  MaxDepth = 3
  MaxRegs = 4
  MaxRegsOther = 4
  Null = Null
  Garbage = Garbage
  Number = Number
  MinusOne = MinusOne
SYMMETRY Symmetry
SPECIFICATION Spec
INVARIANTS SourcesInTable
CHECK_DEADLOCK FALSE
