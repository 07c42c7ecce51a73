CONSTANTS
  Scalars = {x, y}
  Arrays = {a}
  Indices = {i}
  Ops = {"xor", "or"}
  Shapes <- AllShapes
  MaxDepth = 3
  MaxRegs = 8
  MaxRegsOther = 6
  Null = Null
  Garbage = Garbage
  Number = Number
  MinusOne = MinusOne
SYMMETRY Symmetry
SPECIFICATION Spec
INVARIANTS TypeOK OperandsKept DefinitionsCurrent BindableOrder UnsupportedShapes
PROPERTIES AccumulatorSecond
CHECK_DEADLOCK FALSE
