SPECIFICATION Spec
CONSTANTS
  a = a
  b = b
  Names <- Stacks
  MaxTexts = 2
SYMMETRY StackSymmetry
INVARIANT ComposeIsOwn
PROPERTIES  ForeignEnvFillsGap
CHECK_DEADLOCK FALSE
