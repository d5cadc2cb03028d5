SPECIFICATION Spec
CONSTANT
  MaxEvents = 2
INVARIANT
  ReturnsItsValue
