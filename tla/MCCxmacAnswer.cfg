SPECIFICATION Spec
CONSTANTS
  a = a
  b = b
  Other = Other
  NULL = NULL
  Node = {a, b}
  Kinds = {"reliable"}
  MaxStrobes = 2
  StreamCycles = 1
  MaxOps = 1
PROPERTIES
  AwaitsAnswer
