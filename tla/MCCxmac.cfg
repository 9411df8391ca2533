SPECIFICATION Spec
CONSTANTS
  a = a
  b = b
  Other = Other
  NULL = NULL
  Node = {a, b}
  Kinds = {"data", "stream"}
  MaxStrobes = 2
  StreamCycles = 1
  MaxOps = 2
INVARIANTS
  CxmacTypeOK
  RadioAgrees
  TwoCycles
PROPERTIES
  Listens
  BackOffEnds
