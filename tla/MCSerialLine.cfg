SPECIFICATION Spec
CONSTANTS
  a = a
  b = b
  END = END
  NUL = NUL
  NoByte = NoByte
  Size = 4
  Byte <- MCByte
  App = {a, b}
  List <- MCList
  NUMEVENTS = 2
  MaxLines = 2
  MaxLineLen = 4
  MaxOther = 2
INVARIANTS
  SerialTypeOK
  LinesIntact
  SameLines
PROPERTIES
  RingFifoSpec
  InputServed
CHECK_DEADLOCK FALSE
