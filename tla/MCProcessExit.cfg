SPECIFICATION Spec
CONSTANTS
  a = a
  b = b
  c = c
  NULL = NULL
  NoMessage = NoMessage
  Proc = {a, b, c}
  Autostart <- MCTwo
  Pollable = {}
  Events = {"MSG"}
  Ops = {"start", "exit", "end", "context"}
  MaxOps = 1
  MaxDepth = 10
  NUMEVENTS = 1
  NumSpan = 4
  Message <- MCMessage
INVARIANTS
  CurrentIsRunner
  ListEnds
