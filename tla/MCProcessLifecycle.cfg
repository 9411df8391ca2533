SPECIFICATION Spec
CONSTANTS
  a = a
  b = b
  c = c
  NULL = NULL
  NoMessage = NoMessage
  Proc = {a, b, c}
  Autostart <- MCTwo
  Pollable = {b}
  Events = {"MSG", "EXIT"}
  Ops = {"start", "end", "synch", "post"}
  MaxOps = 1
  MaxDepth = 12
  NUMEVENTS = 1
  NumSpan = 4
  Message <- MCBroadcasts
INVARIANTS
  OneActivation
  RunningIsListed
PROPERTIES
  CalledIsListed
  BackToMain
