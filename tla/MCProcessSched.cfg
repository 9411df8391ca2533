SPECIFICATION Spec
CONSTANTS
  a = a
  b = b
  c = c
  NULL = NULL
  NoMessage = NoMessage
  Proc = {a, b}
  Autostart <- MCTwo
  Pollable = {a, b}
  Events = {"MSG"}
  Ops = {"post", "poll", "synch"}
  MaxOps = 1
  MaxDepth = 8
  NUMEVENTS = 2
  NumSpan = 3
  Message <- MCMessage
INVARIANTS
  ProcessTypeOK
  NoLostPoll
PROPERTIES
  FifoSpec
  PollServed
  QueueDrains
