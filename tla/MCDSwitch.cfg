SPECIFICATION DSpec
CONSTANTS
  a = a
  b = b
  c = c
  NULL = NULL
  NoMessage = NoMessage
  Proc = {a, b}
  Autostart <- MCTwo
  Pollable = {b}
  Events = {"MSG"}
  Ops = {"post", "realtime", "arm", "rearm", "context"}
  MaxOps = 1
  MaxDepth = 6
  NUMEVENTS = 1
  NumSpan = 4
  Message <- MCMessage
  RtProc = {a}
  ArmEvents = {"MSG"}
  IdSpan = 4
INVARIANTS
  DSwitchTypeOK
  MainRestored
  CallbackIsRealtime
PROPERTIES
  PreemptionTransparent
