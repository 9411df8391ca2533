SPECIFICATION Spec
CONSTANTS
  a = a
  e = e
  f = f
  ct = ct
  CTIMER = CTIMER
  NONE = NONE
  Proc = {a}
  ETimer = {e, f}
  CTimer = {ct}
  Owner <- MCOwner
  NUMEVENTS = 1
  ClockSpan = 5
  Interval = {2}
  MaxLag = 1
INVARIANTS
  CtimerTypeOK
  ListSound
  EndedHaveNoTimers
  NextIsEarliest
  ListsAgree
PROPERTIES
  NotEarly
  ExpiredServed
