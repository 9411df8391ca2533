SPECIFICATION Spec
CONSTANTS
  IdSpan = 4
  MaxAge = 2
  Max = {1, 2, 3}
  MaxMessages = 5
INVARIANTS
  RunicastTypeOK
  SendingIsArmed
PROPERTIES
  RunicastReliable
  SendEnds
