SPECIFICATION RSpec
CONSTANTS
  Timer = {t1, t2}
  NULL = NULL
  Span = 5
  MaxDelay = 3
  Overwrite = FALSE
INVARIANTS
  RtimerTypeOK
  PendingIsScheduled
PROPERTIES
  OnTime
  Fires
