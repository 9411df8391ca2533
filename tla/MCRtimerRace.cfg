SPECIFICATION RSpec
CONSTANTS
  Timer = {t1}
  NULL = NULL
  Span = 5
  MaxDelay = 3
  Overwrite = TRUE
PROPERTIES
  Fires
