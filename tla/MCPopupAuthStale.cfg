\* The write of a sign-in that was closed fails while the next one waits.
SPECIFICATION Spec
CONSTANTS
  SignIns = {a, b}
  SignOuts = {x}
  Readers = {}
  Projects = {}
  None = none
  StaleWritesFail = TRUE
PROPERTY ClearedIsSettled
CHECK_DEADLOCK FALSE
