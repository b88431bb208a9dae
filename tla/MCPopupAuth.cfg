\* Two sign-ins, a sign-out, a request and a switch of projects; a write fails only
\* while its sign-in waits.
SPECIFICATION FairSpec
CONSTANTS
  SignIns = {a, b}
  SignOuts = {x}
  Readers = {r}
  Projects = {p, q}
  None = none
  StaleWritesFail = FALSE
INVARIANTS TypeOK NoTokenAfterSignOut NoOrphanPopup
PROPERTIES ClearedIsSettled SignInSettles
CHECK_DEADLOCK FALSE
