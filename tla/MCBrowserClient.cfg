SPECIFICATION BrowserSpec
CONSTANTS
  Projects = {p1}
  Nobody = Nobody
  Contexts = {Nobody}
  Import = c0
  Acts = {a1, a2}
  Callers = {c0, a1, a2}
  Requests = {a1, a2}
  Others = {"tab", "jwt"}
  Appsail = {p1}
  Handlers = {}
  Gets = {}
  MaxNow = 1
  StorageFills = FALSE
  Life = 2
  Skew = 1
INVARIANTS SignInNamesProject ButtonIsServed
PROPERTIES ActsSettle
CHECK_DEADLOCK FALSE
