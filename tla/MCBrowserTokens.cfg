SPECIFICATION BrowserSpec
CONSTANTS
  Projects = {p1, p2}
  Nobody = Nobody
  Contexts = {Nobody, p1}
  Import = c0
  Acts = {}
  Callers = {c0, c1}
  Requests = {}
  Others = {"popup"}
  Appsail = {}
  Handlers = {h1}
  Gets = {g1, g2}
  MaxNow = 3
  StorageFills = FALSE
  Life = 2
  Skew = 1
PROPERTIES TokenOfSession TokenNotExpired WaitersSettle
CHECK_DEADLOCK FALSE
