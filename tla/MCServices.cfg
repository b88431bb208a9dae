SPECIFICATION Spec
CONSTANTS
  Values <- MCValues
  ServerValues <- MCServerValues
  MaxWrites = 2
  Keys <- MCKeys
  Versions <- MCVersions
  RowIds <- MCRowIds
  Iterators = {i1}
  OptionObjects = {o1}
  PageSize = 2
  Requests = {r1, r2}
  Life = 3
  Margin = 1
  Latency = 1
  MaxTime = 5
  MaxSize = 3
  PartSizes <- MCPartSizes
  Contents <- MCContents
  MaxCalls = 2
  JobCalls = {c1, c2}
  JobMetas = {m1, m2}
  Clients = {p1}
  Attempts = {a1, a2}
  MaxUserCalls = 2
INVARIANTS RoundTrip SignedInTime StableListed PartsWhole JobIsApi
PROPERTIES ReadyStays RetriesEnd
CHECK_DEADLOCK FALSE
