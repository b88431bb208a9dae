\* One connector, a pre-hash cache entry, two callers and one overlapping call.
SPECIFICATION FairSpec
CONSTANTS
  c1 = c1  c2 = c2  k1 = k1  k2 = k2  v1 = v1  v2 = v2  sk = sk
  Early = {c1}
  Late = {}
  Callers = {k1, k2}
  Ops = {"op"}
  Fields <- RefreshOnly
  Values = {v1, v2}
  InitialConfig <- FirstConfig
  KeyOf <- DistinctKeys
  LegacyConfigs <- FromFirst
  Secret <- NoSecrets
  NoSecret = none
  Lifetimes = {1}
  MaxGen = 1
  MaxNow = 1
INVARIANTS MemoryMatchesConfig CacheMatchesKey ServedWithinFetch
PROPERTIES ServesCallers CallsSettle
