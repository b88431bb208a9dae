\* Two connectors of one Connection share the cache; only one has a secret key.
SPECIFICATION Spec
CONSTANTS
  c1 = c1  c2 = c2  k1 = k1  k2 = k2  v1 = v1  v2 = v2  sk = sk
  Early = {c1}
  Late = {c2}
  Callers = {k1}
  Ops = {}
  Fields <- NameAndToken
  Values = {v1, v2}
  InitialConfig <- FirstConfig
  KeyOf <- DistinctKeys
  LegacyConfigs = {}
  Secret <- OneSecret
  NoSecret = none
  Lifetimes = {1}
  MaxGen = 1
  MaxNow = 1
INVARIANT IInv
