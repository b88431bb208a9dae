SPECIFICATION NodeSpec
CONSTANTS
  Calls = {c1}
  Threshold = 2
  Kinds <- MCKinds
  Names = {"app"}
  Headers <- MCHeaders
  Objects = {o1}
  ObjectKind <- MCObjectKind
  DefaultKind = "refresh"
  MaxApps = 2
  MaxNow = 2
  Life = 1
  Patience = 1
INVARIANTS NodeTypeOK ResolvedIsStored EffectsBounded
PROPERTIES CallSettles
CHECK_DEADLOCK FALSE
