SPECIFICATION NodeSpec
CONSTANTS
  Calls = {c1, c2}
  Threshold = 0
  Kinds <- MCOneKind
  Names = {"default"}
  Headers <- MCHeaders
  Objects = {}
  ObjectKind <- MCObjectKind
  DefaultKind = "refresh"
  MaxApps = 2
  MaxNow = 3
  Life = 1
  Patience = 1
INVARIANT HeadersAgree
PROPERTY TokenAge
CHECK_DEADLOCK FALSE
