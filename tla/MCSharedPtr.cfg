SPECIFICATION Spec
CONSTANTS
  Objs = {o1, o2, o3}
  SVars = {p, q}
  WVars = {}
  Null = Null
INVARIANTS TypeOK CountsExact NoDangling HeldOrGone
PROPERTY CallsReturn
