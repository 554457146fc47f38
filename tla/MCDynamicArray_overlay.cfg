SPECIFICATION Spec
CONSTANTS
  Arrays = {a1}
  Iters = {it}
  Mems = {1}
  Bufs = {1, 2}
  Values = {zero, x}
  Default = zero
  Raw = Raw
  Hollow = Hollow
  TrivialMove = FALSE
  AllowAlias = FALSE
  FirstCapacity = 2
  MaxCapacity = 4
INVARIANT NothingOverlaid
