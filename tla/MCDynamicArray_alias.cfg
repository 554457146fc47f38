SPECIFICATION Spec
CONSTANTS
  Arrays = {a1}
  Iters = {}
  Mems = {1}
  Bufs = {1, 2}
  Values = {zero, x}
  Default = zero
  Raw = Raw
  Hollow = Hollow
  TrivialMove = TRUE
  AllowAlias = TRUE
  FirstCapacity = 2
  MaxCapacity = 4
PROPERTY InsertOwnMatches
