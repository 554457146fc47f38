SPECIFICATION MCSpec
CONSTANTS
  Arrays = {a1, a2}
  Iters = {it}
  Mems = {1, 2}
  Bufs = {1, 2}
  Values = {zero, x}
  Default = zero
  Raw = Raw
  Hollow = Hollow
  TrivialMove = FALSE
  AllowAlias = TRUE
  FirstCapacity = 1
  MaxCapacity = 3
SYMMETRY Interchangeable
INVARIANTS TypeOK RefsExact BuffersHeld ElementsInPlace
PROPERTIES NothingStranded BehavesLikeVector CallsMatch
