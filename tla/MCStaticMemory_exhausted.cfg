SPECIFICATION StaticSpec
CONSTANTS
  Arrays = {p, q}
  Numbers = {zero, one}
  Zero = zero
  Capacity = 4
  FirstCapacity = 2
  MayExhaust = TRUE
INVARIANT NullSlotFree
