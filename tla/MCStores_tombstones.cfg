SPECIFICATION StoresSpec
CONSTANTS
  Items = {x}
  Hole = Hole
  MaxSlots = 1
  Keys <- NineKeys
  Hash <- NineBuckets
  Values = {zero}
  Default = zero
  Empty = Empty
  Tombstone = Tombstone
  InitialCapacity = 8
  MaxLoadPct = 70
  MaxBuckets = 8
  Numbers = {zero}
  Zero = zero
  Arrays = {p}
  Capacity = 2
  FirstCapacity = 1
  MayExhaust = FALSE
INVARIANT InsertFindsRoom
