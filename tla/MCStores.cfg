SPECIFICATION StoresSpec
CONSTANTS
  Items = {x, y}
  Hole = Hole
  MaxSlots = 4
  Keys <- FiveKeys
  Hash <- Colliding
  Values = {zero, one}
  Default = zero
  Empty = Empty
  Tombstone = Tombstone
  InitialCapacity = 4
  MaxLoadPct = 70
  MaxBuckets = 8
  Numbers = {zero, one}
  Zero = zero
  Arrays = {p, q}
  Capacity = 6
  FirstCapacity = 2
  MayExhaust = FALSE
SYMMETRY Interchangeable
INVARIANTS
  TypesOK FreeListExact TraversalComplete
  TableExact RegionsDisjoint MemoriesSound
PROPERTIES
  BehavesLikeHive MapBehaves ArraysBehave
