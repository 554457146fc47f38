SPECIFICATION ContainersSpec
CONSTANTS
  Values = {zero, x}
  Default = zero
  InitialCapacity = 3
  MaxCapacity = 6
  Addresses = {a1, a2, a3, a4}
  Lists = {l, m}
  ListValues = {zero, x}
  Null = Null
  UniqueKeys = {1, 2, 3, 4}
  RepeatedKeys = {1, 2, 3}
  Mapped = {p, q}
  DefaultMapped = p
  NoValue = None
  MaxEntries = 4
  Sets = {s, t}
  N = 5
  BitsPerWord = 3
  Variables = {v, w}
  Objects = {o1, o2, o3}
  FromInside = FALSE
  Nil = Nil
  Empty = Empty
  Tombstone = Tombstone
SYMMETRY Interchangeable
INVARIANTS
  TypesOK LookupsExact ObserversExact OwnedOnce OwnersSound
PROPERTIES
  BehavesLikeDeque ReferencesStable ListsBehave
  CallsAsNamed SetAlgebra
