SPECIFICATION UniqueSpec
CONSTANTS
  Variables = {v, w}
  Objects = {o1, o2, o3}
  Nil = Nil
  FromInside = TRUE
INVARIANT NoDangling
