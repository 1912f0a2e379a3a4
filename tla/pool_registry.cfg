SPECIFICATION Spec
CONSTANTS
  a = a
  b = b
  c = c
  p1 = p1
  p2 = p2
  Repo = {a, b, c}
  Path = {p1, p2}
  PathOf <- MCPathOf
  Entry = {e1, e2, e3}
  Db = {d1, d2, d3}
  Closer = {k1}
  None = None
  MaxPoolSize = 1
  MaxConns = 1
  MaxAttempts = 2
SYMMETRY Symmetry
INVARIANTS
  TypeOK
  RefCountsExact
  UsersHaveOpenDb
PROPERTIES
  OnlyStaleCloserRemovesBusy
