SPECIFICATION FairSpec
CONSTANTS
  a = a
  b = b
  c = c
  p1 = p1
  p2 = p2
  Repo = {a, b}
  Path = {p1}
  PathOf <- MCPathOf
  Entry = {e1, e2}
  Db = {d1, d2}
  Closer = {k1}
  None = None
  MaxPoolSize = 1
  MaxConns = 1
  MaxAttempts = 2
PROPERTIES
  InitSettles
  CloseReturns
