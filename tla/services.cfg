SPECIFICATION ServicesSpec
CONSTANTS
  Proc = {p1, p2, p3}
  Removes = {p3}
  MaxCrashes = 2
  NoOne = NoOne
  Appender = {a1, a2, a3}
  MaxFaults = 1
  Caller = {c1, c2, c3}
  Path = {d1, d2}
  Attempts = 2
  NoPath = NoPath
  Request = {r1, r2, r3, r4}
  MaxSessions = 2
  Jobs = {j1, j2}
  MaxSteps = 1
  MaxSaves = 2
  NoWrite = NoWrite
  Embed = {e1, e2}
  Deletion = {x1, x2}
  Analysis = Analysis
  NoWriter = NoWriter
  MaxReaders = 2
  MaxDeps = 2
  Classes = 4
  MaxParents = 2
  MaxAncestorDepth = 2
  NoOrder = NoOrder
INVARIANTS
  ServicesTypeOK
  RegistryExclusion
  EventsKept
  ProjectionCurrent
  SwitchExcluded
  SessionsBounded
  LedgerCurrent
  EmbedsUnderLock
  SortCorrect
  ReadsAlive
  NothingKept
  C3Correct
  EdgesAgreeWithCalls
PROPERTIES
  EntriesKept
CHECK_DEADLOCK FALSE
