SPECIFICATION FairSpec
CONSTANTS
  Call = {q1, q2, q3, q4, q5}
  Conn = {c1, c2, c3}
  NoConn = NoConn
  Closer = {k1, k2}
  MaxConns = 2
INVARIANTS
  ExclusiveUse
  NoConnectionLeak
  CheckedOutIsHolders
  WaitersOnlyWhenBusy
PROPERTIES
  NoOvertaking
  LeaseSpec
  WaiterAnswered
  CloseEnds
\* The life of an entry ends when it is closed.
CHECK_DEADLOCK FALSE
