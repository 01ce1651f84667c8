SPECIFICATION FairSpec
CONSTANTS
  c1 = c1
  c2 = c2
  c3 = c3
  k1 = k1
  e1 = e1
  e2 = e2
  t1 = t1
  t2 = t2
  t3 = t3
  nil = nil
  Callers <- ThreeCallers
  Closers <- OneCloser
  Entries <- MCEntries
  Conns <- MCConns
  None = nil
  Events = {"unreachable", "broken", "garbled"}
INVARIANTS
  LentOnce
  NoIdleConnection
PROPERTIES
  LostWhenGarbled
  WaitEnds
CHECK_DEADLOCK FALSE
