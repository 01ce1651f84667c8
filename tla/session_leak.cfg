SPECIFICATION FairSessionsSpec
CONSTANTS
  c1 = c1
  c2 = c2
  k1 = k1
  e1 = e1
  e2 = e2
  t1 = t1
  t2 = t2
  t3 = t3
  g1 = g1
  nil = nil
  Callers <- OneCaller
  Closers <- NoClosers
  Entries <- OneEntry
  Conns <- TwoConns
  Guests <- NoGuests
  ReplyKinds <- Decodable
  None = nil
  Events <- AllHazards
  MaxOpen = 2
PROPERTIES
  EntriesComeBack
CHECK_DEADLOCK FALSE
