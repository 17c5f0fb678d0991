CONSTANTS
  NoHandler = 0
  Connection = {c1, c2}
  NoConnection = none
  Routes <- SomeRoutes
  Uris <- SomeUris
  MaxRoutes = 4
  MaxAsked = 2
  MaxData = 2
  SendBuffer = 3
  MaxMessages = 5
  MaxSessions = 2
  MaxLate = 1
  Service = {s1, s2, s3}
  Fallback = FALSE
  Overlap = FALSE
  Wrap = 8
  Thread = {p1, p2, p3, p4}
  Unlocker = {p1}
  Free = Free
SPECIFICATION MCSpec
INVARIANTS NewestAnswers ServesEachApart SessionsKeepPackets ServerStaysForServices NoFreeUnlock
PROPERTIES RequestsServed
CHECK_DEADLOCK FALSE
