SPECIFICATION Spec
CONSTANTS
  t1 = t1
  t2 = t2
  t3 = t3
  c1 = c1
  c2 = c2
  c3 = c3
  c4 = c4
  c5 = c5
  Tasks = {t1, t2, t3}
  Conns = {c1, c2, c3, c4, c5}
  MinSize = 2
  MaxSize = 2
  PingOnCheckout = TRUE
  Faults = {"stale_use"}
  MaxGeneration = 1
  MaxStartups = 2
SYMMETRY Symmetry
INVARIANTS
  AcquiredHasBorrower
  PendingExact
  NothingLeaks
  WaitersAreWoken
PROPERTIES
  ImplementsService
