SPECIFICATION Spec
CONSTANTS
  t1 = t1
  t2 = t2
  t3 = t3
  c1 = c1
  c2 = c2
  c3 = c3
  c4 = c4
  c5 = c5
  Tasks = {t1, t2, t3}
  Conns = {c1, c2, c3, c4, c5}
  MinSize = 1
  MaxSize = 2
  PingOnCheckout = TRUE
  Faults = {"cancel_ping", "cancel_collect", "cancel_drain", "stale_use", "revive"}
  MaxGeneration = 1
  MaxStartups = 1
SYMMETRY Symmetry
INVARIANTS
  TypeOK
  CapacityBound
  LeasesExclusive
  FreeIsUnshared
  ClosedIsEmpty
  IdleTimesMatch
  OneStarter
PROPERTIES
  OpensFilled
  LeasedIsUsable
