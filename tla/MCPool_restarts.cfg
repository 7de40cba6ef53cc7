SPECIFICATION Spec
CONSTANTS
  t1 = t1
  t2 = t2
  t3 = t3
  c1 = c1
  c2 = c2
  c3 = c3
  c4 = c4
  Tasks = {t1, t2, t3}
  Conns = {c1, c2, c3, c4}
  MinSize = 0
  MaxSize = 1
  PingOnCheckout = TRUE
  Faults = {"cancel_ping", "cancel_collect", "cancel_drain", "stale_use", "revive"}
  MaxGeneration = 3
  MaxStartups = 0
SYMMETRY Symmetry
PROPERTIES
  ImplementsService
