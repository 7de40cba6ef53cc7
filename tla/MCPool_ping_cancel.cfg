SPECIFICATION Spec
CONSTANTS
  t1 = t1
  t2 = t2
  c1 = c1
  c2 = c2
  Tasks = {t1, t2}
  Conns = {c1, c2}
  MinSize = 0
  MaxSize = 1
  PingOnCheckout = TRUE
  Faults = {"cancel_ping"}
  MaxGeneration = 0
  MaxStartups = 0
SYMMETRY Symmetry
INVARIANTS
  AcquiredHasBorrower
