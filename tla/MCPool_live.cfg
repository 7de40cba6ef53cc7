SPECIFICATION FairSpec
CONSTANTS
  t1 = t1
  t2 = t2
  t3 = t3
  c1 = c1
  c2 = c2
  c3 = c3
  Tasks = {t1, t2, t3}
  Conns = {c1, c2, c3}
  MinSize = 1
  MaxSize = 1
  PingOnCheckout = FALSE
  Faults = {}
  MaxGeneration = 1
  MaxStartups = 2
PROPERTIES
  BorrowersServed
  LifecycleCallsEnd
