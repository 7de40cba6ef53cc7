SPECIFICATION FairSpec
CONSTANTS
  t1 = t1
  t2 = t2
  NoTask = NoTask
  Tasks = {t1, t2}
  Calls = {"execute", "iterate", "insert", "ping", "close"}
  Faults = {"cancel", "cancel_waiter", "cancel_ping", "ping_timeout"}
  MaxSockets = 3
  MaxQueries = 2
  MaxUnread = 2
INVARIANTS
  OneConnects
PROPERTIES
  CallsEnd
CHECK_DEADLOCK FALSE
