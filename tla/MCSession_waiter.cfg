SPECIFICATION LockedSpec
CONSTANTS
  t1 = t1
  t2 = t2
  NoTask = NoTask
  Tasks = {t1, t2}
  Calls = {"execute"}
  Faults = {"cancel_waiter"}
  MaxSockets = 1
  MaxQueries = 2
  MaxUnread = 1
SYMMETRY Symmetry
PROPERTIES
  Undisturbed
