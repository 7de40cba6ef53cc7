SPECIFICATION LockedSpec
CONSTANTS
  t1 = t1
  t2 = t2
  NoTask = NoTask
  Tasks = {t1, t2}
  Calls = {"iterate", "execute", "close"}
  Faults = {}
  MaxSockets = 2
  MaxQueries = 2
  MaxUnread = 1
SYMMETRY Symmetry
INVARIANTS
  ResultsAreOwn
