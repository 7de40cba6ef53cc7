SPECIFICATION LockedSpec
CONSTANTS
  t1 = t1
  t2 = t2
  t3 = t3
  NoTask = NoTask
  Tasks = {t1, t2, t3}
  Calls = {"execute", "iterate", "insert"}
  Faults = {"cancel", "timeout"}
  MaxSockets = 2
  MaxQueries = 3
  MaxUnread = 2
SYMMETRY Symmetry
INVARIANTS
  ResultsAreOwn
  InSync
  FlagHasOwner
  NoSocketLeak
PROPERTIES
  Undisturbed
