SPECIFICATION CursorSpec
CONSTANTS
  t1 = t1
  NoTask = NoTask
  Tasks = {t1}
  Me = t1
  Calls = {"execute", "iterate", "insert", "ping", "close", "connect"}
  Faults = {"cancel", "cancel_ping", "cancel_connect", "timeout", "ping_timeout"}
  MaxSockets = 2
  MaxQueries = 2
  MaxUnread = 1
  MaxRows = 2
VIEW View
INVARIANTS
  SingleInFlight
  FlagCanBeCleared
  NoSocketLeak
  NoRowIsLost
  EndIsTheEnd
  RowcountIsOfTheResult
  UnfetchedIsReachable
PROPERTIES
  RefreshGivesAConnection
CHECK_DEADLOCK FALSE
