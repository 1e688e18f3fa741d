SPECIFICATION BothSpec
CONSTANTS
  OldLogs <- TwoDates
  Incoming = {4}
  Outgoing = {5}
  Rooms = {TRUE, FALSE}
  WithoutToken <- SomeWithoutToken
  ScrollbackLength = 2
  MoreLength = 1
  Failures = {TRUE, FALSE}
  DeliveryStatuses = {"Delivered"}
  MaxChannels = 2
  MaxMore = 1
  MaxFetches = 2
  LogPlugins = {"p", "q"}
  LogContacts = {"c", "d", "e"}
  Latin = {"c", "d"}
  LogDays = {1, 2, 3}
  Databases <- MCDatabases
  NumberOfLogs = 2
  MaxLookups = 2
  MaxFlawed = 1
INVARIANTS  LogsAreFound
PROPERTY FetchEnds
CHECK_DEADLOCK FALSE
