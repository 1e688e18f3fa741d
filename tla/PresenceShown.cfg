SPECIFICATION SumSpec
CONSTANTS
  Accounts = {x, y}
  Presences <- SomePresences
  Requests <- OnlineOffline
  Changing = {TRUE, FALSE}
  Statuses <- AllStatuses
  Timeouts <- OffZeroOn
  MaxJobs = 5
  Clients = {"p", "q"}
  Presets <- MCPresets
  MaxListChanges = 3
INVARIANTS NeverUnderstates ShownIsExplained QuitsOnlyIdle ListsAgree
PROPERTIES CurrentSettles IdleQuits
CHECK_DEADLOCK FALSE
