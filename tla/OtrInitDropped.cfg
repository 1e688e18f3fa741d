SPECIFICATION Spec
CONSTANTS
  c1 = c1
  c2 = c2
  a1 = a1
  Channels <- OneChannel
  Accounts <- OneAccount
  AccountOf <- Shared
  Policies <- UserPolicies
  MaxMsgs = 1
  MaxConnects = 1
  MaxInits = 1
  Disconnects = FALSE
  GenErrors = FALSE
PROPERTY InitializeHonoured
