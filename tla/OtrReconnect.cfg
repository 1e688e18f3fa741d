SPECIFICATION Spec
CONSTANTS
  c1 = c1
  c2 = c2
  a1 = a1
  Channels <- OneChannel
  Accounts <- OneAccount
  AccountOf <- Shared
  Policies <- UserPolicies
  MaxMsgs = 2
  MaxConnects = 2
  MaxInits = 1
  Disconnects = TRUE
  GenErrors = TRUE
INVARIANTS NoMessageLost DecryptedOnce
