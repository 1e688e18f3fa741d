SPECIFICATION FairSpec
CONSTANTS
  c1 = c1
  c2 = c2
  a1 = a1
  Channels <- TwoChannels
  Accounts <- OneAccount
  AccountOf <- Shared
  Policies <- ManualPolicy
  MaxMsgs = 1
  MaxConnects = 1
  MaxInits = 1
  Disconnects = FALSE
  GenErrors = FALSE
INVARIANT WaitingIsServed
PROPERTY HeldEventuallyReplayed
