SPECIFICATION Spec
CONSTANTS
  xmpp = xmpp
  irc = irc
  k1 = k1
  k2 = k2
  k3 = k3
  Accounts = {xmpp, irc}
  Contacts = {k1, k2, k3}
  AccountOf <- MCAccountOf
  ValidAccounts = {xmpp, irc}
  Groups = {g}
  Unknown = Unknown
  Unsorted = Unsorted
  MaxConnections <- Reconnects
INVARIANT ItemForGroupReturns
CHECK_DEADLOCK FALSE
