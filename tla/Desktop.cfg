SPECIFICATION Spec
CONSTANTS
  SourceRows = {"r", "s"}
  Headers = {"g", "h"}
  AccountHeaders = {"h"}
  ContactDetails <- MCDetails
  FilterValues <- MCFilterValues
  MaxFilterChanges = 2
  RowAccounts = {1, 2, 3}
  Values = {"v", "w"}
  On = "v"
  MaxAccountChanges = 5
  Uris = {"u", "v"}
  MaxPeopleConnections = 2
  WalletAccounts = {"a", "b"}
  Passwords = {"x"}
  MaxOperations = 3
  MaxOwnerChanges = 3
  OldAccounts = {"a", "b"}
  MaxRestarts = 2
  ImportAccounts = {"a", "b"}
  LastDay = 3
  KopeteLogs <- MCLogs
  MaxImports = 2
  MaxQueries = 2
  Rooms = {"r", "s"}
  MaxRoomChanges = 3
  ChatAccounts = {"a", "b"}
  Chats = {"c", "d"}
  People = {"c", "d"}
  Buddies = {"c", "d"}
  Beginning <- MCBeginning
  Partners = {"c", "d"}
  MaxChannels = 2
  MaxConversations = 2
  MaxConnections = 2
  MaxPinnings = 2
  MaxPosted = 2
  MaxObserved = 2
  MaxQueue = 2
  MaxLogChannels = 3
  Plugins = {"p", "q", "z"}
  LoadableFilters = {"p", "q"}
  Weight <- MCWeight
  Links <- MCLinks
  MailAddresses <- MCMails
  Messages <- MCMessages
  MaxToggles = 2
  Addresses <- MCAddresses
  Gabble = {"a"}
  Google = {"a"}
  Capabilities <- MCCapabilities
  Files <- MCFiles
  MaxClicks = 2
  MaxUps = 2
  AvatarContacts = {"k", "l"}
  IdOf <- MCIdOf
  StoredTokens <- MCStoredTokens
  MaxVersion = 2
  MaxDebugMessages = 4
  MaxShows = 2
  DialogAccounts = {"a", "b"}
  Capable = {"a", "b"}
  DialogRooms = {"r", "s"}
  MaxLinks = 2
  MaxAccepts = 2
INVARIANTS ConversationsSound PinsCurrent UnreadIsShown RowsAndChatsAgree HeadersCount AccountRowsCurrent PersonsCurrent OperationsTakeEffect AvailabilityIsCurrent DoneMeansHandled ImportedWhole JoinDialogWorks EnabledFiltersRun ShownAsWritten ChatsAreAsked AvatarsAreCurrent TabsComplete DialogsServe
CHECK_DEADLOCK FALSE
