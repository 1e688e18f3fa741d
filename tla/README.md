# Formal models of ktp-common-internals

TLA+ models of the parts of ktp-common-internals that keep state across signals,
replies and processes. TLC checks them on small instances; TLAPS proves the most
important invariants for all values of the constants. Paths in this file are
relative to `src/`.

    tlc -workers 2 -config OtrReconnect.cfg MCOtrProxy.tla   # one run (see the table of runs)
    tlapm OtrProxyProofs.tla                                 # one module of proofs

Everything in the repository runs in the event loop of one thread, except the key
generation of the OTR proxy and the log importer. So **an action is one callback**: a
slot, a D-Bus method or a signal handler with everything it calls. What makes the code
hard is not data races but *the order of callbacks*: signals and replies of other
processes arrive in any order, also between two steps of something that has begun.

## 1. The system

| Component | State | Operations | Talks to |
|---|---|---|---|
| OTR channel proxy, `otr-proxy/KTpProxy/otr-proxy-channel-adaptee.cpp` | connected, offered and held-back messages, flags for key generation and a wanted session | ConnectProxy, DisconnectProxy, Initialize, Stop, AcknowledgePendingMessages, SendMessage, incoming messages, authentication | text channel, proxy service, OTR manager, client (D-Bus) |
| Proxy service and observer, `proxy-service.cpp`, `proxy-service-adaptee.cpp`, `proxy-observer.cpp` | channels, key generations in progress | addChannel, GeneratePrivateKey, SetPolicy, Trust/ForgetFingerprint | worker threads, settings UI |
| OTR session and manager, `otr-session.cpp`, `otr-manager.cpp`, `otr-message.cpp` | libotr's user state, fingerprints and their file, trust levels | encrypt, decrypt, SMP, libotr's callbacks | libotr, the network |
| OTR channel adapter, `KTp/OTR/channel-adapter.cpp` | the client's copy of messages, events, trust and fingerprint | queue, acknowledge, send | the proxy, over D-Bus |
| Global presence, `KTp/global-presence.cpp`, `presence.cpp` | most online presence, requested presence, connection status of all accounts | five signals per account, accounts enabled and disabled | account manager |
| Presence lists, `KTp/Models/presence-model.cpp` | a list of presences per process, one file | add, remove; D-Bus signals between processes | itself in other processes |
| Handler application, `KTp/telepathy-handler-application.cpp` | number of jobs, one timer | newJob, jobFinished, two timeouts | the event loop |
| Global contact manager, `KTp/global-contact-manager.cpp` | connections followed | account, connection and roster signals | contact list model |
| Contact list, grouping proxies and contacts model, `KTp/Models/contacts-list-model.cpp`, `abstract-grouping-proxy-model.cpp`, `accounts-`/`groups-tree-proxy-model.cpp`, `contacts-model.cpp` | rows; tree of groups | rosters change, contacts change, grouping mode | each other, synchronously |
| Contacts filter, `KTp/Models/contacts-filter-model.cpp` | filter settings, numbers of headers | thirty setters, changes of the source | contacts model, views |
| Account models, `KTp/Models/accounts-list-model.cpp` | sorted rows | accounts added, removed, changed | account sets |
| KPeople integration, `kpeople/`, `kpeopletranslationproxy.cpp` | address book entries, a cache of them, menus, chat pages | rosters and connections change; clicks | contact manager, KPeople, loggers |
| Contacts and factories, `KTp/contact.cpp`, `capabilities-hack-private.cpp` | cache of pixmaps and tokens, capabilities | avatar and presence signals | TelepathyQt |
| Messages model and scrollback manager, `KTp/Declarative/messages-model.cpp`, `KTp/Logger/scrollback-manager.cpp` | rows of a chat; caches of the fetch | messages, reports, history | text channel, logger |
| Logger and its plugin, `KTp/Logger` | queries in progress, their joined results | dates, logs, entities, search, clear | plugins, the Telepathy logger |
| Conversations, `KTp/Declarative/conversation.cpp`, `conversations-model.cpp` | list of conversations with channels, active one | handleChannels, close, delegate, reconnect | channel dispatcher, messages model |
| Pinned contacts, `pinned-contacts-model.cpp`, `filtered-pinned-contacts-proxy-model.cpp`, `KTp/persistent-contact.cpp` | pins, contacts behind them | pin, unpin, connections and requests | account manager, conversations |
| Main log model, `KTp/Declarative/mainlogmodel.cpp` | past chats and their conversations | database result, observe, handle, startChat | database, dispatcher |
| Text channel watcher, `KTp/Models/text-channel-watcher-proxy-model.cpp` | the last channel of each contact | observe, messages, read | contacts model |
| Messages and filters, `KTp/message*.cpp`, `text-parser.cpp` | loaded filters and their order | settings change; a message is processed | plugins |
| Wallet, `KTp/wallet-interface.cpp`, `pending-wallet.cpp`, `wallet-utils.cpp` | the wallet and who waits for it | set and remove passwords | KWallet |
| Service availability checker | whether a service is there | two queries, one signal | D-Bus |
| Logs importer, `KTp/logs-importer*.cpp` | thread, document under way | import | Kopete's and the logger's files |
| Accounts plugin, `kaccounts/kaccounts-ktp-plugin.cpp` | counter of the migration | migrate accounts and logs | account manager, KAccounts |
| Dialogs, `KTp/Widgets/join-chat-room-dialog.cpp`, `start-chat-dialog.cpp`, `add-contact-dialog.cpp`, `accounts-combo-box.cpp` | one request under way, lists of rooms and accounts | open, OK, cancel, click, answers | account manager, connections |
| Actions, `KTp/actions.cpp` | none | requests of channels | dispatcher |
| Debugger, `tools/debugger` | messages of a process, text of a tab | monitor, show, clear | D-Bus |
| Declarative glue, other widgets, OTR set-up, test programs, build | none or user interface | | |

What would make each correct, and where it is hard:

- **OTR proxy.** No message may be lost or decrypted twice while the client connects and
  disconnects and a key is generated; a session that was asked for is started; no client
  is left waiting. Hard: key generation runs in a thread, for one of several channels of
  an account, and its end is broadcast to all.
- **OTR conversation and trust.** What a client shows is the trust the conversation has;
  trust survives a restart; nothing written in private goes out in the open; no one waits
  for an authentication that is over. Hard: four actors change trust, and keys, texts and
  aborts cross on the way.
- **Adapter.** The client's queue is the proxy's. Hard: a property's reply races with the
  signal of its change.
- **Global presence.** What is shown covers all enabled accounts. Hard: every slot returns
  early when "nothing changed".
- **Handler application.** Never quits under a job, quits when idle. Hard: one timer
  object serves two purposes and is never stopped.
- **Contact list.** The rows are the rosters, the tree is the rows. Hard: three ways in
  which contacts are announced, connections that go before they are ready, groups that
  come and go. The same for account rows, address book entries and the header numbers.
- **Chats.** No message lost, none twice, reports at the right row; one row and one
  conversation per chat, valid as its channel is. Hard: fetches overlap each other, the
  live messages and the log that these are written to; signals of old channels come late.
- **Services and dialogs.** An operation that was started takes effect or fails, and
  waits for nobody who will not answer. Hard: the other end is opened, closed, refused and
  replaced while requests are under way.

## 2. Modules

Component modules have the names of their variables, actions and properties to themselves,
so that one MC module can extend several of them.

| Module | Models | Checked by |
|---|---|---|
| `OtrProxy` | the proxy process: service, channels, key generation | `MCOtrProxy`, `OtrProxyProofs` |
| `OtrSession` | trust: sessions, fingerprints, file, what clients were told | `MCOtrClient`, `OtrConversationProofs` |
| `OtrConversation` | two people, their sessions and the network between them | `MCOtrClient`, `OtrConversationProofs` |
| `ChannelAdapter` | the adapter and the ordered D-Bus link to its proxy | `MCOtrClient`, `ChannelAdapterProofs` |
| `MessageQueue` | abstract: what a client of a text channel is promised; `ChannelAdapter` implements it | `MCOtrClient`, `ChannelAdapterProofs` |
| `PresenceOrder` | comparing presences; used by the next two and the filter | |
| `GlobalPresence` | all slots of the global presence | `MCGlobalPresence`, `PresenceAndChatProofs` |
| `PresenceLists` | the lists of presences in several processes | `MCGlobalPresence`, `PresenceAndChatProofs` |
| `HandlerApplication` | jobs and timer | `MCGlobalPresence`, `PresenceAndChatProofs` |
| `ContactList` | contact manager, list model, grouping proxy and contacts model, composed | `MCContactList`, `ContactListProofs` |
| `ContactsFilter` | the filter, its order, and the numbers of headers | `MCDesktop`, `ModelProofs` |
| `Persons`, `Avatars` | address book entries; cached pixmaps | `MCDesktop`, `ModelProofs` |
| `AccountRows` | account rows | `MCDesktop`, `DesktopProofs` |
| `ChatHistory` | messages model and scrollback manager, composed | `MCChatHistory`, `PresenceAndChatProofs` |
| `LogQueries` | the log manager over several plugins, the Telepathy logger plugin, the chat page | `MCChatHistory`, `PresenceAndChatProofs` |
| `Conversations`, `Pins`, `ChannelWatcher` | conversations; pinned contacts; unread counts | `MCDesktop`, `DesktopProofs` |
| `ChatLog` | the main log model | `MCDesktop`, `ModelProofs` |
| `MessageFilters` | filters loaded and unloaded; the escape filter | `MCDesktop`, `ModelProofs` |
| `ContactActions` | the menu of a person, requests and capabilities | `MCDesktop`, `DesktopProofs` |
| `Wallet`, `ServiceChecker`, `Migration` | the services of these names | `MCDesktop`, `DesktopProofs` |
| `LogsImport` | the thread that imports Kopete's logs | `MCDesktop`, `ModelProofs` |
| `JoinRoom`, `Dialogs` | the join dialog's rooms; three dialogs and their accounts | `MCDesktop`, `DesktopProofs` |
| `DebugView` | a tab of the debugger | `MCDesktop`, `ModelProofs` |
| `SequenceItems` | no code: lemmas about the items of sequences, for the proofs about queues, and induction over numbers | the modules of proofs |

Operations in the models have the names of the functions in the code. Actions that begin
with a capital letter are signals or steps of external parts (`MessageArrives`,
`KeyGenerationFinished`, `ConnectionInvalidated`, `Logged`); operators
with the comment "Mutant:" are faulty variants of the operation they are named after, with
which each property is seen to fail; they are not part of any specification.

**Sums.** Components that share no state are checked in one run as a sum: the MC module
extends them and has a variable `part`; in a behaviour one of them runs, and the others
keep their first state (which is cut down to one, so that nothing is counted twice).
A sum shows of each part exactly what a run of its own would show; it says nothing about
parts together. Parts that do interact are composed inside a module (`ContactList`,
`ChatHistory`, `ChannelAdapter`, `OtrConversation`, `OtrProxy`).

**OtrProxy.** Per channel: the real queue of the text channel (`queue`, `acked`,
`otr`), and the adaptee's members (`isConnected`, `messages`, `enqueued` for
enqueuedMessages, `isGenerating`, `aboutToInit`); `slots` counts how often the signals
are connected, since Qt calls a slot once per connection. `gen` is libotr's own list of
generations: a failed calculation leaves its entry behind ("leaked"), because only
`otrl_privkey_generate_finish` removes it. A message is a number; whether it belongs to
the OTR protocol, what decrypting gives and whether the peer turns the conversation
private are choices. `decrypted` and `queries` are history.

**OtrSession.** Conversation state, active fingerprint and SMP per contact, the list in
memory (`known`, `trusted`) and on `disk`, and `view`, the level the client was told last.
`onChannelClosed` of the last channel ends the process: the next one reads the file.
Trust set through the service is written only by the next write for another reason
(`unsaved`).

**OtrConversation.** Two people who both use the proxy: `msgstate` and `key` of each, the
messages `wire` on the way in both directions, in order, and what was shown and told to
each client. A key exchange has two messages here ("dh", "sig"), an authentication four
steps. Policies, heartbeats, texts that libotr keeps to send again, messages that cannot
be read, errors of the encryption and ends of the conversation are included, and so are
texts that look like OTR's own messages (`disguised`), which `encrypt` returns as they are.
`raw`, `careless`, `unsent` and `echoed` are history.

**ChannelAdapter.** `link` holds calls, replies and signals in order; `posted` the replies
that a `Tp::PendingVariant` announces from the event loop, which later signals may
overtake. `Queue == INSTANCE MessageQueue WITH shown <- messages` states the abstract
queue, and `QueueSpec` is a property of the run and a theorem: the adapter implements it.

**GlobalPresence.** Accounts have the values that Telepathy reports; a slot reads *all*
enabled accounts but is triggered by one. `listening` are the accounts whose signals are
connected: `disconnect(account)` has sender and receiver reversed, so an account stays in
it when disabled. Which of several equal presences is found first is a choice.

**PresenceLists.** Processes with a model each; a change is broadcast by D-Bus and comes
back to its sender too. The list is a set, as the code keeps it sorted and without equals.

**HandlerApplication.** One timer with two slots, `onInitial` and `onTimer`, as the code
connects them; `cut` counts jobs that ran when the process quit.

**ContactList.** A contact of a new connection is a new object, so an entry is a contact
with the number of its connection. `opening` holds the becomeReady() operations in
flight; these may end after the connection is gone or replaced. `tree` has the headers
(`groups`), those of enabled accounts (`forced`), the null pointers that `operator[]`
leaves (`nulls`), the nodes and the cache of groups per row. Following a null pointer sets
`crashed`, and nothing happens afterwards.

**ContactsFilter.** A contact is a record of its roles; `filterAcceptsRow` is the whole
predicate of the code, `lessThan` its order, and each setter is an action. `lastNumbers` is
what a view read of a header when it was last told that it changed.

**AccountRows, Persons, Avatars.** What views read when a row was last announced
(`lastRead`, `readLast`) is compared with what it says now; in `Persons`, a contact object
belongs to a numbered connection, is invalidated when that is lost and again when it is
destroyed; in `Avatars` the token file and the pixmap cache outlive contact objects.

**ChatHistory.** `ops` are the queries in flight, answered in any order; `datesCache`,
`messagesCache` and `fromToken` are the members that all fetches share. Messages are
numbered as they were sent. The logger writes what was sent and received at its own
pace. A query that fails ends as an empty answer, because the operations that join the
plugins (`pending-logger-*-impl.cpp`) do not read errors. The chat is with a contact, whose
name may not be known yet when the chat is opened, or with a `room`; without an alias its
log entity is not valid, and a fetch ends at once with nothing (`unasked`). Some messages
may be `tokenless`: the code compares tokens, so one of them is taken for any other
(`TakenFor`), and those that were left out for that reason are `mistaken`. Only
fetchMoreHistory gives a message without a token one of its own, made of its time and text.
Assumed: a logger plugin handles the account, and a logged message has the token, time and
sender of the live one.

**LogQueries.** What `LogManager` asks of all plugins and how their answers are joined,
late, in any order, or failing; the chat page's two rounds of queries and its one shared
list; entities whose ids the conversion to 8 bits cuts. Several plugins may have the same
message, which is then found as often.

**Conversations, Pins, ChannelWatcher, ChatLog.** Channels and connections are numbered
objects that end with an invalidated() signal from the event loop (`posted`, a channel's
state "closed" before "told"), which may come after the next channel of the chat.
`Conversations` has handleChannels with its four cases, over accounts whose contacts may
share an id, reconnects, delegation, typing and the index of the active chat (`misled` is
history: told of the end of a channel that is not its own now); `ChannelWatcher` finds the
row of a channel as QAbstractItemModel::match() does, by what ids begin with, and keeps it
as a persistent index does, until the row is removed; `Pins` the requests and
the repaints from the event loop; `ChatLog` the rows, the map of conversations and
startChat's claim of a channel that others are offered as well, and what a view read of
each row.

**MessageFilters.** A text is a sequence of characters, "\r" among them; links are
placeholders while the rest is escaped, as in the code. `Rendered` is what HTML shows of the
result.

**Wallet, ServiceChecker, Migration, LogsImport, JoinRoom, Dialogs, ContactActions,
DebugView.** Each has the callbacks of its class as actions and the other side (KWallet,
the bus, the account manager, files, connections) as actions with capital letters. Crashes
are restarts of the process in `Migration`; `happened` in `ContactActions` is the order of
connections, clicks and requests. In `DebugView` the finished() of a query comes from the
event loop, some time after its reply, so that signals of new messages come between. What
`LogsImport` writes is in the data directory of the application, apart from the logger's.

## 3. Runs

| Run | Checks | Instance |
|---|---|---|
| `otr_reconnect` | `NoMessageLost`, `DecryptedOnce` | one channel, two messages, two ConnectProxy, DisconnectProxy at any time, one Initialize, failing generation, two policies |
| `otr_keys` | `WaitingIsServed`, `HeldEventuallyReplayed` | two channels of one account that compete for its key; generation does not fail, clients stay |
| `otr_init_dropped` | finds `InitializeHonoured` violated | one channel, one message, one Initialize; generation does not fail, the client stays |
| `otr_trust` | `ViewMatches`, `TrustDurable`; `AdapterIsCurrent`, `QueueSpec`; `SecretsAreSealed`, `TextsAreAccounted`, `NoVainAuthentication` | sum: trust of two contacts and two keys that both may have; an adapter with two messages, one notice, two changes of trust, one sent message, three events and one call; two people with four policies, two texts of which one may look like OTR, and two calls. Symmetric in contacts, keys and people |
| `otr_trust_lost` | finds `TrustedMeansVerdict` violated | the trust of two contacts |
| `otr_abort_echoed` | finds `AbortedByPeer` violated | the two people |
| `otr_disguised` | finds `EncryptsAlways` violated | the two people, one text |
| `contacts` | `RowsAreRosters`, `TreeIsRows` | two accounts, one connects twice; three contacts; one roster group; all grouping modes |
| `contacts_null` | finds `ItemForGroupReturns` violated | same |
| `presence_shown` | `NeverUnderstates`, `ShownIsExplained`, `CurrentSettles`; `QuitsOnlyIdle`, `IdleQuits`; `ListsAgree` | sum: two accounts with three presences that differ in type, in message, or only as "unset" from "offline"; five jobs with timeouts off, zero and positive, persistent or not; two processes, three changes of the list |
| `history` | `HistoryIntact`, `FetchEnds`; `LogsAreFound` | sum: a log of two dates, a chat with a contact or a room, with or without channel at first, two channels over time, a message in each direction, all with tokens or two without, one fetch of more, two fetches in flight, failing queries; two plugins with logs of three days and contacts, of which both have one message, one contact with an id that is not Latin-1, two lookups, one failure |
| `desktop` | the eighteen properties of the seventeen modules below | sum; see the next table |

| Part of `desktop` | Property | Instance |
|---|---|---|
| `ContactsFilter` | `HeadersCount` | two rows, two headers (one an account's), six kinds of contacts, two changes of the filter |
| `AccountRows` | `AccountRowsCurrent` | three accounts, five changes |
| `Persons` | `PersonsCurrent` | two address book entries, two connections each |
| `Wallet` | `OperationsTakeEffect` | two accounts, three operations, a wallet that is opened, refused, closed |
| `ServiceChecker` | `AvailabilityIsCurrent` | three changes of the owner around two queries |
| `Migration` | `DoneMeansHandled` | two old accounts of every kind, two restarts |
| `LogsImport` | `ImportedWhole` | two accounts, a month of three days, broken messages, a room, two imports |
| `JoinRoom` | `JoinDialogWorks` | two rooms, two queries, three changes of what is saved |
| `Dialogs` | `DialogsServe` | two accounts that connect and drop, two rooms, two OKs |
| `Conversations` | `ConversationsSound` | two accounts, two ids, two channels, two conversations |
| `Pins` | `PinsCurrent` | two contacts, two connections, two pinnings, two repaints on the way |
| `ChannelWatcher` | `UnreadIsShown` | two contacts, the id of one beginning with the other's, two channels, queues of two |
| `ChatLog` | `RowsAndChatsAgree` | two contacts, three channels |
| `MessageFilters` | `EnabledFiltersRun`, `ShownAsWritten` | two filters that can be loaded and one that cannot, two toggles; messages with links, reserved characters, blanks, lines and carriage returns |
| `ContactActions` | `ChatsAreAsked` | two contacts, two clicks, two connections |
| `Avatars` | `AvatarsAreCurrent` | two contacts, two versions of each avatar |
| `DebugView` | `TabsComplete` | four messages, two shows |

**Bounds.** They are constants in the guards of actions (`Max...`, the sizes of sets). Two
of everything that races is enough for an overlap: two messages (one held, one coming),
two channels of one account, two connections of one account, two fetches, two processes.
Two messages and two reconnections in `otr_reconnect` include a message held from an
earlier connection next to a new one. The log of `history` has more messages than the
scrollback length and two dates, so that a fetch has to walk back and to cut. Two
channels in `Conversations` are one that ends late and the next one of the chat, or one of
each account; three are needed in `ChatLog`, for a chat whose old channel ends late while a
new one is there and another is offered. Three operations of the wallet are
one that waits, one that is started while the wallet opens, and one after that. Five
account changes let an account leave, change and come back.

**Fairness.** Only what ends by itself is assumed to end:
- `otr_keys`: `WF` of `KeyGenerationFinished`: the worker thread ends. Nothing is
  assumed of clients, peers and users.
- `presence_shown`: `WF` of `TakenOffline`: the account manager disconnects an account
  that was disabled; Telepathy specifies that, and the code relies on it. `WF` of
  `TimeOut`: the event loop delivers timers. Jobs need not end; `IdleQuits` is about runs
  in which they do.
- `history`: `WF` of the answers of the logger: each operation ends with a zero timer
  after its plugin answers.

Deadlock is checked in `otr_reconnect`, `otr_keys` and `otr_init_dropped`. Elsewhere the
system really stops: a handler has quit, a model has crashed, a dialog is closed, all
messages of the instance have been exchanged.

**What properties leave out.** Where the code does not do what the property says in general,
the property names the case, so that everything else is still checked. Unless another
reason is given, each is a defect that section 4 lists.

| Property | leaves out |
|---|---|
| `RowsAreRosters` | contacts of a connection that was gone before it was announced (`late`) |
| `TreeIsRows` | changes of a row while it was the first one (`missed`) |
| `HeadersCount` | headers whose numbers only the filter changed (`toRepaint`) |
| `PersonsCurrent` | after the null pointer (`crashed`) |
| `OperationsTakeEffect` | operations that ran when the wallet was not open (`lost`) |
| `AvailabilityIsCurrent` | a query that failed: the checker then knows nothing more |
| `DoneMeansHandled` | accounts that met a failure or a restart while they were stored or removed (`disturbed`); logs that are under both names |
| `ImportedWhole` | days whose file has messages of another month, rooms, an account set while the thread ran |
| `JoinDialogWorks` | overlapping queries and a lost channel of a query (`overlapped`, `broken`); rows that were `renamed` |
| `DialogsServe` | a contact that was not found (`stuck`), another account or text chosen since (`moved`, `retyped`) |
| `PinsCurrent` | a contact that was not found (`refused`); rows that could not be announced, because they lost their contact or moved while their repaint was in the queue (`missed`) |
| `ConversationsSound` | the validity of a conversation that was told of the end of an earlier channel, or of one of another account, since it has its channel (`misled`) |
| `UnreadIsShown` | a contact whose watcher announces another row, or one that was removed since (`Misplaced`); a queue that a delivery report changed last: no signal follows |
| `RowsAndChatsAgree` | contacts with a channel from before the first query; rows of conversations that are not valid |
| `EnabledFiltersRun` | a filter whose own activation made the processor |
| `ShownAsWritten` | a blank that begins the message or follows a carriage return is lost; "\r\n" is two breaks |
| `ChatsAreAsked` | a wish that a later one overwrote |
| `AvatarsAreCurrent` | contacts of two accounts with one id |
| `TabsComplete` | repeated messages that were signalled before the reply |
| `HistoryIntact` | order and completeness only while `clean`: no query failed, no two fetches overlapped, nothing but the first row was logged during a fetch, no message carried a sending time, and none without a token was taken for another (`mistaken`). Completeness only if there was a valid entity to ask for (not `unasked`) |
| `LogsAreFound` | pages of contacts whose id is not Latin-1: these are not found at all; pages and answers whose logs were `logsDisturbed` (cleared, or the account removed, meanwhile), or are of a plugin that failed (`flawed`) |
| `TrustDurable` | trust set through the service (`unsaved`), which the file does not have until it is written for another reason: finding 2 |
| `SecretsAreSealed` | texts for which the user had chosen "never" before: that is what the user asked for; texts that look like OTR (`disguised`): finding 5 |
| `TextsAreAccounted` | texts sent when the peer had ended the conversation, or that libotr could not encrypt, of which the sender is told (`unsent`); texts that look like OTR, which the receiver's libotr takes for its own (`disguised`) |
| `NoVainAuthentication` | a second key exchange, or a text that looked like OTR to libotr, during the authentication |
| `WaitingIsServed` | instances in which generating fails or a client disconnects |
| `IdleQuits` | a process without jobs whose timeout is negative: its code starts no timer, so it need not quit; with a negative first timeout that is so from the start, and the run checks nothing of it |
| `AdapterIsCurrent` | a level that was overtaken (`outdated`), messages removed between the reply and its handling (`revived`), and those acknowledged together with one that had left (`refused`) |

## 4. Findings

1. **Initialize is forgotten** (`otr_init_dropped`,
   `otr-proxy/KTpProxy/otr-proxy-channel-adaptee.cpp:503`). A session that the client
   asked for while a key is generated is dropped if a message was held back.
2. **Trust is more than the last verdict** (`otr_trust_lost`,
   `otr-proxy/KTpProxy/otr-manager.cpp:549`). Trust that was withdrawn in the settings
   comes back with the next process.
3. **A null group** (`contacts_null`, `KTp/Models/abstract-grouping-proxy-model.cpp:176`).
   An icon or name change of a disabled account leaves a null pointer, which enabling it
   follows.
4. **An abort is answered by an abort** (`otr_abort_echoed`,
   `otr-proxy/KTpProxy/otr-manager.cpp:233`), so who aborts an authentication is told
   that the other one did.
5. **What looks like OTR goes out in the clear** (`otr_disguised`,
   `otr-proxy/KTpProxy/otr-session.cpp:184`). A text of the user that libotr would take for
   one of its own messages is not encrypted, in a private conversation or under "always".

Seen while modelling, and built into the models but not a run of their own:

- *OTR proxy.* `otr-proxy-channel-adaptee.cpp:204`: `isGenerating` survives
  DisconnectProxy, and the client of a later connection cannot start a session until a key
  is generated; `:166`: a second ConnectProxy decrypts pending messages again (hence
  `connects` in `DecryptedOnce`). `proxy-service.cpp:194`: an error of the calculation
  leaves libotr's entry, and no later generation for the account starts;
  `proxy-service.cpp:84-88`: signals for connected proxies are wired and never emitted.
- *OTR conversation.* `otr-proxy-channel-adaptee.cpp:256-260`: under the policy "always" a
  SendMessage that starts a session is not answered; in a finished conversation an empty
  text is sent and the original one is reported as sent. A failed authentication lowers
  trust, against "can only increase" in `constants.h`. `otr-manager.cpp:341`: a notice without a
  direction goes to the peer. Two authentications that are started at once both end in an
  error. `otr-message.cpp:187`: getToken() reads "message-sender".
- *OTR adapter.* `channel-adapter.cpp:339`: an event's id is the number of events, which a
  later one may have as well; `:208`: the reply to the query of a property may overtake
  the signal of its change.
- *Presence.* `global-presence.cpp:302`: the requested presence of a disabled account stays;
  `:349`: the connection error is computed only when the status changed, and is
  uninitialised before; `:260`, `:280`: without enabled accounts the presence is not reset
  to offline. `telepathy-handler-application.cpp:155`: after quit() the count is -1: only
  the first late newJob() reports it, the second returns 0. `presence-model.cpp`: a
  presence that is added is not saved, although `presence-model.h:51-52` says so, and
  hidden or offline ones are not read again.
- *Contact list.* `contacts-list-model.cpp:238`: `row > 0` drops all changes of the first
  row; `global-contact-manager.cpp:114`: the error of becomeReady() is not looked at.
  `contacts-filter-model.cpp`: typed diacritics never match, the capability filter hides
  all account rows, the text of a group matches only contacts with exactly one group, the
  header's numbers are not repainted after a change of the filter, and the order of
  presences that are not reachable is no weak order (strict it is: section 5).
  `accounts-list-model.cpp:299`: the assertion on the item is of a lambda's copy.
  `kpeopletranslationproxy.cpp:103`: the loop for the most online contact compares the
  first with itself. A contact that was removed and is invalidated later is written to a
  null entry of the KPeople data source. Accounts with contacts of one id share their
  cached avatars.
- *Chats.* `messages-model.cpp:274`: a message with a sending time is put *before* the last
  older message, not after it; `:429`: `pendingMessageRemoved` of the old channel stays
  connected; `:200`: the cut looks for the first row only; if that row is still pending
  and therefore filtered from the history, all messages after it come twice;
  `:158`: messages without a token are taken for each other, and after a reconnect one that
  waits is taken as shown; so does `scrollback-manager.cpp:252` with those of the log. A chat
  opened with a contact whose name is not known yet counts as loaded, and its log is not
  asked for again. `scrollback-manager.cpp:230`: two fetches in flight append to
  one cache, so that a message is shown twice, against `messages-model.cpp:196`, "make sure
  we're not adding duplicated messages to the model"; `scrollback-manager.cpp:86-88`: the
  entity of a room has no alias and is not valid by `log-entity.cpp:107`, against
  `log-entity.h:80-81`, so that the history of a room is never shown; `:120`: `n` is only
  compared with zero, while `scrollback-manager.h:63` says "Fetches last @p n messages".
- *Loggers.* `pending-logger-dates-impl.cpp:33`: an operation never ends if plugins exist
  and none handles the account. Errors of plugins are dropped and duplicates between them
  kept (`pending-logger-logs-impl.cpp:67`); `utils.cpp:24`: ids that are not Latin-1 lose
  characters; the chat page's list is
  shared and never cleared.
- *Conversations.* `conversation.cpp:112`: a late invalidated() of the old channel reaches a
  conversation that has a new one, and says that this is not valid.
  `conversations-model.cpp:173`: the active index is not adjusted when an earlier row
  leaves; `:154`: the context is finished only for new conversations; `:212`: cleared before
  deleted; `:119`: matched by target, whatever the account. `pinned-contacts-model.cpp:86`:
  two pins are assumed. `text-channel-watcher-proxy-model.cpp:170`: invalidated is never
  connected; `:160`: match() finds the first row whose id begins with the target's, of any
  account, against the comment "if it's not in our source model, ignore the channel";
  `:165`: a contact that is removed and added again while its channel is open is a new row,
  which the watcher does not announce. `mainlogmodel.cpp:459-464`: a row is not announced
  when its conversation becomes invalid; a contact observed before the account manager is
  ready gets two rows; a conversation without a channel counts as valid, and rows of the
  database show it.
- *Join dialog.* Overlapping queries for rooms meet a deleted operation; a lost channel
  leaves the button at "Stop"; a favourite that was renamed is saved as a recent room;
  clearing the recent rooms clears those of all accounts; the rooms found stay when the
  account changes; a double click on the current favourite joins the edited text, and is
  not recorded as recent.
- *Other dialogs.* `start-chat-dialog.cpp:118`: after a failed lookup the dialog stays
  disabled; `:124`: the chat is started with the account that is current *then*, or with a
  null one. Accounts that connect after the add-contact dialog was opened are not offered.
- *Menus.* `kpeople-actions-plugin.cpp:307-308`: an account that is removed under an open
  menu is followed as a null pointer; a second click overwrites the first; a click while
  the account is connected waits for the next reconnect; cancelling the dialog for
  collaboration still sends the request.
- *Services.* `wallet-interface.cpp`: the operation of setAccountPassword never finishes,
  an openWallet() that gives nothing leaves `isOpening` set, and a failed opening loses the
  password. `kaccounts-ktp-plugin.cpp`: a restart between the job and its callback makes a
  second account; an error reply is read as "not a single sign-on account"; `:315`:
  kill(0) if pidof says nothing; `:117`: logs are renamed after an account that does not
  exist, and not at all if the new directory is there. `logs-importer-private.cpp`: the
  account may be changed under the thread, and months are local while days are UTC; `:173`:
  logs are written below the application's own data directory, while those of the logger are
  elsewhere (`kaccounts-ktp-plugin.cpp:259`) and `logs-importer.h` says that they are
  imported to its storage; and an import rewrites what an earlier one wrote, although
  `logs-importer.h:63` says that it will not overwrite.
- *Filters.* `reloadConfig` before instance() loads a filter twice; flags that another
  process changes are not seen; the leading blank of the first line, and blanks after a
  carriage return, are lost; "\r\n" becomes two breaks; a link's text is not escaped; a text
  may contain the placeholder of a link.
- *Debugger.* A process that exits before its tab is ready is not noticed, and messages that
  are signalled before the reply appear twice.

## 5. Proofs

All proofs are for arbitrary sets of accounts, channels, contacts and presences and
arbitrary bounds, from the named assumptions on the constants (`OtrAssumption`,
`PresenceAssumption`, ...) alone; TLC evaluates these in the runs. They say that bounds are
numbers, that values have the types of the code (`GlobalPresence`, `AccountRows`), that
every contact has an account and there are finitely many of them (`ContactListAssumption`),
that one chooses finitely many files (`ActionsAssumption`), that a header is no row
(`FilterAssumption`: an index of the source model is one or the other), that the
database names finitely many contacts (`ChatLogAssumption`), that finitely many plugins are
installed, none of them with the name of the escape filter (`FiltersAssumption`), that
Kopete writes messages in the order of time, to one file for each contact or room and month,
for accounts that are not called like the folder of rooms (`ImportAssumption`), and that what
the logger has when a chat is opened is in the order of time and older than the messages of
the chat (`HistoryAssumption`), and that there are finitely many loggers, with messages of
finitely many contacts and days (`QueriesAssumption`). What else a theorem assumes is in its
statement. Each inductive invariant was checked with TLC on the instance of its run before
it was proved.

| Theorem | Says | Inductive invariant |
|---|---|---|
| `TypeCorrect` | `Spec => []TypeOK` of `OtrProxy` | itself; `ReceiveType` gives what onMessageReceived does to the types |
| `ProxySafe` | `Spec => [](NoMessageLost /\ PrivateOnlyConnected)` | `IInv`: and `SlotsMatch` |
| `OnceAndPending` | `Spec => [](DecryptedOnce /\ OfferedIsPending)` | `OnceInv` |
| `WaitersServed` | `WaitingIsServed` if nothing fails to generate and no client disconnects | `ServedInv` |
| `TrustShown`, `TrustSurvives` | `ViewMatches`, `ActiveKnown`, `TrustDurable` of `OtrSession` | and `InUse` |
| `TextsAreKept`, `SecretsStaySealed` | `TextsAreAccounted`, `SecretsAreSealed` of `OtrConversation` | `TalkInv` |
| `AuthenticationNeverVain` | `NoVainAuthentication` | `AuthenticationInv`, with the types of `TalkInv` |
| `AdapterImplementsQueue` | `AdapterSpec => QueueSpec` | `Inv` of `ChannelAdapterProofs` |
| `AdapterStaysCurrent` | `AdapterIsCurrent` | `CurrentInv` |
| `GlobalPresenceCovers` | `NeverUnderstates`, with types | `IInv` of `PresenceAndChatProofs` |
| `ShownExplained` | `ShownIsExplained` | and `Explained` |
| `PresenceListsAgree` | `ListsAgree` | `ListsInv` |
| `NeverCutsJobs` | `QuitsOnlyIdle` | `HandlerInv`: until it quits, the count is the number of running jobs |
| `RostersAreShown` | `RowsAreRosters` | `RosterInv` |
| `TreeFollowsRows` | `TreeIsRows` | `RosterInv` and `TreeInv` |
| `LessThanIsStrictOrder` | lessThan of the contacts filter is irreflexive, asymmetric and transitive | none: by cases on presences, phones, names |
| `HeadersKeepCount` | `HeadersCount` | `FilterInv` |
| `AccountRowsStayCurrent` | `AccountRowsCurrent` | `RowsInv` |
| `PersonsStayCurrent` | `PersonsCurrent` | `PersonsInv`, an `EntryInv` per entry |
| `AvatarsNeverStale` | `AvatarsAreCurrent` | `CacheInv` |
| `ConversationsStaySound` | `ConversationsSound` | `ConversationsInv` |
| `PinsStayCurrent` | `PinsCurrent` | `PinsInv` |
| `UnreadStaysShown` | `UnreadIsShown` | `WatcherInv` |
| `HistoryStaysIntact` | `HistoryIntact` | `HistoryInv` |
| `LogsStayFound` | `LogsAreFound` | `QueriesInv` |
| `RowsAndChatsKeepAgreeing` | `RowsAndChatsAgree` | `LogInv` |
| `TabsStayComplete` | `TabsComplete` | `DebugInv` |
| `ImportsAreWhole` | `ImportedWhole` | `ImportInv` |
| `EnabledFiltersKeepRunning` | `EnabledFiltersRun` | `FiltersInv` |
| `ChatsStayAsked` | `ChatsAreAsked` | `ActionsInv` |
| `OperationsAlwaysTakeEffect` | `OperationsTakeEffect` | `WalletInv` |
| `CheckerKnows` | `AvailabilityIsCurrent` | `CheckerInv` |
| `MigrationHandlesAll` | `DoneMeansHandled` | `MigrationInv` |
| `JoinDialogKeepsWorking` | `JoinDialogWorks` | `JoinInv` |
| `DialogsKeepServing` | `DialogsServe` | `DialogInv` |

Theorems of a part of a sum are about that part's own Init and Next. The lemmas of
`SequenceItems` serve those about queues: whether a sequence has an item of a set, how
often, which is the first and the last, what follows it, and what appending and taking the
head do to that.

### The OTR proxy

*ProxySafe.* `NoMessageLost` is not inductive: an arrival is dropped if the signals are not
connected while `isConnected` is set, and nothing in `NoMessageLost` excludes that. The
invariant `IInv` adds `SlotsMatch` (signals are connected exactly while the proxy is) and
the types. The lemma `ReceiveKeeps` states that whatever set of messages onMessageReceived
is given ends up offered, held or acknowledged; the live message, the backlog of
ConnectProxy and the replay after a key generation all use it.

*OnceAndPending.* That a message was counted at most once per ConnectProxy says nothing
of the next one unless nothing was counted before it arrived, and a held message is
offered later, when nobody asks whether it is still pending. `OnceInv` therefore keeps,
per channel and message: only what arrived is counted (`Times`); only what was decrypted
is offered or acknowledged; and with one ConnectProxy what is offered *or held* is pending.
A message leaves the queue only when acknowledged, hence decrypted, hence not held as
well, its one count being used up. `Connection` bounds the signal connections by the
ConnectProxy calls, since an arrival is counted once per connection. The lemma
`ReceiveCounts` says what onMessageReceived does to the counts.

*WaitersServed.* A channel may wait for a generation that another one started, and the end
of that is told to all. `ServedInv` says that no entry of a failed generation is left
(which is where the assumption is needed), that whatever waits has its slots connected, so
that it hears of the end (for which clients must stay), and that only open channels have
slots. Each callback that begins to wait starts the generation or finds it running.

*TrustShown.* `ViewMatches` needs `InUse`: the key in use is one of an open, encrypted
conversation and on the list, and SMP runs only there. Without it, forgetting a
fingerprint or restarting the process could take the key from under a conversation.
`NextTypeOK`, `NextInUse`, `NextDurable` and `NextViewMatches` have one step per callback.

*TextsAreKept and SecretsStaySealed.* Both are about messages that travel, so `TalkInv`
adds what may be among these: a text on the way was written, and one in the clear is known
to be readable (`Legible`). What goes out in the clear although it is secret was written
under "never" or is `disguised`: every branch of `encrypt` is gone through, its error too,
after which the text is `unsent`. A step takes one message and sends at most two; `Taken` and
`Posted` say what travels then. A text leaves the wire only when it is seen, or when it
waits for the key exchange whose end sends it under the new key.

*AuthenticationNeverVain.* A step of the authentication is no use to anyone who has no
key yet, or has left. So `AuthenticationInv` follows the one key exchange through its
stages: there is none and no message needs a key (`NoExchange`); one person offered it and
nobody has the key (`Offering`); the other has accepted, and the "sig" travels in front of
all that needs the key (`Accepted`); both have it (`Private`). In the last two, what a
person waits for is on its way to the one or the other, or the other was asked, or an
abort is on its way (`GoesOn`), as long as both are in private. `KeyedHead` says who can
take a message that needs a key at which stage, `PrivateKept` and `KeyedCall` what a step
of either kind must show. A second exchange, or a message that is shown undecrypted under
"never", ends it: there the property says nothing.

### The adapter

*AdapterImplementsQueue.* The refinement mapping shows the client's queue. `MessageReceived`
of the proxy is a stutter until the adapter hears of it, which announces; the removal signal
removes; the reply to ConnectProxy's query fills. The invariant says what the link owes its
order: a message on its way is not gone yet and nothing in front of it carries its id
(`Ordered`); the query is the first call, its reply is carried once, and then the queue is
filled (`OneFill`); and before that nothing is shown or acknowledged (`Unconnected`).

*AdapterStaysCurrent.* "When nothing is under way, nothing is missing" needs, for each
thing that may be under way, where the news of it is. `CurrentInv` has a part for each:
a pending message is in the queue, or asked for, or in a signal or reply that comes, and
one that is gone has its removal behind everything that shows it (`QueueInv`); the last
item about the level on the link carries the proxy's level, a reply agrees with the signal
before it, and a reply that waits in the event loop is that of the level or the level was
overtaken (`TrustInv`); the same for the fingerprint of a private conversation (`FpInv`);
and a visible chat has acknowledged what is pending or the call is under way (`AckInv`).

### Presence and the handler

*GlobalPresenceCovers.* The early return of a slot is right because `operator==` and
`operator<` of presences fit together (`EqualLess`): whoever covers a presence covers an
equal one. `SlotCovers` carries that to the two slots of presences, and corresponding
lemmas to status and flag. The invariant `IInv` is types, `Heard` (the signals of every
enabled account are connected) and `Covered` (`NeverUnderstates`, value by value).

*ShownExplained.* The other direction: a slot that returns early leaves the value of the
account that signalled. If that account is enabled, it is one of the highest, as what is
shown covers all the others; if not, it is still listened to, and explains the value itself.
So the invariant is `Explained` on top of `Covered`.

*PresenceListsAgree.* The bus has one order. `ListsInv` says that for each presence there is
a value that every process will end with: the last change in its queue has that value,
or there is none and its list has it already (`Heading`). A new change is the last in all
queues at once, so the value is simply another one.

### The contact list

*RostersAreShown.* The three ways in which contacts are announced exclude each other only
because of when the manager listens. `Listening` says it: an account's connection is
listened to once it is ready, and its changes once its list was retrieved. Then no row is of
a connection that is still to come or to be ready (`RowFits`), the rows of a connection
whose list was seen are its roster (`Listed`), and announcing it adds none twice
(`Distinct`). A row of an old connection is of one that was announced when it was gone
(`late`).

*TreeFollowsRows.* A node must be found again when its row changes or goes, by the cache of
groups. `TreeInv` has: the headers are the groups of the nodes and the forced ones
(`HeadersRight`); the remembered groups of an entry are those of its nodes (`CacheRight`);
only rows have nodes and remembered groups; and the nodes of a row that was not `missed` are
its groups (`Follows`), which by account depend on whether its connection is there. It
holds only while the client runs: the null pointer of finding 3 ends that.

### Models

*HeadersKeepCount.* `FilterInv`: the rows that are shown are those that the filter accepts
now, so that what a change of one row does to the rows above it is known, and every header
that is shown and does not wait for its repaint has the numbers of its rows (`Painted`).
The counts of a header stay as long as none of its rows comes, goes or is hidden.

*AccountRowsStayCurrent.* That rows are sorted is what makes the place of std::lower_bound
the right one, and that an account has one row is what makes removing it right; both are
in `RowsInv` beside the values. `LowerBoundPlace`: there is such a place, and before it are
exactly the lesser rows.

*PersonsStayCurrent.* What an entry says depends on its contact object, which changes when
its connection does. `EntryInv`: the contact that an entry is bound to is listened to
(`BoundIsHeard`), is of the present connection if that has it (`BoundToCurrent`), and an
entry whose contact is destroyed has a presence of its own (`UnboundIsCached`); so whatever
changes what it says makes its readers read again.

*AvatarsNeverStale.* `CacheInv`: under both keys of an id, online and offline, the cache has
nothing or the present avatar; the property itself looks at the key of the current
presence only, and is not inductive.

*ConversationsStaySound.* A signal of an old channel reaches a conversation because slots
stay connected. `ConversationsInv`: all channels that a conversation ever watched are of one
id (`Sound`). The channel it has now is the last of them: if its end was told, the
conversation heard of it and is not valid; if it is open, the conversation is valid, or was
`misled` by the end of another of them. Rows are of living conversations and differ.

*PinsStayCurrent.* `PinsInv` says what the event queue may hold: nothing of earlier
connections, and found contacts of a lost one only in front of its end (`QueueRight`). So a
pin's contact is of the connection that is there or is about to be taken away (`Follows`),
and the filter last evaluated a row as it is now, unless a repaint is in the queue (`Shows`).

*UnreadStaysShown.* `WatcherInv`: the channel that a contact is watched on has a watcher,
and is a channel of that contact (`CurrentIsOwn`), although its row may be another's; and
only a channel with a watcher can wait for its first update. So a change of the queue is
announced for the contact's own row, or the contact is `Misplaced`; what the watchers of
others announce for this row is what it says now.

*RowsAndChatsKeepAgreeing.* `LogInv`: no two rows have one conversation, and rows and
conversations refer to what exists (`LogRefs`); a row's contact is mapped to the row's
conversation, and before the query was used there are only rows of contacts whose channel
came early (`LogRows`); and a row was read when its conversation became valid or its
channel's count changed (`LogShown`). The results of the query append rows and
conversations in the same order, so the places correspond (`ResultsKept`).

*HistoryStaysIntact.* `HistoryInv` has two parts. `HistoryTypes` holds whatever happens: a
sent message has one row, which its delivery reports find, and the rows have all that was
received. `CleanInv` holds as long as `clean` does: the rows are the end of what was said,
the log and what is on its way into it (`RowsEnd`), so that one number, how much of it is
`Hidden`, says what a fetch has to bring. `FetchState` says where a fetch is: the first row
is looked for on a date, with nothing cached (`Searching`), or what is cached follows on the
dates left, up to the first row or, if it was logged meanwhile, with it (`Collecting`).
`FoundSoFar` is the step by one date, `FetchedEnd` the cut at the first row, `LastFetched`
the end of a fetch. That the log has the first row when a fetch has ended
(`FirstRowLogged`) is what lets `fetchMoreHistory` find its token. While nothing was
`mistaken`, comparing tokens is comparing messages (`TakenFor`), so that what a fetch leaves
out as pending or shown already is just that. A chat that was `unasked` has no fetch at all.

*LogsStayFound.* A message is found as often as there are plugins that have it, so everything
is counted. For a set of plugins that were not asked yet, `Most` is the number of the others
that have a message and `Least` the number of those that did not fail; `Counted` says of each
query for messages that it has each between these bounds. A page is filled by two rounds of
queries. `PagesFilling`: of each message, the pages have what the queries that ended brought,
and those that will bring it (`Bringing`) are together at most as many as pages of its contact
were opened, and as many if it is due (`Wanted`); hence the rows lie between the bounds, once
for each page that is not still asking (`Within`, `PageFilled`). A query of dates counts for
every day of its contact, until it is replaced by one query for each of the last days; a day
that is among the last of all is among the last of those found (`LastOfSome`), because the
plugins that did not fail have given theirs (`AllGathered`). That a plugin counts once needs
that dates are joined without repetition and that a plugin that answered does not answer
again (`GoodQueries`).

*TabsStayComplete.* Signals, the answer with the list and the finished() of queries reach
the tab by two ways. `DebugInv`: an answer on its way is that of the query that is under
way (`RepliesAwaited`); nothing is signalled before it was asked for
(`SignalledWhenAsked`); and there is a number of messages that the tab was told of so far,
from which the messages on the link count up to the last emitted (`NumbersLink`), and which
the cache and what was given agree with (`Told`). The numbers are a function of the places
on the link whose existence the invariant states, since the link holds lists and answers too.

*EnabledFiltersKeepRunning.* The list of filters is made, and the settings are read, in a
loop over the plugins in an order that nobody fixes. `FiltersInv` says that the processor's
list is one of what the manager has as enabled (`ListOf`): sorted, with each filter once.
`LoadedList` and `UnloadedList` keep this for one plugin, `NewList` and `ReloadedTo` for the
whole loop, by induction over the order. std::sort after push_back is an insertion at the
place that `FirstNumbers` computes.

*ChatsStayAsked.* The property looks back to the last decisive event, a connection or a
click that connects; so `ActionsInv` says that an account is listened to exactly if that
event was such a click, for the contact noted (`Noted`). The lemma `WishIsNoted` equates
the two, `WishStays` that later events do not change earlier wishes, and `ChatsKept` has the
cases of where in the history an event stands.

### Services and dialogs

*OperationsAlwaysTakeEffect.* `WalletInv`: the operations that ran, those whose finished()
is in the queue and those that wait follow each other in the order they were started
(`QueuesFollow`); what waits is connected to the object that is being opened
(`WaitersWait`); and the wallet has what the first ones asked for (`Applied`).

*CheckerKnows.* Two queries and one signal race. `CheckerInv`: the last news in the stream
says whether the service runs; an answer agrees with the signal before it (`Consistent`);
and the first news does not contradict what the checker saw (`Fitting`), which is why a
late answer to ListNames cannot undo a signal.

*MigrationHandlesAll.* The counter is the number of accounts being dealt with
(`RefCounts`), so it meets zero only when all are; and each account that met no failure is
where its kind should be at that point (`WellHandled`).

*ImportsAreWhole.* `ImportInv` describes the thread in the middle of a file (`InDocument`):
the document has the messages of its day among the first `position` ones, and the logs of
the days before are saved. That this is kept needs that a day, once it was left, does not
come again: the messages are in the order of time, and the shift to UTC keeps this order
(`ShiftedOrder`, `DaysAreTogether`). Files have paths of their own, so that a file does not
touch what an earlier one saved (`FilesBefore`), and an account that ended keeps what it has
while others are imported (`EndedAreWhole`).

*JoinDialogKeepsWorking, DialogsKeepServing.* While queries do not overlap, the one under
way is the last and the button follows its state (`OneQuery`, `ButtonFollows`); a request is
under way only in an open dialog that is disabled, and for the account of the OK
(`RequestInv`).

### Only model-checked

- *Liveness* (`HeldEventuallyReplayed`, `CurrentSettles`, `IdleQuits`, `FetchEnds`) is out
  of the prover's reach.
- *Induction over data.* `ShownAsWritten` speaks of a text that is rewritten five times. The
  library defines such operators by recursion, and its theorems on induction take an
  operator as a parameter, which the provers cannot instantiate.
- *Findings* (`InitializeHonoured` and the other four) are counterexamples of TLC.

Where a model has a recursive function of its own, there is another way, which
`ImportsAreWhole`, `EnabledFiltersKeepRunning`, `HistoryStaysIntact` and `LogsStayFound`
take. A set of numbers with 0 and with the successor of each has all of them (`AllNumbers`,
from the least number that it would not have), and what is defined step by step exists
(`StepsExist`): so a definition by recursion may be unfolded, and what holds at each step is
a set of numbers for `AllNumbers`. This is why `DayLog`, `NewProcessor`, `ReloadedAll`,
`Entries`, `InsertedAll`, `NotPending` and `JoinedOnce` are functions on numbers and not
folds.

No module uses a RECURSIVE operator.

## 6. Not modelled

- *External programs*, modelled only from how the code uses them: libotr, TelepathyQt and
  the account manager, KPeople, KWallet, KAccounts, the Telepathy logger's library.
- *Generated code*: the D-Bus stubs of `channel-proxy-interface.h` and `svc-*.h` beyond the
  calls and signals that `ChannelAdapter` and `OtrProxy` map.
- *Code without state*: getters, roles, texts and icons; `contact-info-dialog.cpp`, which
  shows what one request returned; the grid dialog, which shows models that are modelled
  elsewhere; the tables of errors and client types; the declarative glue and the
  factories, which construct objects.
- *Set-up*: settings of the OTR proxy, `main` functions, build files, translations.
- *Test programs*: the unit tests of the OTR proxy (`otr-test.cpp`) were read as statements
  about the proxy, the viewers are for developers.
- *Left out of modelled parts*: nested rows (persons with several contacts) and resets below
  the grouping proxies; questions of an authentication and instance tags of libotr; the
  sorting of the main log; values copied to a new account in the migration; how Kopete's
  XML is read; a call of the public loadPresences() of the presence model, which only its
  constructor makes.
- *Hazards without a property.* After a failed generation later plain messages overtake
  those that are still held (`otr-proxy-channel-adaptee.cpp:411`): the code intends no
  order here that one could state. The uninitialised connection error
  (`global-presence.cpp:349`) is a value nothing else depends on. The count after quit()
  (`telepathy-handler-application.cpp:155`) matters only to jobs that come when the event
  loop has ended. What is exempted from the
  properties, as section 3 lists, is covered by none: the first row's changes
  (`contacts-list-model.cpp:238`), late signals of old channels (`conversation.cpp:112`), ids
  that are not Latin-1 (`utils.cpp:24`).
