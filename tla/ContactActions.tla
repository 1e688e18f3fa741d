---------------------------- MODULE ContactActions ----------------------------
(***************************************************************************)
(* The menu of a person (KPeopleActionsPlugin): what it offers for each of *)
(* the person's addresses, the requests that KTp::Actions makes, and the   *)
(* entry that first connects an account and starts the chat when it is up. *)
(*                                                                         *)
(* An address is a pair of an account and a contact of it; the contact is  *)
(* known while its account is connected and has loaded its contacts.  A    *)
(* capability is known by its channel class.                               *)
(***************************************************************************)
EXTENDS Integers, Sequences, SequencesExt, FiniteSets

CONSTANTS
    Addresses,          \* the person's addresses: [account, contact]
    Gabble, Google,     \* accounts with that connection manager, that service
    Capabilities,       \* values: [self, contact], sets of classes of both ends
    Files,              \* files to send: [name, forbidden]
    MaxClicks,          \* bound: entries of the menu that are triggered
    MaxUps              \* bound: times that accounts connect

ASSUME ActionsAssumption == IsFiniteSet(Files) /\ MaxClicks \in Nat /\ MaxUps \in Nat

ActionAccounts == {u.account : u \in Addresses}

VARIABLES
    status,             \* Tp::Account::connectionStatus
    presenceOnline,     \* currentPresence() is not offline; it follows the status
    rosterKnown,        \* the contacts of the account have a manager
    capabilities,
    menu,               \* the entries of the menu that was last opened
    contactIdProperty,  \* the account's property "contactId"
    listening,          \* connections of connectionStatusChanged to the plugin
    happened            \* history: clicks, connections and requests, in order

actionVars == <<status, presenceOnline, rosterKnown, capabilities, menu, contactIdProperty,
                listening, happened>>

ActionsInit ==
    /\ status = [a \in ActionAccounts |-> "Disconnected"]
    /\ presenceOnline = {} /\ rosterKnown = {}
    /\ capabilities \in Capabilities
    /\ menu = {}
    /\ contactIdProperty = [a \in ActionAccounts |-> ""]
    /\ listening = [a \in ActionAccounts |-> 0]
    /\ happened = <<>>

Count(what) == Cardinality({i \in DOMAIN happened : happened[i].what = what})

Event(what, account, contact, type) ==
    [what |-> what, account |-> account, contact |-> contact, type |-> type]

-----------------------------------------------------------------------------
(* What is offered.                                                        *)

\* Gabble's classes for calls lack the properties that Tp::CapabilitiesBase looks for.
audioCalls(classes, account) ==
    "audio" \in classes \/ (account \in Gabble /\ "gabble-audio" \in classes)
videoCalls(classes, account) ==
    "video" \in classes \/ (account \in Gabble /\ "gabble-video" \in classes)

\* The contact's capability, and for all but texts the user's own.
textChatCapability(account) == "text" \in capabilities.contact
audioCallCapability(account) ==
    audioCalls(capabilities.contact, account) /\ audioCalls(capabilities.self, account)
videoCallCapability(account) ==
    videoCalls(capabilities.contact, account) /\ videoCalls(capabilities.self, account)
fileTransferCapability(account) == "file" \in capabilities.contact \cap capabilities.self
collaborativeEditingCapability(account) ==
    "infinote" \in capabilities.contact \cap capabilities.self

Tasks == {"TextChannel", "AudioChannel", "VideoChannel", "FileTransfer", "CollabEditing"}

MenuEntry(address, type, connects) == [address |-> address, type |-> type, connects |-> connects]

\* What a contact that is online can be asked for.
KnownEntries(u) ==
    LET types == {type \in Tasks : \/ type = "TextChannel" /\ textChatCapability(u.account)
                                   \/ type = "AudioChannel" /\ audioCallCapability(u.account)
                                   \/ type = "VideoChannel" /\ videoCallCapability(u.account)
                                   \/ type = "FileTransfer" /\ fileTransferCapability(u.account)
                                   \/ type = "CollabEditing" /\ collaborativeEditingCapability(u.account)}
    IN {MenuEntry(u, type, FALSE) : type \in types}

\* The entries of one address.
EntriesOf(u) ==
    IF u.account \in rosterKnown \cap presenceOnline THEN KnownEntries(u)
    ELSE {MenuEntry(u, "TextChannel", TRUE)}

\* The menu is opened; whichever address is most online, all are in it once.
actionsForPerson ==
    /\ menu' = UNION {EntriesOf(u) : u \in Addresses}
    /\ UNCHANGED <<status, presenceOnline, rosterKnown, capabilities, contactIdProperty,
                   listening, happened>>

-----------------------------------------------------------------------------
(* What is triggered.                                                      *)

\* Google Talk refuses some files: they go under another name.
FileName(account, file) ==
    IF account \in Google /\ file.forbidden THEN file.name \o "_" ELSE file.name

Request(u, type) == Event("request", u.account, u.contact, type)

startChatWith(u) == Request(u, "TextChannel")
startAudioCall(u) == Request(u, "AudioChannel")
startAudioVideoCall(u) == Request(u, "VideoChannel")
startFileTransfer(u, file) == Request(u, FileName(u.account, file))
startCollaborativeEditing(u) == Request(u, "CollabEditing")

\* One request, or one per file chosen; a document to edit is requested even if none was.
Requests(entry, chosen) ==
    LET u == entry.address
    IN CASE entry.type = "TextChannel" -> <<startChatWith(u)>>
         [] entry.type = "AudioChannel" -> <<startAudioCall(u)>>
         [] entry.type = "VideoChannel" -> <<startAudioVideoCall(u)>>
         [] entry.type = "FileTransfer" -> [i \in DOMAIN chosen |-> startFileTransfer(u, chosen[i])]
         [] entry.type = "CollabEditing" -> <<startCollaborativeEditing(u)>>

onActionTriggered(entry, chosen) ==
    /\ ~entry.connects
    /\ Count("click") < MaxClicks
    /\ LET u == entry.address
       IN happened' = Append(happened, Event("click", u.account, u.contact, entry.type))
                        \o Requests(entry, chosen)
    /\ menu' = {}
    /\ UNCHANGED <<status, presenceOnline, rosterKnown, capabilities, contactIdProperty, listening>>

\* One contact is noted per account; each click connects the signal once more.
onConnectAndActionTriggered(entry) ==
    /\ entry.connects
    /\ Count("click") < MaxClicks
    /\ LET u == entry.address
       IN /\ contactIdProperty' = [contactIdProperty EXCEPT ![u.account] = u.contact]
          /\ listening' = [listening EXCEPT ![u.account] = @ + 1]
          /\ happened' = Append(happened, Event("click", u.account, u.contact, "connect"))
    /\ menu' = {}
    /\ UNCHANGED <<status, presenceOnline, rosterKnown, capabilities>>

\* Mutant: the signal stays connected.
onConnectedStillListening(a) ==
    /\ happened' = Append(happened, Event("up", a, "", ""))
                     \o IF listening[a] = 0 THEN <<>>
                        ELSE <<Event("chat", a, contactIdProperty[a], "TextChannel")>>
    /\ UNCHANGED listening

\* onAccountConnectionStatusChanged: the first call ends all connections of the signal,
\* and with them the other calls of the same emission.
onConnected(a) ==
    /\ happened' = Append(happened, Event("up", a, "", ""))
                     \o IF listening[a] = 0 THEN <<>>
                        ELSE <<Event("chat", a, contactIdProperty[a], "TextChannel")>>
    /\ listening' = [listening EXCEPT ![a] = 0]

StatusChanges(a) ==
    \/ /\ status[a] = "Disconnected"
       /\ status' = [status EXCEPT ![a] = "Connecting"]
       /\ UNCHANGED <<listening, happened, rosterKnown>>
    \/ /\ status[a] = "Connecting" /\ Count("up") < MaxUps
       /\ status' = [status EXCEPT ![a] = "Connected"]
       /\ onConnected(a) /\ UNCHANGED rosterKnown
    \/ /\ status[a] # "Disconnected"
       /\ status' = [status EXCEPT ![a] = "Disconnected"]
       /\ rosterKnown' = rosterKnown \ {a}
       /\ UNCHANGED <<listening, happened>>

ConnectionChanges(a) ==
    /\ StatusChanges(a)
    /\ UNCHANGED <<presenceOnline, capabilities, menu, contactIdProperty>>

PresenceFollows(a) ==
    /\ (status[a] = "Connected") # (a \in presenceOnline)
    /\ presenceOnline' = IF status[a] = "Connected" THEN presenceOnline \cup {a}
                         ELSE presenceOnline \ {a}
    /\ UNCHANGED <<status, rosterKnown, capabilities, menu, contactIdProperty, listening, happened>>

RosterLoads(a) ==
    /\ status[a] = "Connected" /\ a \notin rosterKnown
    /\ rosterKnown' = rosterKnown \cup {a}
    /\ UNCHANGED <<status, presenceOnline, capabilities, menu, contactIdProperty, listening,
                   happened>>

ActionsNext ==
    \/ actionsForPerson
    \/ \E entry \in menu :
         \/ \E chosen \in {<<>>} \cup {<<f>> : f \in Files} \cup SetToSeqs(Files) :
              onActionTriggered(entry, chosen)
         \/ onConnectAndActionTriggered(entry)
    \/ \E a \in ActionAccounts : ConnectionChanges(a) \/ PresenceFollows(a) \/ RosterLoads(a)

-----------------------------------------------------------------------------
(* Properties.                                                             *)

AskedToConnect(event) == event.what = "click" /\ event.type = "connect"

\* The last contact that was asked for on the account before event i, since the
\* account last connected.
Wish(a, i) ==
    LET before == {j \in 1 .. i - 1 : happened[j].account = a /\
                     (happened[j].what = "up" \/ AskedToConnect(happened[j]))}
        last == CHOOSE j \in before : \A k \in before : k <= j
    IN IF before = {} THEN "" ELSE happened[last].contact

\* An account that comes up starts one chat, with the contact that was last asked for
\* while it was down, and none if nobody asked since it was up before: not for each
\* click, not again after the next drop.  A contact asked for before another one, or
\* when the account was up already, waits until it is asked for again.
ChatsAreAsked ==
    \A i \in DOMAIN happened :
        /\ happened[i].what = "up" /\ Wish(happened[i].account, i) # "" =>
             /\ i < Len(happened)
             /\ happened[i + 1] = Event("chat", happened[i].account,
                                        Wish(happened[i].account, i), "TextChannel")
        /\ happened[i].what = "chat" =>
             /\ i > 1 /\ happened[i - 1].what = "up"
             /\ happened[i].contact = Wish(happened[i].account, i - 1)
=============================================================================
