--------------------------- MODULE ChannelWatcher ---------------------------
(***************************************************************************)
(* TextChannelWatcherProxyModel: an observer of text channels that adds    *)
(* the number of unread messages and the direction of the last one to the  *)
(* contacts of its source model.                                           *)
(*                                                                         *)
(* The number is that of the contact's object, and is announced for the    *)
(* row that was found for the contact when the channel was observed.  A    *)
(* view shows for each contact what it read when the row was last          *)
(* announced.  A contact that comes back after a reconnect is another      *)
(* object, although its id is the same.                                    *)
(***************************************************************************)
EXTENDS Integers, Sequences, SequencesExt

CONSTANTS
    Buddies,            \* contacts, of any account
    Beginning,          \* by contact: those whose id begins with its id, in any case of letters
    MaxObserved,        \* bound: channels
    MaxQueue            \* bound: messages in the queue of a channel

NoRow == "none"

ASSUME WatcherAssumption ==
    /\ MaxObserved \in Nat /\ MaxQueue \in Nat /\ NoRow \notin Buddies
    /\ Beginning \in [Buddies -> SUBSET Buddies] /\ \A b \in Buddies : b \in Beginning[b]

VARIABLES
    sourceModel,        \* a source model was set
    listed,             \* the contacts in the source model
    textChannels,       \* sequence of channels
    currentChannels,    \* by contact: the channel its object has a watcher of, 0 for none
    m_index,            \* by channel with a watcher: the contact of its row, or NoRow
    firstUpdates,       \* channels whose watcher has its first update posted
    shownUnread,        \* by contact: what the view shows
    unsignalled         \* history: contacts whose queue changed by a delivery report

watcherVars == <<sourceModel, listed, textChannels, currentChannels, m_index, firstUpdates,
                 shownUnread, unsignalled>>

WatcherInit ==
    /\ sourceModel = FALSE /\ listed = <<>>
    /\ textChannels = <<>> /\ currentChannels = [b \in Buddies |-> 0]
    /\ m_index = <<>> /\ firstUpdates = {}
    /\ shownUnread = [b \in Buddies |-> 0] /\ unsignalled = {}

UnreadRole(b) ==
    IF currentChannels'[b] = 0 THEN 0 ELSE Len(textChannels'[currentChannels'[b]].queue)

\* The view reads a row again.
Read(b) ==
    /\ shownUnread' = [shownUnread EXCEPT ![b] = UnreadRole(b)]
    /\ unsignalled' = unsignalled \ {b}

\* The row of a watcher is announced, if it has one still.
Announce(ch) ==
    IF ch \in DOMAIN m_index /\ m_index[ch] # NoRow THEN Read(m_index[ch])
    ELSE UNCHANGED <<shownUnread, unsignalled>>

Deliverable(ch) == textChannels[ch].open

setSourceModel ==
    /\ ~sourceModel /\ sourceModel' = TRUE
    /\ UNCHANGED <<listed, textChannels, currentChannels, m_index, firstUpdates, shownUnread,
                   unsignalled>>

\* A contact comes, the view reads its row.
ContactListed(b) ==
    /\ b \notin Range(listed)
    /\ listed' = Append(listed, b)
    /\ UNCHANGED <<sourceModel, textChannels, currentChannels, m_index, firstUpdates>>
    /\ Read(b)

\* A contact goes, with its connection or alone; persistent indexes of its row are not
\* valid any more.
ContactUnlisted(i) ==
    /\ i \in DOMAIN listed
    /\ listed' = RemoveAt(listed, i)
    /\ m_index' = [ch \in DOMAIN m_index |-> IF m_index[ch] = listed[i] THEN NoRow ELSE m_index[ch]]
    /\ shownUnread' = [shownUnread EXCEPT ![listed[i]] = 0]
    /\ UNCHANGED <<sourceModel, textChannels, currentChannels, firstUpdates, unsignalled>>

\* Its connection has ended: so have its channels, and the contact will be a new object.
\* The watcher of the old one stays.
ContactRenewed(b) ==
    /\ b \notin Range(listed)
    /\ currentChannels' = [currentChannels EXCEPT ![b] = 0]
    /\ textChannels' = [ch \in DOMAIN textChannels |->
                          IF textChannels[ch].buddy = b
                          THEN [textChannels[ch] EXCEPT !.open = FALSE]
                          ELSE textChannels[ch]]
    /\ UNCHANGED <<sourceModel, listed, m_index, firstUpdates, shownUnread, unsignalled>>

\* match() goes by what an id begins with, and takes the first row, of any account.
matchedContacts(b) == {i \in DOMAIN listed : listed[i] \in Beginning[b]}

FirstMatch(b) ==
    listed[CHOOSE i \in matchedContacts(b) : \A j \in matchedContacts(b) : i <= j]

\* A channel is observed, perhaps with messages in its queue.  Without a source
\* model, or a row that matches, it is ignored.  The watcher of an earlier channel
\* of the contact is deleted, and its first update with it.
observeChannels(b, queue) ==
    /\ Len(textChannels) < MaxObserved
    /\ \A ch \in DOMAIN textChannels : textChannels[ch].buddy = b => ~textChannels[ch].open
    /\ textChannels' = Append(textChannels, [buddy |-> b, open |-> TRUE, queue |-> queue])
    /\ IF sourceModel /\ matchedContacts(b) # {}
       THEN LET new == Len(textChannels')
                kept == DOMAIN m_index \ {currentChannels[b]}
            IN /\ currentChannels' = [currentChannels EXCEPT ![b] = new]
               /\ m_index' = [ch \in kept \cup {new} |->
                                IF ch = new THEN FirstMatch(b) ELSE m_index[ch]]
               /\ firstUpdates' = (firstUpdates \ {currentChannels[b]}) \cup {new}
       ELSE UNCHANGED <<currentChannels, m_index, firstUpdates>>
    /\ UNCHANGED <<sourceModel, listed, shownUnread, unsignalled>>

FirstUpdate(ch) ==
    /\ ch \in firstUpdates
    /\ firstUpdates' = firstUpdates \ {ch}
    /\ UNCHANGED <<sourceModel, listed, textChannels, currentChannels, m_index>>
    /\ Announce(ch)

\* A delivery report is queued like a message; it is not announced.
onMessageReceived(ch, kind) ==
    /\ Deliverable(ch) /\ Len(textChannels[ch].queue) < MaxQueue
    /\ textChannels' = [textChannels EXCEPT ![ch].queue = Append(@, kind)]
    /\ UNCHANGED <<sourceModel, listed, currentChannels, m_index, firstUpdates>>
    /\ IF kind = "text" THEN Announce(ch)
       ELSE /\ unsignalled' = unsignalled \cup {textChannels[ch].buddy}
            /\ UNCHANGED shownUnread

\* Mutant: a removed message is announced only if it was the last in the queue.
RemovalIfEmpty(ch) ==
    IF textChannels'[ch].queue = <<>> THEN Announce(ch) ELSE UNCHANGED <<shownUnread, unsignalled>>

RemovalAnnounced(ch) == Announce(ch)

pendingMessageRemoved(ch, n) ==
    /\ Deliverable(ch) /\ n \in DOMAIN textChannels[ch].queue
    /\ textChannels' = [textChannels EXCEPT ![ch].queue = RemoveAt(@, n)]
    /\ UNCHANGED <<sourceModel, listed, currentChannels, m_index, firstUpdates>>
    /\ RemovalAnnounced(ch)

\* The row is announced for the new last message.
onMessageSent(ch) ==
    /\ Deliverable(ch)
    /\ UNCHANGED <<sourceModel, listed, textChannels, currentChannels, m_index, firstUpdates>>
    /\ Announce(ch)

\* The signal of the watcher is connected to nothing: the channel stays.
invalidated(ch) ==
    /\ Deliverable(ch)
    /\ textChannels' = [textChannels EXCEPT ![ch].open = FALSE]
    /\ UNCHANGED <<sourceModel, listed, currentChannels, m_index, firstUpdates, shownUnread,
                   unsignalled>>

Queues == {<<>>, <<"text">>, <<"report">>}

WatcherNext ==
    \/ setSourceModel
    \/ \E b \in Buddies :
         \/ ContactListed(b) \/ ContactRenewed(b)
         \/ \E queue \in Queues : observeChannels(b, queue)
    \/ \E i \in DOMAIN listed : ContactUnlisted(i)
    \/ \E ch \in DOMAIN textChannels :
         \/ FirstUpdate(ch) \/ onMessageSent(ch) \/ invalidated(ch)
         \/ \E kind \in {"text", "report"} : onMessageReceived(ch, kind)
         \/ \E n \in 1 .. MaxQueue : pendingMessageRemoved(ch, n)

-----------------------------------------------------------------------------
(* Properties.                                                             *)

\* Contacts whose watcher announces another row, or one that was removed since.
Misplaced == {b \in Buddies : currentChannels[b] # 0 /\ m_index[currentChannels[b]] # b}

\* Once the first updates are delivered, the view shows the length of the queue of
\* the channel that a contact is watched on, in whatever order messages came and were
\* read, through new channels and reconnects, and whatever the watchers of others
\* announce.  Left out: a contact whose watcher has not its row, and a queue that a
\* delivery report changed last.
UnreadIsShown ==
    \A b \in Range(listed) \ (unsignalled \cup Misplaced) :
        currentChannels[b] \notin firstUpdates =>
            shownUnread[b] = IF currentChannels[b] = 0 THEN 0
                             ELSE Len(textChannels[currentChannels[b]].queue)
=============================================================================
