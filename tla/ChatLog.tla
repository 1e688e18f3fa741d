------------------------------ MODULE ChatLog ------------------------------
(***************************************************************************)
(* MainLogModel: the list of all past chats, read from the database of the *)
(* logger, joined with the conversations of the channels that it observes  *)
(* and handles.  A row is a LogItem with its Conversation; m_conversations *)
(* maps contacts to conversations, for startChat.                          *)
(*                                                                         *)
(* The channel dispatcher shows a channel to observers first, with the     *)
(* operation that dispatches it, and then gives it to a handler: this one, *)
(* or another.  startChat takes an observed channel with claim().          *)
(*                                                                         *)
(* Of what a row shows, data() is modelled as where its last message is    *)
(* from (the conversation or the database) and whether there are unread    *)
(* messages.                                                               *)
(***************************************************************************)
EXTENDS Integers, Sequences, SequencesExt, FiniteSets

CONSTANTS
    Partners,           \* contacts of an account
    MaxLogChannels      \* bound: channels

ASSUME ChatLogAssumption == IsFiniteSet(Partners) /\ MaxLogChannels \in Nat

VARIABLES
    query,              \* the result of the query made at the start
    accountManagerReady,
    db,                 \* the contacts in the database
    logChannels,        \* sequence of channels
    logConversations,   \* sequence of Conversation objects
    m_logItems,         \* rows: a contact and a conversation
    m_conversations,    \* by contact: a conversation, or 0
    starting,           \* contacts for which startChat asked for a channel
    rowsRead,            \* what the view read of each row when it was last told to
    early               \* history: contacts with a row from before the query was used

logVars == <<query, accountManagerReady, db, logChannels, logConversations, m_logItems,
             m_conversations, starting, rowsRead, early>>

ChatLogInit ==
    /\ db \in SUBSET Partners
    /\ query \in SetToSeqs(db)
    /\ accountManagerReady = FALSE
    /\ logChannels = <<>> /\ logConversations = <<>>
    /\ m_logItems = <<>> /\ m_conversations = [p \in Partners |-> 0]
    /\ starting = {} /\ rowsRead = <<>> /\ early = {}

RowsOf(p) == {i \in DOMAIN m_logItems : m_logItems[i].partner = p}

ConversationAt(i) == m_logItems[i].conversation

\* A row with a valid conversation shows that; others show what the database had, and
\* nothing unread.
rowData(i) ==
    LET c == logConversations[ConversationAt(i)]
    IN [live |-> c.valid, unread |-> c.valid /\ c.channel # 0 /\ logChannels[c.channel].unread]

\* The view reads rows that are new or changed.
RowsRead(changed) ==
    rowsRead' = [i \in DOMAIN m_logItems' |->
                  IF i \in changed \/ i \notin DOMAIN rowsRead THEN rowData(i)' ELSE rowsRead[i]]

\* Rows whose conversations announce a change of the channel; onConversationChanged
\* passes it on if the conversation is still valid.
setupSignals(ch) ==
    {i \in DOMAIN m_logItems : LET c == logConversations'[ConversationAt(i)]
                               IN c.channel = ch /\ c.valid}

FirstRow(p) == CHOOSE i \in RowsOf(p) : \A j \in RowsOf(p) : i <= j

\* A conversation without channel says that it is valid.
NoChannel == [channel |-> 0, valid |-> TRUE]

LogItem(p, c) == [partner |-> p, conversation |-> c]

\* One row, with a new conversation, for each result.
processQueryResults(results) ==
    LET base == Len(logConversations)
        added == [n \in DOMAIN results |-> LogItem(results[n], base + n)]
    IN /\ logConversations' = logConversations \o [n \in DOMAIN results |-> NoChannel]
       /\ m_logItems' = m_logItems \o added
       /\ m_conversations' = [p \in Partners |->
            IF p \in ToSet(results)
            THEN base + (CHOOSE n \in DOMAIN results : results[n] = p) ELSE m_conversations[p]]

onAccountManagerReady ==
    /\ ~accountManagerReady /\ accountManagerReady' = TRUE
    /\ processQueryResults(query)
    /\ query' = <<>>
    /\ UNCHANGED <<db, logChannels, starting, early>>
    /\ RowsRead({})

WithChannel(conversation, ch) ==
    IF conversation.channel = ch THEN conversation
    ELSE [channel |-> ch, valid |-> logChannels'[ch].state # "closed"]

\* The row of the contact gets the channel; without a row there is a new one.
handleChannel(ch) ==
    LET p == logChannels'[ch].partner
    IN IF RowsOf(p) # {}
       THEN /\ logConversations' = [logConversations EXCEPT
                                      ![ConversationAt(FirstRow(p))] = WithChannel(@, ch)]
            /\ UNCHANGED <<m_logItems, m_conversations, early>>
            /\ RowsRead(IF logConversations' = logConversations THEN {} ELSE {FirstRow(p)})
       ELSE /\ logConversations' = Append(logConversations, WithChannel(NoChannel, ch))
            /\ m_logItems' = Append(m_logItems, LogItem(p, Len(logConversations')))
            /\ m_conversations' = [m_conversations EXCEPT ![p] = Len(logConversations')]
            /\ RowsRead({})
            /\ early' = IF accountManagerReady THEN early ELSE early \cup {p}

\* A channel opens, with a message or for one, and is observed.
observeLogChannel(p, unread) ==
    /\ Len(logChannels) < MaxLogChannels
    /\ \A ch \in DOMAIN logChannels :
         logChannels[ch].partner = p => logChannels[ch].state = "closed"
    /\ logChannels' = Append(logChannels, [partner |-> p, state |-> "offered", unread |-> unread])
    /\ handleChannel(Len(logChannels'))
    /\ UNCHANGED <<query, accountManagerReady, db, starting>>

\* Mutant: the database is asked whether or not there is a row.
FoundAlways(p) == p \in db

\* A contact without a row is looked up in the database.
Found(p) == RowsOf(p) = {} /\ p \in db

\* The channel is given to this handler: first a row with what the database has.
handleLogChannels(ch) ==
    LET p == logChannels[ch].partner
        c == Len(logConversations) + 1
    IN /\ logChannels[ch].state = "offered"
       /\ logChannels' = [logChannels EXCEPT ![ch].state = "handled"]
       /\ IF Found(p)
          THEN /\ logConversations' = Append(logConversations, WithChannel(NoChannel, ch))
               /\ m_logItems' = Append(m_logItems, LogItem(p, c))
               /\ m_conversations' = [m_conversations EXCEPT ![p] = c]
               /\ RowsRead({})
               /\ early' = IF accountManagerReady THEN early ELSE early \cup {p}
          ELSE handleChannel(ch)
       /\ UNCHANGED <<query, accountManagerReady, db, starting>>

GivenToAnother(ch) ==
    /\ logChannels[ch].state = "offered"
    /\ logChannels' = [logChannels EXCEPT ![ch].state = "elsewhere"]
    /\ UNCHANGED <<query, accountManagerReady, db, logConversations, m_logItems, m_conversations,
                   starting, rowsRead, early>>

\* A message is received, or the chat's messages are acknowledged; MessagesModel and
\* Conversation pass it on as unreadMessagesChanged.
unreadMessagesChanged(ch) ==
    /\ logChannels[ch].state \in {"offered", "handled", "elsewhere"}
    /\ logChannels' = [logChannels EXCEPT ![ch].unread = ~@]
    /\ UNCHANGED <<query, accountManagerReady, db, logConversations, m_logItems, m_conversations,
                   starting, early>>
    /\ RowsRead(setupSignals(ch))

\* A message of the chat is logged.
Logged(ch) ==
    /\ logChannels[ch].state # "closed" /\ logChannels[ch].partner \notin db
    /\ db' = db \cup {logChannels[ch].partner}
    /\ UNCHANGED <<query, accountManagerReady, logChannels, logConversations, m_logItems,
                   m_conversations, starting, rowsRead, early>>

\* A conversation that has a valid channel claims it while it is offered, and that
\* is all; otherwise a channel is requested.
startChat(p) ==
    LET c == m_conversations[p]
        known == c # 0 /\ logConversations[c].valid /\ logConversations[c].channel # 0
    IN /\ accountManagerReady
       /\ IF known
          THEN /\ logChannels' = [logChannels EXCEPT ![logConversations[c].channel].state =
                                    IF @ = "offered" THEN "handled" ELSE @]
               /\ UNCHANGED starting
          ELSE starting' = starting \cup {p} /\ UNCHANGED logChannels
       /\ UNCHANGED <<query, accountManagerReady, db, logConversations, m_logItems,
                      m_conversations, rowsRead, early>>

\* The request fails, or has the open channel or a new one, observed before.
onStartChatFinished(p) ==
    /\ p \in starting /\ starting' = starting \ {p}
    /\ \/ UNCHANGED <<logChannels, logConversations, m_logItems, m_conversations, rowsRead, early>>
       \/ \E ch \in DOMAIN logChannels :
            /\ logChannels[ch].partner = p /\ logChannels[ch].state \in {"offered", "handled"}
            /\ logChannels' = [logChannels EXCEPT ![ch].state = "handled"]
            /\ handleChannel(ch)
    /\ UNCHANGED <<query, accountManagerReady, db>>

\* The conversations that have the channel are not valid any more.  They say so, but
\* onConversationChanged ignores those that are not valid: no row is announced.
ChannelCloses(ch) ==
    /\ logChannels[ch].state # "closed"
    /\ logChannels' = [logChannels EXCEPT ![ch].state = "closed"]
    /\ logConversations' = [c \in DOMAIN logConversations |->
         IF logConversations[c].channel = ch THEN [logConversations[c] EXCEPT !.valid = FALSE]
         ELSE logConversations[c]]
    /\ UNCHANGED <<query, accountManagerReady, db, m_logItems, m_conversations, starting, early>>
    /\ RowsRead(setupSignals(ch))

ChatLogNext ==
    \/ onAccountManagerReady
    \/ \E p \in Partners : \/ startChat(p) \/ onStartChatFinished(p)
                            \/ \E unread \in BOOLEAN : observeLogChannel(p, unread)
    \/ \E ch \in DOMAIN logChannels :
         \/ handleLogChannels(ch) \/ GivenToAnother(ch) \/ Logged(ch) \/ ChannelCloses(ch)
         \/ unreadMessagesChanged(ch)

-----------------------------------------------------------------------------
(* Properties.                                                             *)

\* A contact has one row, and the conversation that startChat finds for it is the
\* one of that row, however a chat came about: from the database, observed, handled
\* or started here; except for contacts with a channel from before the query of
\* the start was used.  A row of a valid conversation shows it as it is.
RowsAndChatsAgree ==
    /\ \A p \in Partners \ early :
        /\ \A i, j \in RowsOf(p) : i = j
        /\ \A i \in RowsOf(p) : m_conversations[p] = ConversationAt(i)
    /\ \A i \in DOMAIN m_logItems : rowData(i).live => rowsRead[i] = rowData(i)
=============================================================================
