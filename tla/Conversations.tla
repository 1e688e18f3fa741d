---------------------------- MODULE Conversations ----------------------------
(***************************************************************************)
(* The chat window's conversations: Conversation and ConversationsModel.   *)
(* The model is a Telepathy client: the channel dispatcher hands it text   *)
(* channels, for chats it has already and for new ones.  Connections drop  *)
(* and return, and then each conversation asks for a new channel.          *)
(*                                                                         *)
(* A chat is what the model goes by, the targetId of a channel; a contact  *)
(* or room of another account may have the same.  A channel that is closed *)
(* is invalid at once, and its invalidated() signal is queued: it may come *)
(* when the next channel is there.                                         *)
(***************************************************************************)
EXTENDS Integers, Sequences, SequencesExt, FiniteSets

CONSTANTS
    ChatAccounts,
    Chats,              \* target ids
    MaxChannels,        \* bound: channels that are ever opened
    MaxConversations    \* bound: conversations that are ever made

ASSUME ConversationsAssumption == MaxChannels \in Nat /\ MaxConversations \in Nat

VARIABLES
    connected,          \* the accounts that have a connection
    channels,           \* sequence of channels, in the order they were opened
    objects,            \* sequence of Conversation objects; history: misled, see there
    conversations,      \* ConversationsModel: indexes of objects, in row order
    activeChatIndex     \* -1 or an index from 0

conversationVars == <<connected, channels, objects, conversations, activeChatIndex>>

ConversationsInit ==
    /\ connected = ChatAccounts
    /\ channels = <<>> /\ objects = <<>>
    /\ conversations = <<>>
    /\ activeChatIndex = -1

Alive == {ch \in DOMAIN channels : channels[ch].state = "open"}

\* An object is "gone" when it has been deleted.
Living == {c \in DOMAIN objects : ~objects[c].gone}

TargetOf(c) == channels[objects[c].channel].chat

-----------------------------------------------------------------------------
(* Conversation.                                                           *)

IsOpen(ch) == channels'[ch].state = "open"

\* Mutant: the conversation keeps its validity.
setTextChannelKept(object, ch) ==
    IF object.channel = ch THEN object
    ELSE [object EXCEPT !.channel = ch, !.watched = @ \cup {ch}, !.misled = FALSE]

\* A new channel replaces the old one, whose invalidated() stays connected.
setTextChannel(object, ch) ==
    IF object.channel = ch THEN object
    ELSE [object EXCEPT !.channel = ch, !.watched = @ \cup {ch}, !.valid = IsOpen(ch),
                        !.misled = FALSE]

NoObject ==
    [account |-> "none", channel |-> 0, watched |-> {}, valid |-> FALSE, misled |-> FALSE,
     delegated |-> FALSE, requested |-> FALSE, typing |-> FALSE, gone |-> FALSE]

NewConversation(ch) ==
    setTextChannel([NoObject EXCEPT !.account = channels'[ch].account], ch)

\* One that has another channel by now is misled: it is marked as not valid all the same.
Told(object, ch) ==
    [object EXCEPT !.valid = FALSE, !.misled = IF object.channel = ch THEN @ ELSE TRUE]

\* invalidated() reaches all conversations that ever had the channel.
onChannelInvalidated(ch) ==
    /\ channels[ch].state = "closed"
    /\ channels' = [channels EXCEPT ![ch].state = "told"]
    /\ objects' = [c \in DOMAIN objects |->
                     IF c \in Living /\ ch \in objects[c].watched
                     THEN Told(objects[c], ch) ELSE objects[c]]
    /\ UNCHANGED <<connected, conversations, activeChatIndex>>

\* A connection goes and its channels close.
Disconnect(account) ==
    /\ account \in connected
    /\ connected' = connected \ {account}
    /\ channels' = [ch \in DOMAIN channels |->
                      IF ch \in Alive /\ channels[ch].account = account
                      THEN [channels[ch] EXCEPT !.state = "closed"]
                      ELSE channels[ch]]
    /\ UNCHANGED <<objects, conversations, activeChatIndex>>

\* The account has a new connection: a channel to the contact is requested.  What
\* was requested of an earlier connection fails.
onAccountConnectionChanged(account) ==
    /\ account \notin connected
    /\ connected' = connected \cup {account}
    /\ objects' = [c \in DOMAIN objects |->
                     IF objects[c].account = account
                     THEN [objects[c] EXCEPT !.requested = c \in Living /\ ~objects[c].delegated]
                     ELSE objects[c]]
    /\ UNCHANGED <<channels, conversations, activeChatIndex>>

\* The connection manager has one open text channel per contact.
CanOpen(account, chat) ==
    /\ account \in connected
    /\ Len(channels) < MaxChannels
    /\ \A ch \in Alive : channels[ch].account # account \/ channels[ch].chat # chat

\* Either a channel that the dispatcher has for the contact, possibly closed
\* by now, or a new one.
ChannelFor(account, chat, ch) ==
    \/ /\ ch \in DOMAIN channels
       /\ channels[ch].account = account /\ channels[ch].chat = chat
       /\ channels[ch].state # "told"
       /\ UNCHANGED channels
    \/ /\ ch = Len(channels) + 1 /\ CanOpen(account, chat)
       /\ channels' = Append(channels, [account |-> account, chat |-> chat, state |-> "open"])

\* The request ends, with an error or with a channel.
onCreateChannelFinished(c) ==
    /\ c \in Living /\ objects[c].requested
    /\ LET done == [objects[c] EXCEPT !.requested = FALSE]
       IN \/ objects' = [objects EXCEPT ![c] = done] /\ UNCHANGED channels
          \/ \E ch \in 1 .. MaxChannels :
               /\ ChannelFor(objects[c].account, TargetOf(c), ch)
               /\ objects' = [objects EXCEPT ![c] = setTextChannel(done, ch)]
    /\ UNCHANGED <<connected, conversations, activeChatIndex>>

\* The user closes the chat: so does its channel; the conversation stays.
requestClose(c) ==
    /\ c \in Range(conversations)
    /\ objects[c].channel \in Alive
    /\ channels' = [channels EXCEPT ![objects[c].channel].state = "closed"]
    /\ UNCHANGED <<connected, objects, conversations, activeChatIndex>>

\* The user types, in one chat at a time: composing is announced once, until the
\* text is empty again or nothing was typed for a while.
updateTextChanged(c, empty) ==
    /\ c \in Range(conversations)
    /\ \A d \in Living \ {c} : ~objects[d].typing
    /\ objects' = [objects EXCEPT ![c].typing = ~empty]
    /\ objects' # objects
    /\ UNCHANGED <<connected, channels, conversations, activeChatIndex>>

onChatPausedTimerExpired(c) ==
    /\ c \in Living /\ objects[c].typing
    /\ objects' = [objects EXCEPT ![c].typing = FALSE]
    /\ UNCHANGED <<connected, channels, conversations, activeChatIndex>>

-----------------------------------------------------------------------------
(* ConversationsModel.                                                     *)

\* The row goes; activeChatIndex is not moved.
removeConversation(i) ==
    /\ conversations' = RemoveAt(conversations, i)
    /\ UNCHANGED activeChatIndex

\* delegateToProperClient: another client gets the channel; the conversation asks
\* to be closed, and removeConversation takes its row.  Its deletion leaves the
\* channel alone.
delegateToProperClient(i) ==
    /\ objects' = [objects EXCEPT ![conversations[i]] =
                     [NoObject EXCEPT !.delegated = TRUE, !.gone = TRUE]]
    /\ removeConversation(i)

\* The rows that have the id of the channel's contact, be it that of another account.
RowsFor(ch) ==
    {i \in DOMAIN conversations : TargetOf(conversations[i]) = channels'[ch].chat}

SetActive(i) == activeChatIndex' = i - 1

UpdateConversation(i, ch) ==
    LET c == conversations[i]
    IN /\ objects' = [objects EXCEPT ![c] = setTextChannel(@, ch)]
       /\ SetActive(i)
       /\ UNCHANGED conversations

AddConversation(ch, requested) ==
    /\ Len(objects) < MaxConversations
    /\ objects' = Append(objects, NewConversation(ch))
    /\ conversations' = Append(conversations, Len(objects'))
    /\ IF requested \/ activeChatIndex = -1
       THEN SetActive(Len(conversations'))
       ELSE UNCHANGED activeChatIndex

\* requested: a local request; delegate: it asks for the preferred handler.  A
\* channel to be delegated is only of interest if a conversation has it.
handleChannels(ch, requested, delegate) ==
    IF RowsFor(ch) = {}
    THEN IF delegate THEN UNCHANGED <<objects, conversations, activeChatIndex>>
         ELSE AddConversation(ch, requested)
    ELSE LET i == CHOOSE row \in RowsFor(ch) : \A other \in RowsFor(ch) : row <= other
         IN CASE ~delegate -> UpdateConversation(i, ch)
              [] delegate /\ objects[conversations[i]].channel = ch ->
                   delegateToProperClient(i)
              [] OTHER -> UNCHANGED <<objects, conversations, activeChatIndex>>

\* The dispatcher hands over a new channel, or one that was requested again.
ChannelDispatched(account, chat, requested, delegate) ==
    /\ delegate => requested
    /\ \E ch \in 1 .. MaxChannels :
         ChannelFor(account, chat, ch) /\ handleChannels(ch, requested, delegate)
    /\ UNCHANGED connected

\* The rows go; qDeleteAll then deletes nothing, the list is empty by then.
closeAllConversations ==
    /\ conversations # <<>>
    /\ conversations' = <<>>
    /\ UNCHANGED <<connected, channels, objects, activeChatIndex>>

ConversationsNext ==
    \/ \E ch \in DOMAIN channels : onChannelInvalidated(ch)
    \/ \E account \in ChatAccounts : Disconnect(account) \/ onAccountConnectionChanged(account)
    \/ \E c \in DOMAIN objects :
         \/ onCreateChannelFinished(c) \/ requestClose(c) \/ onChatPausedTimerExpired(c)
         \/ \E empty \in BOOLEAN : updateTextChanged(c, empty)
    \/ \E account \in ChatAccounts, chat \in Chats, requested, delegate \in BOOLEAN :
         ChannelDispatched(account, chat, requested, delegate)
    \/ closeAllConversations

-----------------------------------------------------------------------------
(* Properties.                                                             *)

\* A conversation is valid exactly if its channel is, once the channel's
\* invalidated() was delivered: through drops, new channels for the same chat and
\* channels closed by the user, also in conversations that left the list.  Left out:
\* one that was told of the end of an earlier channel, or of one of another account,
\* since it has its channel, is not valid until the next.
ValidityMatches ==
    \A c \in Living :
        /\ objects[c].channel \in Alive => objects[c].valid \/ objects[c].misled
        /\ channels[objects[c].channel].state = "told" => ~objects[c].valid

\* Contacts with the same id have one row, however often their channels close and are
\* opened again.
OneRowPerChat ==
    \A i, j \in DOMAIN conversations :
        TargetOf(conversations[i]) = TargetOf(conversations[j]) => i = j

\* One row per chat, and its conversation is valid as its channel is.
ConversationsSound == ValidityMatches /\ OneRowPerChat
=============================================================================
