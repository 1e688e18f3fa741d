--------------------------- MODULE ChannelAdapter ---------------------------
(***************************************************************************)
(* ChannelAdapter, the chat client's end of a text channel, and the D-Bus  *)
(* link to the OTR proxy of that channel (OtrProxy).  The link keeps the   *)
(* order of what it carries in one direction: the calls of the client, and *)
(* the signals and replies of the proxy.  But the reply to a property query*)
(* reaches the adapter through a Tp::PendingVariant, which announces its   *)
(* result with a queued event of its own: signals that arrived behind the  *)
(* reply may be handled before it.                                         *)
(*                                                                         *)
(* The proxy is reduced to what crosses the link: the messages it offers,  *)
(* its trust level and the fingerprint in use.  The client is the chat's   *)
(* MessagesModel: while it is visible it acknowledges the whole queue of   *)
(* the adapter on each message.                                            *)
(***************************************************************************)
EXTENDS Integers, Sequences, FiniteSets

CONSTANTS
    MaxMsgs,        \* bound: messages that the proxy offers
    MaxNotices,     \* bound: OTR events
    MaxTrust,       \* bound: changes of the trust level
    MaxSends,       \* bound: messages that the client sends
    MaxEvents,      \* bound: all of these together
    MaxCalls,       \* bound: calls under way when the user makes another
    PeerFps             \* fingerprints of the peer

ASSUME AdapterAssumption ==
    /\ MaxMsgs \in Nat /\ MaxNotices \in Nat
    /\ MaxTrust \in Nat /\ MaxEvents \in Nat /\ MaxSends \in Nat /\ MaxCalls \in Nat

Ids == 1 .. MaxMsgs
PeerLevels == {"NOT_PRIVATE", "UNVERIFIED", "PRIVATE", "FINISHED"}
Private == {"UNVERIFIED", "PRIVATE"}
NoPeerFp == "none"

VARIABLES
    \* the proxy
    arrived,        \* number of messages that came so far
    pending,        \* ids in Adaptee::messages
    level,          \* otrSes.trustLevel()
    fp,             \* otrSes.remoteFingerprint()
    changes,        \* changes of the trust level, for the bound
    acking,         \* acknowledged to the text channel, not yet removed there
    sending,        \* messages given to the text channel and not yet sent
    \* the link
    calls,          \* from the client
    link,           \* to the client: signals and replies
    posted,         \* replies that arrived and whose finished() is queued
    \* ChannelAdapter::Private
    mode,           \* "new", "otr" or "text": otrConnected, once it is known
    messages,
    otrEvents,      \* number of OTR events in the queue
    notices,        \* OTR events so far, for the bound
    visible,        \* MessagesModel: the chat is visible to the user
    sends,          \* messages sent so far, for the bound
    trustLevel,
    remoteFp,
    \* history
    gone,           \* messages whose removal the adapter was told
    filled,         \* the reply to PendingMessages was handled
    revived,        \* messages shown from a reply older than their removal
    outdated,       \* a change of the trust level overtook the reply to its query
    refused         \* messages of an acknowledgement that the proxy refused

sessionVars == <<level, fp, changes>>
ackVars   == <<acking, refused>>
queueVars == <<messages, gone, filled, revived>>
trustVars == <<trustLevel, remoteFp, outdated>>
eventVars == <<otrEvents, notices>>
proxyVars == <<arrived, pending, ackVars, sessionVars, sending>>
adapterVars == <<mode, queueVars, trustVars, eventVars, visible, sends>>
linkVars == <<proxyVars, calls, link, posted, adapterVars>>

AdapterInit ==
    /\ arrived = 0
    /\ pending = {} /\ acking = {} /\ refused = {}
    /\ level = "NOT_PRIVATE" /\ fp = NoPeerFp /\ changes = 0
    /\ sending = 0
    /\ calls = <<>> /\ link = <<>> /\ posted = <<>>
    /\ mode = "new"
    /\ messages = {} /\ gone = {} /\ filled = FALSE /\ revived = {}
    /\ trustLevel = "NOT_PRIVATE" /\ remoteFp = NoPeerFp /\ outdated = FALSE
    /\ otrEvents = 0 /\ notices = 0
    /\ visible = FALSE /\ sends = 0

-----------------------------------------------------------------------------
(* The proxy.                                                              *)

\* A signal or a reply reaches the client only if it listens.
Signal(s) == link' = IF mode = "otr" THEN Append(link, s) ELSE link

Event == arrived + notices + changes + sends < MaxEvents

MessageReceived ==
    /\ Event
    /\ arrived < MaxMsgs
    /\ arrived' = arrived + 1
    /\ pending' = pending \cup {arrived + 1}
    /\ Signal([kind |-> "MessageReceived", id |-> arrived + 1])
    /\ UNCHANGED <<ackVars, sessionVars, sending, calls, posted, adapterVars>>

\* An acknowledged message left the text channel.  Other clients of the channel
\* acknowledge messages too.
PendingMessagesRemoved(i) ==
    /\ i \in pending
    /\ pending' = pending \ {i}
    /\ acking' = acking \ {i}
    /\ Signal([kind |-> "PendingMessagesRemoved", id |-> i])
    /\ UNCHANGED <<arrived, refused, sessionVars, sending, calls, posted, adapterVars>>

\* A notice of libotr: a message without an id.
Notice ==
    /\ mode = "otr"
    /\ Event /\ notices < MaxNotices
    /\ notices' = notices + 1
    /\ Signal([kind |-> "Notice"])
    /\ UNCHANGED <<proxyVars, calls, posted, mode, queueVars, trustVars, otrEvents, visible, sends>>

\* The conversation becomes private (with a fingerprint of the peer), trusted,
\* finished or plain.
TrustLevelChanged(l, f) ==
    /\ Event /\ changes < MaxTrust
    /\ l # level \/ (l \in Private /\ f # fp)
    /\ f \in IF l \in Private THEN PeerFps ELSE {NoPeerFp}
    /\ level' = l /\ fp' = f
    /\ changes' = changes + 1
    /\ Signal([kind |-> "TrustLevelChanged", level |-> l])
    /\ UNCHANGED <<arrived, pending, ackVars, sending, calls, posted, adapterVars>>

Called(op) == calls # <<>> /\ Head(calls).op = op /\ calls' = Tail(calls)

Properties == {"PendingMessages", "TrustLevel", "RemoteFingerprint"}

Property(name) ==
    CASE name = "PendingMessages" -> [kind |-> name, ids |-> pending]
      [] name = "TrustLevel" -> [kind |-> name, level |-> level]
      [] name = "RemoteFingerprint" -> [kind |-> name, fp |-> fp]

\* The adaptor answers a property query.
GetProperty(name) ==
    /\ Called(name)
    /\ Signal(Property(name))
    /\ UNCHANGED <<proxyVars, posted, adapterVars>>

\* Adaptee::acknowledgePendingMessages: all of the messages or none of them.
acknowledgePendingMessages ==
    /\ Called("AcknowledgePendingMessages")
    /\ LET ids == Head(calls).ids
       IN \/ ids \subseteq pending /\ acking' = acking \cup ids /\ UNCHANGED refused
          \/ ~(ids \subseteq pending) /\ refused' = refused \cup ids /\ UNCHANGED acking
    /\ UNCHANGED <<arrived, pending, sessionVars, sending, link, posted, adapterVars>>

\* Adaptee::sendMessage: the text fails to be encrypted, starts a key exchange in
\* its place (a query), or goes to the text channel.
sendMessage ==
    /\ Called("SendMessage")
    /\ sending' \in {sending, sending + 1}
    /\ UNCHANGED <<arrived, pending, ackVars, sessionVars, link, posted, adapterVars>>

\* The text channel has sent the message, or failed to.
onPendingSendFinished ==
    /\ sending > 0
    /\ sending' = sending - 1
    /\ UNCHANGED link \/ Signal([kind |-> "MessageSent"])
    /\ UNCHANGED <<arrived, pending, ackVars, sessionVars, calls, posted, adapterVars>>

-----------------------------------------------------------------------------
(* The adapter.                                                            *)

Request(name) == [op |-> name]

Queries == <<Request("PendingMessages"), Request("TrustLevel"), Request("RemoteFingerprint")>>

\* ConnectProxy is awaited.  Without a proxy, or when it refuses, the adapter
\* relays the signals of the text channel itself and keeps nothing.
setChannel ==
    /\ mode = "new"
    /\ \/ mode' = "otr" /\ calls' = Queries
       \/ mode' = "text" /\ UNCHANGED calls
    /\ UNCHANGED <<proxyVars, link, posted, queueVars, trustVars, eventVars, visible, sends>>

Arriving(kind) == link # <<>> /\ Head(link).kind = kind /\ link' = Tail(link)

Acknowledgement(ids) == [op |-> "AcknowledgePendingMessages", ids |-> ids]

\* The whole queue is acknowledged: OTR events leave at once, messages leave with
\* PendingMessagesRemoved.
acknowledge == calls' = Append(calls, Acknowledgement(messages)) /\ otrEvents' = 0

messageQueueEmpty == messages = {} /\ otrEvents = 0

\* The first n messages of a set, in the order of their ids.
First(ids, n) == {i \in ids : Cardinality({j \in ids : j <= i}) <= n}

\* MessagesModel, told of new messages one after the other: if the chat is visible
\* it acknowledges the whole queue each time.
Announced(new) ==
    IF visible
    THEN calls \o [n \in 1 .. Cardinality(new) |-> Acknowledgement(messages \cup First(new, n))]
    ELSE calls

\* A message that is in the queue already is ignored.
onMessageReceived ==
    /\ Arriving("MessageReceived")
    /\ messages' = messages \cup {Head(link).id}
    /\ calls' = IF Head(link).id \in messages THEN calls ELSE Announced({Head(link).id})
    /\ otrEvents' = IF calls' = calls THEN otrEvents ELSE 0
    /\ UNCHANGED <<proxyVars, posted, mode, gone, filled, revived, trustVars, notices, visible,
                   sends>>

\* A message without id is an OTR event: it is numbered with the count of events.
onNoticeReceived ==
    /\ Arriving("Notice")
    /\ IF visible THEN acknowledge
       ELSE otrEvents' = otrEvents + 1 /\ UNCHANGED calls
    /\ UNCHANGED <<proxyVars, posted, mode, queueVars, trustVars, notices, visible, sends>>

\* Mutant: the message stays in the queue.
onPendingMessagesRemovedKept ==
    /\ Arriving("PendingMessagesRemoved")
    /\ gone' = gone \cup {Head(link).id}
    /\ UNCHANGED <<proxyVars, calls, posted, mode, messages, filled, revived, trustVars,
                   eventVars, visible, sends>>

onPendingMessagesRemoved ==
    /\ Arriving("PendingMessagesRemoved")
    /\ messages' = messages \ {Head(link).id}
    /\ revived' = revived \ {Head(link).id}
    /\ gone' = gone \cup {Head(link).id}
    /\ UNCHANGED <<proxyVars, calls, posted, mode, filled, trustVars, eventVars, visible, sends>>

\* Mutant: the fingerprint is queried only when a conversation becomes private.
FingerprintQueriesOnce(old, new) ==
    IF old = "NOT_PRIVATE" THEN <<Request("RemoteFingerprint")>> ELSE <<>>

\* The fingerprint is queried when the old level was not private, and (again) when
\* the new one has a fingerprint.
FingerprintQueries(old, new) ==
    (IF old = "NOT_PRIVATE" THEN <<Request("RemoteFingerprint")>> ELSE <<>>)
        \o (IF new \in Private THEN <<Request("RemoteFingerprint")>> ELSE <<>>)

onTrustLevelSignal ==
    /\ Arriving("TrustLevelChanged")
    /\ trustLevel' = Head(link).level
    /\ outdated' = \E n \in DOMAIN posted : posted[n].kind = "TrustLevel"
    /\ calls' = calls \o FingerprintQueries(trustLevel, Head(link).level)
    /\ UNCHANGED <<proxyVars, posted, mode, queueVars, remoteFp, eventVars, visible, sends>>

\* Passed on to the client.
onMessageSent ==
    /\ Arriving("MessageSent")
    /\ UNCHANGED <<proxyVars, calls, posted, adapterVars>>

\* The reply to a query arrives; its finished() is queued.
ReplyArrives(name) ==
    /\ Arriving(name)
    /\ posted' = Append(posted, Head(link))
    /\ UNCHANGED <<proxyVars, calls, adapterVars>>

Finished(name) == posted # <<>> /\ Head(posted).kind = name /\ posted' = Tail(posted)

\* As if each of the messages were received now.
onPendingMessagesPropertyGet ==
    /\ Finished("PendingMessages")
    /\ LET ids == Head(posted).ids
       IN /\ messages' = messages \cup ids
          /\ revived' = revived \cup (ids \cap gone)
          /\ calls' = Announced(ids \ messages)
          /\ otrEvents' = IF calls' = calls THEN otrEvents ELSE 0
    /\ filled' = TRUE
    /\ UNCHANGED <<proxyVars, link, mode, gone, trustVars, notices, visible, sends>>

\* Ignored if a change of the trust level was signalled before (to a level that is
\* not the initial one).
onTrustLevelPropertyGet ==
    /\ Finished("TrustLevel")
    /\ IF trustLevel = "NOT_PRIVATE"
       THEN trustLevel' = Head(posted).level /\ UNCHANGED outdated
       ELSE outdated' = FALSE /\ UNCHANGED trustLevel
    /\ UNCHANGED <<proxyVars, calls, link, mode, queueVars, remoteFp, eventVars, visible, sends>>

onRemoteFingerprintPropertyGet ==
    /\ Finished("RemoteFingerprint")
    /\ remoteFp' = Head(posted).fp
    /\ UNCHANGED <<proxyVars, calls, link, mode, queueVars, trustLevel, outdated,
                   eventVars, visible, sends>>

-----------------------------------------------------------------------------
(* The user.                                                               *)

\* The chat is shown or hidden; shown, it acknowledges what is in the queue.
setVisibleToUser ==
    /\ mode = "otr" /\ Len(calls) < MaxCalls
    /\ visible' = ~visible
    /\ IF visible' /\ ~messageQueueEmpty
       THEN acknowledge
       ELSE UNCHANGED <<otrEvents, calls>>
    /\ UNCHANGED <<proxyVars, link, posted, mode, queueVars, trustVars, notices, sends>>

send ==
    /\ mode = "otr" /\ Len(calls) < MaxCalls
    /\ Event /\ sends < MaxSends
    /\ sends' = sends + 1
    /\ calls' = Append(calls, [op |-> "SendMessage"])
    /\ UNCHANGED <<proxyVars, link, posted, mode, queueVars, trustVars, eventVars, visible>>

-----------------------------------------------------------------------------
ProxyStep ==
    \/ MessageReceived
    \/ \E i \in Ids : PendingMessagesRemoved(i)
    \/ Notice
    \/ \E l \in PeerLevels, f \in PeerFps \cup {NoPeerFp} : TrustLevelChanged(l, f)
    \/ \E name \in Properties : GetProperty(name)
    \/ sendMessage
    \/ acknowledgePendingMessages
    \/ onPendingSendFinished

AdapterStep ==
    \/ onMessageReceived
    \/ onNoticeReceived
    \/ onPendingMessagesRemoved
    \/ onTrustLevelSignal
    \/ onMessageSent
    \/ \E name \in Properties : ReplyArrives(name)
    \/ onPendingMessagesPropertyGet
    \/ onTrustLevelPropertyGet
    \/ onRemoteFingerprintPropertyGet

AdapterNext == ProxyStep \/ AdapterStep \/ setChannel \/ setVisibleToUser \/ send

AdapterSpec == AdapterInit /\ [][AdapterNext]_linkVars

-----------------------------------------------------------------------------
(* Properties.                                                             *)

\* The adapter implements the queue that a client of a text channel expects: each
\* message is announced once while it is pending, and what was removed does not
\* come back once the queue was read.  Signals, the reply with the first contents
\* and the user's connecting interleave freely.
Queue == INSTANCE MessageQueue WITH shown <- messages
QueueSpec == Queue!Spec

\* Nothing is under way between the proxy and the adapter.
Quiet == mode = "otr" /\ link = <<>> /\ posted = <<>> /\ calls = <<>>

\* When nothing is under way the adapter has every message that is pending, also
\* those that came before it connected or while it did, and no other; except for
\* messages removed between the reply with the first contents and its handling.
QueueIsCurrent == Quiet => messages = pending \cup revived

\* When nothing is under way the adapter shows the trust level of the proxy's
\* session, and in a private conversation the fingerprint of its peer, also when
\* the session changed more than once while the queries were answered.  Excepted
\* is a level that a later signal overtook (outdated).
TrustIsCurrent ==
    Quiet /\ ~outdated =>
        /\ trustLevel = level
        /\ level \in Private => remoteFp = fp

\* When nothing is under way and the chat is visible, every message is being
\* acknowledged, also those that came before it was shown or with the first
\* contents of the queue; except the ones named together with one that had left
\* the queue already: the proxy refuses such a call, and nobody repeats it.
ShownIsAcknowledged == Quiet /\ visible => pending \subseteq acking \cup refused

\* What the adapter shows is what the proxy has, once every reply and signal came,
\* whichever overtook which, and what was shown to the user is acknowledged.
AdapterIsCurrent == QueueIsCurrent /\ TrustIsCurrent /\ ShownIsAcknowledged
=============================================================================
