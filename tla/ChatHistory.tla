---------------------------- MODULE ChatHistory ----------------------------
(***************************************************************************)
(* What a conversation shows: MessagesModel (the rows of one chat), fed by *)
(* the signals of its text channel and by ScrollbackManager, which fetches *)
(* older messages from the logs date by date, backwards, with queries that *)
(* are answered later.                                                     *)
(*                                                                         *)
(* All of it runs in the main thread; the channel and the logger are       *)
(* external.  A message is a number, in the order of the times they were   *)
(* sent; it has a token of its own, or none.  A chat is with a contact, or *)
(* with a room, whose log entity is not valid because it has no alias.     *)
(***************************************************************************)
EXTENDS Integers, Sequences, FiniteSets, SequencesExt

CONSTANTS
    OldLogs,            \* logs that a chat may start with: messages by date
    Incoming, Outgoing, \* messages that come and that the user writes
    Rooms,              \* values: may the chat be with a room
    WithoutToken,       \* values: sets of messages that have no token
    ScrollbackLength,   \* the configured length
    MoreLength,         \* the length that fetchMoreHistory asks for (10)
    Failures,           \* values: may a query of the logger fail
    DeliveryStatuses,   \* values: delivery statuses that the channel reports
    MaxChannels,        \* bound: channels that the conversation has over time
    MaxMore,            \* bound: calls of fetchMoreHistory
    MaxFetches          \* bound: fetches in flight

InOrder(s) == \A i, j \in DOMAIN s : i < j => s[i] < s[j]

\* What the first dates of a log have together, for each number of them.
Entries(dates) ==
    LET upTo[d \in 0 .. Len(dates)] == IF d = 0 THEN <<>> ELSE upTo[d - 1] \o dates[d]
    IN upTo

\* All that a log has.
AllEntries(dates) == Entries(dates)[Len(dates)]

\* A log is in the order of time, and was written before the messages of the chat.
ASSUME HistoryAssumption ==
    /\ ScrollbackLength \in Nat \ {0} /\ MoreLength \in Nat \ {0}
    /\ Incoming \cap Outgoing = {} /\ Incoming \cup Outgoing \subseteq Nat \ {0}
    /\ IsFiniteSet(Incoming)
    /\ \A l \in OldLogs :
         /\ l \in Seq(Seq(Nat \ {0})) /\ InOrder(AllEntries(l))
         /\ \A x \in ToSet(AllEntries(l)), m \in Incoming \cup Outgoing : x < m
    /\ Failures \subseteq BOOLEAN /\ Rooms \subseteq BOOLEAN
    /\ DeliveryStatuses \subseteq {"Unknown", "Delivered", "Read", "Failed"}

None == 0

VARIABLES
    log, unlogged,      \* the log; messages on their way into it, in order
    channel, queue,     \* number of the text channel; its pending messages
    acked,              \* pending messages that were acknowledged
    visible,
    messages,           \* the rows
    deliveryStatus,     \* of each row
    rowOf,              \* messagesByMessageToken: the row of each sent message
    logsLoaded,
    ops,                \* queries in flight: a date, or None for the query of dates
    datesCache, messagesCache, fromToken, length,   \* ScrollbackManager
    more,               \* calls of fetchMoreHistory
    room, tokenless,    \* is it a room; its messages without a token
    isValid,            \* is contactEntity valid
    received, reported, \* history: what the channel delivered
    unasked,            \* history: a fetch ended at once, without a query
    mistaken,           \* history: messages that were taken for another without a token
    clean               \* history: no fetch failed, overlapped or raced

chatVars == <<room, tokenless, isValid, unasked>>
logVars == <<log, unlogged>>
channelVars == <<channel, queue, acked, received>>
rowVars == <<messages, deliveryStatus, rowOf, reported>>
fetchVars == <<ops, datesCache, messagesCache, fromToken, length>>
historyVars == <<chatVars, logVars, channelVars, visible, rowVars, logsLoaded, fetchVars, more,
                 mistaken, clean>>

HistoryInit ==
    /\ room \in Rooms /\ tokenless \in WithoutToken
    /\ isValid = FALSE /\ unasked = FALSE
    /\ log \in OldLogs /\ unlogged = <<>>
    /\ channel = 0 /\ queue = {} /\ acked = {}
    /\ visible = FALSE
    /\ messages = <<>> /\ deliveryStatus = <<>>
    /\ rowOf = [m \in Outgoing |-> None]
    /\ logsLoaded = FALSE
    /\ ops = <<>>
    /\ datesCache = <<>> /\ messagesCache = <<>> /\ fromToken = None
    /\ length = ScrollbackLength
    /\ more = 0
    /\ received = {} /\ reported = [m \in Outgoing |-> "Unknown"]
    /\ mistaken = {} /\ clean = TRUE

-----------------------------------------------------------------------------
(* Rows.  beginInsertRows and endInsertRows move the persistent indexes.   *)

Shifted(row, at, n) == IF row # None /\ row >= at THEN row + n ELSE row

prepend(ms) ==
    /\ messages' = ms \o messages
    /\ deliveryStatus' = [i \in 1 .. Len(ms) |-> "Unknown"] \o deliveryStatus
    /\ rowOf' = [m \in Outgoing |-> Shifted(rowOf[m], 1, Len(ms))]

\* The position a message with a sending time is inserted at: that of the last row
\* with an earlier message, or the first.
InsertionIndex(m, s) ==
    LET earlier == {i \in DOMAIN s : m > s[i]}
    IN IF earlier = {} THEN 1 ELSE Max(earlier)

Rows == [messages |-> messages, deliveryStatus |-> deliveryStatus, rowOf |-> rowOf]

SetRows(r) ==
    /\ messages' = r.messages
    /\ deliveryStatus' = r.deliveryStatus
    /\ rowOf' = r.rowOf

\* The rows r with m inserted, at the end when it has no sending time.
Inserted(r, m, timed) ==
    LET at == IF timed THEN InsertionIndex(m, r.messages) ELSE Len(r.messages) + 1
    IN [messages |-> InsertAt(r.messages, at, m),
        deliveryStatus |-> InsertAt(r.deliveryStatus, at, "Unknown"),
        rowOf |-> [x \in Outgoing |-> Shifted(r.rowOf[x], at, 1)]]

InsertedAll(r, ms, timed) ==
    LET after[i \in 0 .. Len(ms)] ==
            IF i = 0 THEN r ELSE Inserted(after[i - 1], ms[i], timed)
    IN after[Len(ms)]

InOrderOfTime(S) == CHOOSE s \in SetToSeqs(S) : InOrder(s)

-----------------------------------------------------------------------------
(* ScrollbackManager.                                                      *)

\* fetchHistory: n is only compared with 0, and there is an account.  Without a valid
\* entity it finishes immediately, with nothing.
fetchHistory(token, valid) ==
    /\ IF valid
       THEN /\ Len(ops) < MaxFetches
            /\ fromToken' = token
            /\ ops' = Append(ops, None)
            /\ UNCHANGED unasked
       ELSE /\ unasked' = TRUE
            /\ UNCHANGED <<fromToken, ops>>
    /\ logsLoaded' = ~valid

\* MessagesModel::onHistoryFetched: what is in front of the first row is added.
onHistoryFetched(ms) ==
    LET known == {i \in DOMAIN ms : messages # <<>> /\ ms[i] = messages[1]}
    IN /\ prepend(IF known = {} THEN ms ELSE SubSeq(ms, 1, Min(known) - 1))
       /\ logsLoaded' = TRUE

Answer(i) == i \in DOMAIN ops /\ ops' = RemoveAt(ops, i)

\* What the logger returns.  A query that fails in its plugin ends without an error
\* and with nothing: the operations that join the plugins do not look at errors.
Dates(failed) == IF failed THEN <<>> ELSE [d \in DOMAIN log |-> d]
Logs(d, failed) == IF failed THEN <<>> ELSE log[d]

\* Mutant: a contact without logs is left without an answer.
onDatesFinishedSilent(i, failed) ==
    /\ i \in DOMAIN ops /\ ops[i] = None
    /\ IF Dates(failed) = <<>>
       THEN Answer(i) /\ UNCHANGED <<datesCache, messages, deliveryStatus, rowOf, logsLoaded>>
       ELSE /\ datesCache' = Front(Dates(failed))
            /\ ops' = [ops EXCEPT ![i] = Last(Dates(failed))]
            /\ UNCHANGED <<messages, deliveryStatus, rowOf, logsLoaded>>
    /\ clean' = (clean /\ ~failed)
    /\ UNCHANGED <<messagesCache, fromToken, length, chatVars, logVars, channelVars, visible,
                   reported, more, mistaken>>

\* onDatesFinished: the logs of the last date are queried first.
onDatesFinished(i, failed) ==
    /\ i \in DOMAIN ops /\ ops[i] = None
    /\ IF Dates(failed) = <<>>
       THEN Answer(i) /\ onHistoryFetched(<<>>) /\ UNCHANGED datesCache
       ELSE /\ datesCache' = Front(Dates(failed))
            /\ ops' = [ops EXCEPT ![i] = Last(Dates(failed))]
            /\ UNCHANGED <<messages, deliveryStatus, rowOf, logsLoaded>>
    /\ clean' = (clean /\ ~failed)
    /\ UNCHANGED <<messagesCache, fromToken, length, chatVars, logVars, channelVars, visible,
                   reported, more, mistaken>>

\* The logs before the message with the token, which is in an older date if it is
\* not there.
Before(logs) ==
    IF fromToken = None THEN logs
    ELSE IF fromToken \in ToSet(logs)
         THEN SubSeq(logs, 1, SelectInSeq(logs, LAMBDA m : m = fromToken) - 1)
    ELSE <<>>

Token(m) == IF m \in tokenless THEN None ELSE m

\* A message is taken for one of S that has the same token, or none like it.
TakenFor(m, S) == \E x \in S : Token(x) = Token(m)

\* The messages that do not wait in the channel.
NotPending(s) ==
    LET kept[i \in 0 .. Len(s)] ==
            IF i = 0 THEN <<>>
            ELSE IF TakenFor(s[i], queue) THEN kept[i - 1] ELSE Append(kept[i - 1], s[i])
    IN kept[Len(s)]

\* Those that S was mistaken for.
Mistaken(K, S) == mistaken \cup {m \in K \ S : TakenFor(m, S)}

LastOf(s, n) == SubSeq(s, Max({Len(s) - n, 0}) + 1, Len(s))

\* Mutant: the token is kept, and older dates are searched for it.
TokenKept(logs) == fromToken

\* fromMessageToken after it was looked for.
TokenAfter(logs) == IF fromToken \in ToSet(logs) THEN None ELSE fromToken

\* onEventsFinished: older dates are queried as long as there are too few messages;
\* in the end those that still wait in the channel are left out.
onEventsFinished(i, failed) ==
    /\ i \in DOMAIN ops /\ ops[i] # None
    /\ LET logs == Logs(ops[i], failed)
           all == Before(logs) \o messagesCache
       IN /\ fromToken' = TokenAfter(logs)
          /\ IF Len(all) < length /\ datesCache # <<>>
             THEN /\ messagesCache' = all
                  /\ datesCache' = Front(datesCache)
                  /\ ops' = [ops EXCEPT ![i] = Last(datesCache)]
                  /\ UNCHANGED <<messages, deliveryStatus, rowOf, logsLoaded, mistaken>>
             ELSE /\ messagesCache' = <<>>
                  /\ datesCache' = <<>>
                  /\ Answer(i)
                  /\ \E last \in {LastOf(all, length)} :
                       /\ mistaken' = Mistaken(ToSet(last), queue)
                       /\ onHistoryFetched(NotPending(last))
    /\ clean' = (clean /\ ~failed /\ mistaken' = mistaken)
    /\ UNCHANGED <<length, chatVars, logVars, channelVars, visible, reported, more>>

-----------------------------------------------------------------------------
(* MessagesModel.                                                          *)

\* setContactData: the conversation with a contact, of which a name may be known, is
\* opened without a channel.
setContactData(named) ==
    /\ ~room /\ channel = 0 /\ ops = <<>> /\ ~logsLoaded
    /\ isValid' = named
    /\ fetchHistory(None, named)
    /\ UNCHANGED <<room, tokenless, logVars, channelVars, visible, rowVars, datesCache,
                   messagesCache, length, more, mistaken, clean>>

\* Messages that come without a sending time come after all that are shown.
MayComeNow(K, timed) == ~timed => \A m \in K, x \in ToSet(messages) : x < m

\* A pending message is in the model when a row, or one that was pending before it, has
\* its token.
messageAlreadyInModel(m) == TakenFor(m, ToSet(messages) \cup {x \in queue' : x < m})

\* setTextChannel, for the first channel or a new one after a reconnect; messages K
\* wait in it beside those that were pending in the one before.  Those already in
\* the model, by their tokens, are left; for the others onMessageReceived is called,
\* after which they are in the model too.
setTextChannel(K, timed) ==
    /\ channel < MaxChannels
    /\ K \subseteq Incoming \ received
    /\ MayComeNow(K, timed)
    /\ channel' = channel + 1
    /\ queue' = queue \cup K
    /\ received' = received \cup K
    /\ LET fresh == InOrderOfTime({m \in queue' : ~messageAlreadyInModel(m)})
       IN /\ SetRows(InsertedAll(Rows, fresh, timed))
          /\ acked' = IF visible /\ fresh # <<>> THEN queue' ELSE {}
    /\ mistaken' = mistaken \cup {m \in queue' \ ToSet(messages) : messageAlreadyInModel(m)}
    /\ unlogged' = unlogged \o InOrderOfTime(K)
    /\ isValid' = ~room
    /\ IF logsLoaded THEN UNCHANGED <<fromToken, ops, logsLoaded, unasked>>
       ELSE fetchHistory(None, ~room)
    /\ clean' = (clean /\ (~timed \/ K = {}) /\ (logsLoaded \/ ops = <<>>) /\ mistaken' = mistaken)
    /\ UNCHANGED <<room, tokenless, log, visible, reported, datesCache, messagesCache, length, more>>

\* onMessageReceived for a message; the model is visible or counts it as unread.
onMessageReceived(m, timed) ==
    /\ channel > 0
    /\ m \in Incoming \ received
    /\ MayComeNow({m}, timed)
    /\ received' = received \cup {m}
    /\ queue' = queue \cup {m}
    /\ acked' = IF visible THEN queue' ELSE acked
    /\ SetRows(Inserted(Rows, m, timed))
    /\ unlogged' = Append(unlogged, m)
    /\ clean' = (clean /\ ~timed)
    /\ UNCHANGED <<chatVars, log, channel, visible, reported, logsLoaded, fetchVars, more, mistaken>>

\* onMessageReceived for a delivery report, which is acknowledged at once.
onDeliveryReport(m, s) ==
    /\ channel > 0
    /\ m \in Outgoing
    /\ rowOf[m] # None
    /\ deliveryStatus' = [deliveryStatus EXCEPT ![rowOf[m]] = s]
    /\ reported' = [reported EXCEPT ![m] = s]
    /\ UNCHANGED <<chatVars, logVars, channelVars, visible, messages, rowOf, logsLoaded, fetchVars,
                   more, mistaken, clean>>

\* onMessageSent; the signal brings a token or an empty one.
onMessageSent(m, known) ==
    /\ channel > 0
    /\ m \in Outgoing
    /\ rowOf[m] = None
    /\ \A x \in ToSet(messages) : x < m
    /\ messages' = Append(messages, m)
    /\ deliveryStatus' = Append(deliveryStatus, "Unknown")
    /\ rowOf' = IF known THEN [rowOf EXCEPT ![m] = Len(messages) + 1] ELSE rowOf
    /\ unlogged' = Append(unlogged, m)
    /\ UNCHANGED <<chatVars, log, channelVars, visible, reported, logsLoaded, fetchVars, more,
                   mistaken, clean>>

setVisibleToUser(v) ==
    /\ visible' = v
    /\ acked' = IF v /\ channel > 0 THEN queue ELSE acked
    /\ v # visible \/ acked' # acked
    /\ UNCHANGED <<chatVars, logVars, channel, queue, received, rowVars, logsLoaded, fetchVars,
                   more, mistaken, clean>>

\* fetchMoreHistory: the rows before the first one.
fetchMoreHistory ==
    /\ messages # <<>> /\ logsLoaded
    /\ more < MaxMore
    /\ more' = more + 1
    /\ length' = MoreLength
    /\ fetchHistory(messages[1], isValid)
    /\ clean' = (clean /\ ops = <<>>)
    /\ UNCHANGED <<room, tokenless, isValid, logVars, channelVars, visible, rowVars, datesCache,
                   messagesCache, mistaken>>

-----------------------------------------------------------------------------
(* The channel and the logger.                                             *)

\* An acknowledged message leaves the channel (onPendingMessageRemoved).
PendingMessageRemoved(m) ==
    /\ m \in acked
    /\ acked' = acked \ {m}
    /\ queue' = queue \ {m}
    /\ UNCHANGED <<chatVars, logVars, channel, received, visible, rowVars, logsLoaded, fetchVars,
                   more, mistaken, clean>>

\* The logger writes the next message, under today's date: the last one.
Logged ==
    /\ unlogged # <<>>
    /\ log' = IF log = <<>> THEN <<<<Head(unlogged)>>>>
              ELSE [log EXCEPT ![Len(log)] = Append(@, Head(unlogged))]
    /\ unlogged' = Tail(unlogged)
    /\ clean' = (clean /\ (ops = <<>> \/ Head(unlogged) = messages[1]))
    /\ UNCHANGED <<chatVars, channelVars, visible, rowVars, logsLoaded, fetchVars, more, mistaken>>

-----------------------------------------------------------------------------
HistoryNext ==
    \/ \E i \in DOMAIN ops, failed \in Failures :
         onDatesFinished(i, failed) \/ onEventsFinished(i, failed)
    \/ \E named \in BOOLEAN : setContactData(named)
    \/ \E K \in SUBSET Incoming, timed \in BOOLEAN : setTextChannel(K, timed)
    \/ \E m \in Incoming, timed \in BOOLEAN : onMessageReceived(m, timed)
    \/ \E m \in Outgoing, s \in DeliveryStatuses : onDeliveryReport(m, s)
    \/ \E m \in Outgoing, known \in BOOLEAN : onMessageSent(m, known)
    \/ \E v \in BOOLEAN : setVisibleToUser(v)
    \/ fetchMoreHistory
    \/ \E m \in Incoming : PendingMessageRemoved(m)
    \/ Logged

Answers ==
    \E i \in DOMAIN ops, failed \in Failures :
        onDatesFinished(i, failed) \/ onEventsFinished(i, failed)

HistorySpec == HistoryInit /\ [][HistoryNext]_historyVars

\* The logger answers each query.
FairHistorySpec == HistorySpec /\ WF_historyVars(Answers)

-----------------------------------------------------------------------------
(* Properties.                                                             *)

\* All values have their types.
HistoryTypeOK ==
    /\ DOMAIN deliveryStatus = DOMAIN messages
    /\ \A m \in Outgoing : rowOf[m] \in {None} \cup DOMAIN messages
    /\ acked \subseteq queue /\ queue \subseteq received

\* A delivery report reaches the row of its message, wherever rows were inserted
\* since it was sent, and a status that is shown was reported.
ReportsFindTheirRow ==
    \A m \in Outgoing : rowOf[m] # None =>
        messages[rowOf[m]] = m /\ deliveryStatus[rowOf[m]] = reported[m]

\* Every message the channel delivered is shown, before and after a reconnect.  Left out:
\* one without a token, when another without a token was shown or pending.
NothingLost == received \subseteq ToSet(messages) \cup (mistaken \cap tokenless)

\* As long as queries do not fail, fetches do not overlap, only the first row is
\* logged during one, messages have no sending time (they come as they are sent) and
\* none is mistaken for another, each is shown once and in the order in which they
\* were sent.
ShownInOrder ==
    clean => InOrder(messages)

\* Under the same conditions each fetch that ended has brought as many older messages
\* as it asked for, or all there are, if there was a valid entity to ask for.
FetchIsComplete ==
    clean /\ logsLoaded /\ ~unasked =>
        Len(messages) >= Min({ScrollbackLength + more * MoreLength, Len(AllEntries(log))})

\* The rows are all that was received, and all that was asked for of what came before,
\* in order, each with the delivery status that was reported of it.
HistoryIntact == ReportsFindTheirRow /\ NothingLost /\ ShownInOrder /\ FetchIsComplete

\* A fetch that was started ends: the model says that the logs are loaded.
FetchEnds == ops # <<>> ~> logsLoaded
=============================================================================
