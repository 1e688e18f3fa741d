------------------------------- MODULE DebugView -------------------------------
(***************************************************************************)
(* A tab of the debugger: TelepathyProcess, which follows the debug        *)
(* messages of a Telepathy process over D-Bus, and DebugMessageView, which *)
(* prints them.  The process numbers its messages and keeps them all; it   *)
(* signals the new ones once monitoring is enabled.  Its signals and       *)
(* replies arrive in the order in which they were sent, but the finished() *)
(* of a reply is queued: signals may be handled between them.              *)
(***************************************************************************)
EXTENDS Integers, Sequences, SequencesExt, FiniteSets

CONSTANTS
    MaxDebugMessages,   \* bound: messages of the process
    MaxShows            \* bound: times that the tab is shown, and the text cleared

ASSUME DebugAssumption == MaxDebugMessages \in Nat /\ MaxShows \in Nat

VARIABLES
    emitted,            \* messages of the process so far
    monitoring,         \* it signals new ones
    exited,             \* the process is gone
    debugLink,          \* what is on its way to the debugger
    answered,           \* the reply whose finished() is queued, if any
    receiver,           \* what m_debugReceiver waits for; "none" when it was reset
    tmpCache,           \* TelepathyProcess::m_tmpCache
    viewVisible,        \* DebugMessageView::isVisible
    delayed,            \* DebugMessageView::m_tmpCache
    editor,             \* the text of the view
    shows,              \* number of shows and clears
    given,              \* history: all that the view was given
    fetched,            \* history: how many of them came before those told one by one
    cleared             \* history: how many of them came before the text was last cleared

processVars == <<emitted, monitoring, exited>>
viewVars == <<viewVisible, delayed, editor, shows, given, fetched, cleared>>
debugVars == <<processVars, debugLink, answered, receiver, tmpCache, viewVars>>

DebugInit ==
    /\ emitted \in 0 .. 1 /\ monitoring = FALSE /\ exited = FALSE
    /\ debugLink = <<>> /\ answered = <<>>
    /\ receiver = "introspection" /\ tmpCache = <<>>
    /\ viewVisible \in BOOLEAN /\ delayed = <<>> /\ editor = <<>>
    /\ shows = 0 /\ given = <<>> /\ fetched = 0 /\ cleared = 0

m_ready == receiver = "ready"

Waiting == receiver \in {"introspection", "monitoring", "messages"} /\ answered = <<>>

Item(what, messages, error) == [what |-> what, messages |-> messages, error |-> error]

\* The process: a new message, the replies to what the debugger asks for, and its end.
Emits ==
    /\ ~exited /\ emitted < MaxDebugMessages
    /\ emitted' = emitted + 1
    /\ debugLink' = IF monitoring THEN Append(debugLink, Item("message", <<emitted'>>, FALSE))
                    ELSE debugLink
    /\ UNCHANGED <<monitoring, exited, answered, receiver, tmpCache, viewVars>>

Replies(error) ==
    /\ ~exited /\ Waiting
    /\ \A i \in DOMAIN debugLink : debugLink[i].what = "message"
    /\ monitoring' = (monitoring \/ (receiver = "monitoring" /\ ~error))
    /\ debugLink' = Append(debugLink, Item(receiver, [i \in 1 .. emitted |-> i], error))
    /\ UNCHANGED <<emitted, exited, answered, receiver, tmpCache, viewVars>>

Exits ==
    /\ ~exited
    /\ exited' = TRUE
    /\ debugLink' = Append(debugLink, Item("exit", <<>>, FALSE))
    /\ UNCHANGED <<emitted, monitoring, answered, receiver, tmpCache, viewVars>>

-----------------------------------------------------------------------------
(* The view.                                                               *)

\* Mutant: a hidden view does not keep them.
appendMessagesVisible(ms) ==
    /\ given' = given \o ms
    /\ editor' = IF viewVisible THEN editor \o ms ELSE editor
    /\ UNCHANGED <<delayed, cleared>>

\* appendMessage, for some messages: a hidden view keeps them.
appendMessages(ms) ==
    /\ given' = given \o ms /\ UNCHANGED cleared
    /\ IF viewVisible
       THEN editor' = editor \o ms /\ UNCHANGED delayed
       ELSE delayed' = delayed \o ms /\ UNCHANGED editor

\* addDelayedMessages.
showEvent ==
    /\ ~viewVisible /\ shows < MaxShows
    /\ viewVisible' = TRUE /\ shows' = shows + 1
    /\ editor' = editor \o delayed /\ delayed' = <<>>
    /\ UNCHANGED <<processVars, debugLink, answered, receiver, tmpCache, given, fetched,
                   cleared>>

Hidden ==
    /\ viewVisible
    /\ viewVisible' = FALSE
    /\ UNCHANGED <<processVars, debugLink, answered, receiver, tmpCache, delayed, editor, shows,
                   given, fetched, cleared>>

clear ==
    /\ viewVisible /\ editor # <<>> /\ shows < MaxShows
    /\ editor' = <<>> /\ cleared' = Len(given) /\ shows' = shows + 1
    /\ UNCHANGED <<processVars, debugLink, answered, receiver, tmpCache, viewVisible, delayed,
                   given, fetched>>

-----------------------------------------------------------------------------
(* The receiver.                                                           *)

Arrives(what) ==
    /\ receiver # "none" /\ debugLink # <<>> /\ Head(debugLink).what = what
    /\ debugLink' = Tail(debugLink)
    /\ UNCHANGED processVars

\* A reply arrives, or fails because the process is known to be gone.
ReplyArrives ==
    /\ Waiting /\ Arrives(receiver)
    /\ answered' = <<Head(debugLink)>>
    /\ UNCHANGED <<receiver, tmpCache, viewVars>>

RequestFails ==
    /\ Waiting /\ exited /\ debugLink = <<>>
    /\ answered' = <<Item(receiver, <<>>, TRUE)>>
    /\ UNCHANGED <<processVars, debugLink, receiver, tmpCache, viewVars>>

Finished(what) ==
    /\ answered # <<>> /\ Head(answered).what = what
    /\ answered' = <<>>
    /\ UNCHANGED <<processVars, debugLink, viewVisible, shows>>

Unprinted == UNCHANGED <<delayed, editor, given, fetched, cleared>>

onDebugReceiverReady ==
    /\ Finished("introspection")
    /\ receiver' = IF Head(answered).error THEN "none" ELSE "monitoring"
    /\ UNCHANGED tmpCache /\ Unprinted

onDebugReceiverMonitoringEnabled ==
    /\ Finished("monitoring")
    /\ receiver' = IF Head(answered).error THEN "none" ELSE "messages"
    /\ tmpCache' = IF Head(answered).error THEN <<>> ELSE tmpCache
    /\ Unprinted

\* What was signalled meanwhile follows what was fetched.
Fetched(messages, cached) == messages \o cached

onFetchMessagesFinished ==
    /\ Finished("messages")
    /\ tmpCache' = <<>>
    /\ IF Head(answered).error
       THEN receiver' = "none" /\ Unprinted
       ELSE /\ receiver' = "ready"
            /\ appendMessages(Fetched(Head(answered).messages, tmpCache))
            /\ fetched' = Len(given')

onNewDebugMessage ==
    /\ Arrives("message")
    /\ IF m_ready
       THEN appendMessages(Head(debugLink).messages) /\ UNCHANGED <<tmpCache, fetched>>
       ELSE tmpCache' = tmpCache \o Head(debugLink).messages /\ Unprinted
    /\ UNCHANGED <<answered, receiver, viewVisible, shows>>

\* The end of the process; only a receiver that is ready listens for it.
onDebugReceiverInvalidated ==
    /\ Arrives("exit")
    /\ receiver' = IF m_ready THEN "none" ELSE receiver
    /\ UNCHANGED <<answered, tmpCache, viewVars>>

DebugNext ==
    \/ Emits
    \/ \E error \in BOOLEAN : Replies(error)
    \/ Exits \/ ReplyArrives \/ RequestFails
    \/ showEvent \/ Hidden \/ clear
    \/ onDebugReceiverReady \/ onDebugReceiverMonitoringEnabled \/ onFetchMessagesFinished
    \/ onNewDebugMessage \/ onDebugReceiverInvalidated

-----------------------------------------------------------------------------
(* Properties.                                                             *)

\* The tab of a process misses nothing: what the view was given holds every message of the
\* process up to the newest it was told of, goes on without a gap and in order once the list
\* was fetched, and repeats only what was signalled before that; and the text is what the
\* view was given since it was last cleared, but for what a hidden view keeps for later.
TabsComplete ==
    /\ m_ready =>
        /\ Range(given) = 1 .. Cardinality(Range(given))
        /\ \A i \in fetched + 1 .. Len(given) : i > 1 => given[i] = given[i - 1] + 1
        /\ \A n \in Range(given) : Cardinality({i \in DOMAIN given : given[i] = n}) <= 2
        /\ debugLink = <<>> /\ given # <<>> => Last(given) = emitted
    /\ editor \o delayed = SubSeq(given, cleared + 1, Len(given))
    /\ viewVisible => delayed = <<>>
=============================================================================
